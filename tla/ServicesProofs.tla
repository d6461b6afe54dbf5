--------------------------- MODULE ServicesProofs ----------------------------
(***************************************************************************)
(* Theorems about notifications, the catalogue and the service areas, for  *)
(* any number of requests, overlaps and deaths unless said otherwise.      *)
(* Each has its types first, then the invariants behind its properties.    *)
(***************************************************************************)
EXTENDS Catalogue, Notifications, ServiceAreas, ServerProofs

-----------------------------------------------------------------------------
(* Notifications: types.                                                   *)

\* What a request is about is there: phones and notices are never taken back.
Noted(r) ==
  /\ r.at \in {"selectDevice", "updateDevice"} => r.phone \in Installed
  /\ r.at = "push" => r.phones \subseteq Installed
  /\ r.at = "read" => r.i \in DOMAIN inbox

NoticesInv == NotificationsTypeOK /\ \A q \in Requests : Noted(req[q])

\* A request that has just arrived.
NoticeComes(r) ==
  /\ r \in NoticeStep /\ Noted(r)
  /\ r.at \notin {"idle", "devices", "push", "updateDevice"}
  /\ r.at = "notify" /\ r.all => r.to \cap blocked = {}

NoticeArrives(q) ==
  PhoneRoutes(q) \/ InboxRoutes(q) \/ Broadcast(q) \/ NotifyUser(q) \/ Block(q)

LEMMA NoticeArrived ==
  ASSUME NoticesInv, NEW q \in Requests, NoticeArrives(q)
  PROVE  UNCHANGED ndata /\ \E r : NoticeComes(r) /\ Start(q, r)
<1>1. CASE RegisterDevice(q)
  <2>1. PICK p \in Phones, u \in Users :
          Start(q, [at |-> IF p \in Installed THEN "selectDevice" ELSE "insertDevice",
                    phone |-> p, user |-> u])
    BY <1>1 DEF RegisterDevice
  <2>2. NoticeComes([at |-> IF p \in Installed THEN "selectDevice" ELSE "insertDevice",
                     phone |-> p, user |-> u])
    BY DEF NoticeComes, NoticeStep, Noted
  <2>3. QED
    BY <1>1, <2>1, <2>2 DEF RegisterDevice
<1>2. CASE RemoveDevice(q)
  <2>1. PICK p \in Phones, u \in Users :
          Start(q, [at |-> "remove", phone |-> p, user |-> u])
    BY <1>2 DEF RemoveDevice
  <2>2. NoticeComes([at |-> "remove", phone |-> p, user |-> u])
    BY DEF NoticeComes, NoticeStep, Noted
  <2>3. QED
    BY <1>2, <2>1, <2>2 DEF RemoveDevice
<1>3. CASE MarkRead(q)
  <2>1. PICK i \in DOMAIN inbox : Start(q, [at |-> "read", i |-> i])
    BY <1>3 DEF MarkRead
  <2>2. i \in Nat
    BY DEF NoticesInv, NotificationsTypeOK
  <2>3. NoticeComes([at |-> "read", i |-> i])
    BY <2>2 DEF NoticeComes, NoticeStep, Noted
  <2>4. QED
    BY <1>3, <2>1, <2>3 DEF MarkRead
<1>4. CASE Broadcast(q)
  <2>1. PICK to \in Recipients : Start(q, [at |-> "notify", to |-> to, all |-> TRUE])
    BY <1>4 DEF Broadcast
  <2>2. to \in SUBSET Users /\ to \cap blocked = {}
    BY DEF Recipients
  <2>3. NoticeComes([at |-> "notify", to |-> to, all |-> TRUE])
    BY <2>2 DEF NoticeComes, NoticeStep, Noted
  <2>4. QED
    BY <1>4, <2>1, <2>3 DEF Broadcast
<1>5. CASE NotifyUser(q)
  <2>1. PICK u \in Users : Start(q, [at |-> "notify", to |-> {u}, all |-> FALSE])
    BY <1>5 DEF NotifyUser
  <2>2. {u} \in SUBSET Users
    OBVIOUS
  <2>3. NoticeComes([at |-> "notify", to |-> {u}, all |-> FALSE])
    BY <2>2 DEF NoticeComes, NoticeStep, Noted
  <2>4. QED
    BY <1>5, <2>1, <2>3 DEF NotifyUser
<1>6. CASE Block(q)
  <2>1. PICK u \in Users :
          Start(q, [at |-> IF u \in blocked THEN "unblock" ELSE "block", user |-> u])
    BY <1>6 DEF Block
  <2>2. NoticeComes([at |-> IF u \in blocked THEN "unblock" ELSE "block", user |-> u])
    BY DEF NoticeComes, NoticeStep, Noted
  <2>3. QED
    BY <1>6, <2>1, <2>2 DEF Block
<1>7. QED
  BY <1>1, <1>2, <1>3, <1>4, <1>5, <1>6 DEF NoticeArrives, PhoneRoutes, InboxRoutes

NoticeGoes(q) ==
  \/ DeviceStatement(q) \/ InsertNotices(q) \/ FindDevices(q) \/ Push(q)
  \/ SaveRead(q) \/ SaveBlock(q)

LEMMA NoticeStepIs ==
  ASSUME NotificationsNext
  PROVE  \/ MarkAllRead
         \/ \E q \in Requests : NoticeArrives(q) \/ NoticeGoes(q) \/ NoticeCrash(q)
BY DEF NotificationsNext, NoticeArrives, NoticeGoes, Dispatch

NoticeRows ==
  /\ Installed \subseteq Phones /\ devices \in [Installed -> Device]
  /\ holder \in [Phones -> Users \cup {Nobody}]
  /\ blocked \subseteq Users /\ inbox \in Seq(Notice)
  /\ strays \in Nat /\ missent \in Nat

LEMMA NoticesSplit ==
  NoticesInv <=> /\ NoticeRows /\ ServerTyped(NoticeStep)
                 /\ \A q \in Requests : Noted(req[q])
BY DEF NoticesInv, NotificationsTypeOK, NoticeRows, ServerTyped

\* The fields of a request's memory.
LEMMA NoticeMemory ==
  ASSUME NEW r \in NoticeStep
  PROVE  /\ r.at \in {"notify", "devices"} => /\ r.to \in SUBSET Users /\ r.all \in BOOLEAN
                                             /\ r = [at |-> r.at, to |-> r.to, all |-> r.all]
         /\ r.at = "push" => r.to \in SUBSET Users /\ r.phones \in SUBSET Phones
         /\ r.at = "read" => r.i \in Nat
         /\ r.at \in {"block", "unblock"} => r.user \in Users
         /\ r.at \in {"insertDevice", "selectDevice", "remove", "updateDevice"} =>
              r.phone \in Phones /\ r.user \in Users
         /\ r.at = "updateDevice" => r.dirty \in SUBSET {"user", "active"}
BY DEF NoticeStep, Idle

\* A handler that goes on: to what it goes, and that what is there stays.
LEMMA NoticesStay ==
  ASSUME NoticesInv, NEW q \in Requests, ServerTyped(NoticeStep)', NoticeRows',
         \A p \in Requests : p # q => req'[p] = req[p],
         Noted(req[q])', Installed \subseteq Installed', DOMAIN inbox \subseteq DOMAIN inbox'
  PROVE  NoticesInv'
<1>1. ASSUME NEW p \in Requests, p # q PROVE Noted(req[p])'
  BY <1>1 DEF NoticesInv, Noted
<1>2. \A p \in Requests : Noted(req[p])'
  BY <1>1
<1>3. (NoticeRows /\ ServerTyped(NoticeStep) /\ \A p \in Requests : Noted(req[p])) => NoticesInv
  BY NoticesSplit
<1>4. QED
  BY <1>2, NoticesSplit DEF NoticesInv, NotificationsTypeOK, NoticeRows, ServerTyped

LEMMA NoticeArrivedTyped ==
  ASSUME NoticesInv, NEW q \in Requests, NoticeArrives(q)
  PROVE  NoticesInv'
<1>1. UNCHANGED ndata /\ \E r : NoticeComes(r) /\ Start(q, r)
  BY NoticeArrived
<1>2. PICK r : NoticeComes(r) /\ Start(q, r)
  BY <1>1
<1>3. r \in NoticeStep /\ Noted(r)
  BY <1>2 DEF NoticeComes
<1>4. ServerTyped(NoticeStep)
  BY NoticesSplit
<1>5. ServerTyped(NoticeStep)'
  BY <1>2, <1>3, <1>4, StartTyped
<1>6. NoticeRows' /\ Installed' = Installed /\ inbox' = inbox
  BY <1>1, NoticesSplit DEF NoticeRows, ndata, Installed
<1>7. req'[q] = r /\ \A p \in Requests : p # q => req'[p] = req[p]
  BY <1>2, <1>4 DEF Start, ServerTyped
<1>8. Noted(req[q])'
  BY <1>3, <1>6, <1>7 DEF Noted
<1>9. QED
  BY <1>5, <1>6, <1>7, <1>8, NoticesStay

LEMMA GoesTo ==
  ASSUME NEW S, ServerTyped(S), NEW q \in Requests, NEW r \in S, Go(q, r)
  PROVE  /\ ServerTyped(S)' /\ overlaps' = overlaps /\ deaths' = deaths
         /\ req'[q] = r /\ \A p \in Requests : p # q => req'[p] = req[p]
BY DEF ServerTyped, Go

LEMMA GoesHome ==
  ASSUME NEW S, ServerTyped(S), NEW q \in Requests, Idle \in S, Answer(q)
  PROVE  /\ ServerTyped(S)' /\ overlaps' = overlaps /\ deaths' = deaths
         /\ req'[q] = Idle /\ \A p \in Requests : p # q => req'[p] = req[p]
BY GoesTo DEF Answer

LEMMA Dies ==
  ASSUME NEW S, ServerTyped(S), NEW q \in Requests, Idle \in S, Die(q)
  PROVE  /\ ServerTyped(S)' /\ overlaps' = overlaps /\ deaths' = deaths + 1 /\ InFlight(q)
         /\ req'[q] = Idle /\ \A p \in Requests : p # q => req'[p] = req[p]
BY DEF ServerTyped, Die

LEMMA IdleNoted == Idle \in NoticeStep /\ Noted(Idle)
BY DEF NoticeStep, Noted, Idle

LEMMA NoticeInFlight ==
  ASSUME NEW q \in Requests, NoticeGoes(q)
  PROVE  InFlight(q)
BY DEF NoticeGoes, DeviceStatement, InsertDevice, SelectDevice, UpdateDevice, DeactivateDevice,
       InsertNotices, FindDevices, Push, SaveRead, SaveBlock, At, InFlight

\* What the statements about phones do to the row of the phone, and to who holds it.
LEMMA PhoneIs ==
  ASSUME NoticesInv, NotificationsAssumption, NEW q \in Requests, DeviceStatement(q)
  PROVE  /\ \/ Answer(q)
            \/ /\ At(q, "selectDevice") /\ UNCHANGED <<devices, holder>>
               /\ LET p == req[q].phone  u == req[q].user IN
                  Go(q, [at |-> "updateDevice", phone |-> p, user |-> u,
                         dirty |-> {c \in {"user", "active"} :
                                      devices[p][c] # Registered(u)[c]}])
         /\ UNCHANGED <<blocked, inbox, strays, missent>>
         /\ req[q].phone \in Phones /\ req[q].user \in Users
         /\ Installed \subseteq Installed' /\ Installed' \subseteq Phones
         /\ devices' \in [Installed' -> Device]
         /\ holder' \in [Phones -> Users \cup {Nobody}]
         /\ \A d \in Phones : d # req[q].phone =>
              /\ holder'[d] = holder[d] /\ (d \in Installed' <=> d \in Installed)
              /\ d \in Installed => devices'[d] = devices[d]
<1> DEFINE p == req[q].phone
           u == req[q].user
<1>1. /\ ServerTyped(NoticeStep) /\ req[q] \in NoticeStep /\ Noted(req[q])
      /\ Installed \subseteq Phones /\ devices \in [Installed -> Device]
      /\ holder \in [Phones -> Users \cup {Nobody}]
  BY NoticesSplit DEF ServerTyped, NoticeRows
<1>2. p \in Phones /\ u \in Users
  BY <1>1, NoticeMemory DEF DeviceStatement, InsertDevice, SelectDevice, UpdateDevice,
     DeactivateDevice, At
<1>3. CASE InsertDevice(q)
  <2>1. CASE p \in Installed
    BY <1>1, <1>2, <1>3, <2>1 DEF InsertDevice, Installed
  <2>2. CASE p \notin Installed
    <3>1. /\ devices' = [d \in Installed \cup {p} |->
                           IF d = p THEN [user |-> u, active |-> TRUE] ELSE devices[d]]
          /\ holder' = [holder EXCEPT ![p] = u]
      BY <1>3, <2>2 DEF InsertDevice
    <3>2. [user |-> u, active |-> TRUE] \in Device
      BY <1>2 DEF Device
    <3>3. Installed' = Installed \cup {p}
      BY <3>1 DEF Installed
    <3>4. QED
      BY <1>1, <1>2, <1>3, <3>1, <3>2, <3>3 DEF InsertDevice
  <2>3. QED
    BY <2>1, <2>2
<1>4. CASE SelectDevice(q)
  <2>1. UNCHANGED devices /\ Installed' = Installed
        /\ (holder' = [holder EXCEPT ![p] = u] \/ UNCHANGED holder)
    BY <1>4 DEF SelectDevice, Installed
  <2>2. QED
    BY <1>1, <1>2, <1>4, <2>1 DEF SelectDevice
<1>5. CASE UpdateDevice(q)
  <2>1. /\ devices' = [devices EXCEPT ![p] =
             [c \in {"user", "active"} |-> IF c \in req[q].dirty THEN Registered(u)[c] ELSE @[c]]]
        /\ holder' = [holder EXCEPT ![p] = u]
    BY <1>5 DEF UpdateDevice
  <2>2. p \in Installed
    BY <1>1, <1>5 DEF UpdateDevice, At, Noted
  <2>3. [c \in {"user", "active"} |-> IF c \in req[q].dirty THEN Registered(u)[c]
                                      ELSE devices[p][c]] \in Device
    BY <1>1, <1>2, <2>2 DEF Device, Registered
  <2>4. Installed' = Installed
    BY <2>1 DEF Installed
  <2>5. QED
    BY <1>1, <1>2, <1>5, <2>1, <2>2, <2>3, <2>4 DEF UpdateDevice
<1>6. CASE DeactivateDevice(q)
  <2>1. /\ devices' = [d \in Installed |-> IF d = p /\ devices[d].user = u
                                           THEN [devices[d] EXCEPT !.active = FALSE]
                                           ELSE devices[d]]
        /\ holder' = Released(p, u)
    BY <1>6 DEF DeactivateDevice
  <2>2. \A d \in Installed : [devices[d] EXCEPT !.active = FALSE] \in Device
    BY <1>1 DEF Device
  <2>3. Installed' = Installed
    BY <2>1 DEF Installed
  <2>4. QED
    BY <1>1, <1>2, <1>6, <2>1, <2>2, <2>3 DEF DeactivateDevice, Released
<1>7. QED
  BY <1>3, <1>4, <1>5, <1>6 DEF DeviceStatement

\* What the other statements do.
LEMMA NotifyIs ==
  ASSUME NoticesInv, NotificationsAssumption, NEW q \in Requests, InsertNotices(q)
  PROVE  /\ req[q].at = "notify"
         /\ Go(q, [at |-> "devices", to |-> req[q].to, all |-> req[q].all])
         /\ UNCHANGED <<devices, holder, blocked, missent>>
         /\ inbox' \in Seq(Notice) /\ DOMAIN inbox \subseteq DOMAIN inbox'
         /\ strays' = (IF req[q].all /\ req[q].to \cap blocked # {} THEN strays + 1 ELSE strays)
<1> DEFINE to == req[q].to
<1>1. req[q] \in NoticeStep /\ req[q].at = "notify" /\ inbox \in Seq(Notice)
  BY NoticesSplit DEF ServerTyped, NoticeRows, InsertNotices, At
<1>2. /\ to \in SUBSET Users /\ req[q].all \in BOOLEAN
      /\ req[q] = [at |-> req[q].at, to |-> to, all |-> req[q].all]
  BY <1>1, NoticeMemory
<1>3. [req[q] EXCEPT !.at = "devices"] = [at |-> "devices", to |-> to, all |-> req[q].all]
  BY <1>2
<1>4. Cardinality(to) \in Nat
  BY <1>2, FS_Subset, FS_CardinalityType DEF NotificationsAssumption
<1>5. PICK s \in [1..Cardinality(to) -> [user: to, read: {FALSE}]] : inbox' = inbox \o s
  BY DEF InsertNotices
<1>6. s \in Seq(Notice)
  <2>1. [user: to, read: {FALSE}] \subseteq Notice
    BY <1>2 DEF Notice
  <2>2. s \in [1..Cardinality(to) -> Notice]
    BY <2>1
  <2>3. QED
    BY <1>4, <2>2
<1>7. inbox' \in Seq(Notice) /\ DOMAIN inbox \subseteq DOMAIN inbox'
  BY <1>1, <1>5, <1>6
<1>8. QED
  BY <1>1, <1>3, <1>7 DEF InsertNotices

LEMMA NoticeWentTyped ==
  ASSUME NoticesInv, NotificationsAssumption, NEW q \in Requests,
         NoticeGoes(q) \/ NoticeCrash(q)
  PROVE  /\ NoticesInv' /\ overlaps' = overlaps /\ InFlight(q)
         /\ \A p \in Requests : p # q => req'[p] = req[p]
<1>1. /\ NoticeRows /\ ServerTyped(NoticeStep) /\ req[q] \in NoticeStep /\ Noted(req[q])
      /\ Idle \in NoticeStep /\ Noted(Idle)
  BY NoticesSplit, IdleNoted DEF ServerTyped
<1>2. req'[q] = Idle => Noted(req[q])'
  BY DEF Noted, Idle
<1>3. CASE DeviceStatement(q)
  <2> DEFINE p == req[q].phone
             u == req[q].user
             dirt == {c \in {"user", "active"} : devices[p][c] # Registered(u)[c]}
  <2>1. /\ \/ Answer(q)
           \/ /\ At(q, "selectDevice")
              /\ Go(q, [at |-> "updateDevice", phone |-> p, user |-> u, dirty |-> dirt])
        /\ p \in Phones /\ u \in Users /\ Installed \subseteq Installed'
    BY <1>3, PhoneIs
  <2>2. NoticeRows' /\ inbox' = inbox
    BY <1>1, <1>3, PhoneIs DEF NoticeRows
  <2>3. CASE Answer(q)
    BY <1>1, <1>2, <1>3, <2>1, <2>2, <2>3, GoesHome, NoticesStay, NoticeInFlight DEF NoticeGoes
  <2>4. CASE /\ At(q, "selectDevice")
             /\ Go(q, [at |-> "updateDevice", phone |-> p, user |-> u, dirty |-> dirt])
    <3>1. PICK n : n = [at |-> "updateDevice", phone |-> p, user |-> u, dirty |-> dirt]
      OBVIOUS
    <3>2. dirt \in SUBSET {"user", "active"}
      OBVIOUS
    <3> HIDE DEF dirt
    <3>3. n \in NoticeStep /\ n.at = "updateDevice" /\ n.phone = p
      BY <2>1, <3>1, <3>2 DEF NoticeStep
    <3>4. p \in Installed
      BY <1>1, <2>4 DEF At, Noted
    <3>5. /\ ServerTyped(NoticeStep)' /\ overlaps' = overlaps
          /\ req'[q] = n /\ \A d \in Requests : d # q => req'[d] = req[d]
      BY <1>1, <2>4, <3>1, <3>3, GoesTo
    <3>6. Noted(req[q])'
      BY <2>1, <3>3, <3>4, <3>5 DEF Noted
    <3>7. QED
      BY <1>3, <2>1, <2>2, <3>5, <3>6, NoticesStay, NoticeInFlight DEF NoticeGoes
  <2>5. QED
    BY <2>1, <2>3, <2>4
<1>4. CASE InsertNotices(q)
  <2>1. PICK n : n = [at |-> "devices", to |-> req[q].to, all |-> req[q].all]
    OBVIOUS
  <2>2. n \in NoticeStep /\ n.at = "devices"
    BY <1>1, <1>4, <2>1, NotifyIs, NoticeMemory DEF NoticeStep
  <2>3. /\ ServerTyped(NoticeStep)' /\ overlaps' = overlaps
        /\ req'[q] = n /\ \A d \in Requests : d # q => req'[d] = req[d]
    BY <1>1, <1>4, <2>1, <2>2, GoesTo, NotifyIs
  <2>4. Noted(req[q])'
    BY <2>2, <2>3 DEF Noted
  <2>5. NoticeRows' /\ Installed' = Installed /\ DOMAIN inbox \subseteq DOMAIN inbox'
    <3>1. UNCHANGED <<devices, holder, blocked, missent>> /\ Installed' = Installed
          /\ inbox' \in Seq(Notice) /\ DOMAIN inbox \subseteq DOMAIN inbox'
      BY <1>4, NotifyIs DEF Installed
    <3>2. strays' \in Nat
      <4>1. strays' = strays \/ strays' = strays + 1
        BY <1>4, NotifyIs
      <4>2. QED
        BY <1>1, <4>1 DEF NoticeRows
    <3>3. QED
      BY <1>1, <3>1, <3>2 DEF NoticeRows
  <2>6. QED
    BY <1>4, <2>3, <2>4, <2>5, NoticesStay, NoticeInFlight DEF NoticeGoes
<1>5. CASE FindDevices(q)
  <2> DEFINE found == {p \in Installed : devices[p].user \in req[q].to /\ devices[p].active}
  <2>1. PICK n : n = [at |-> "push", to |-> req[q].to, phones |-> found]
    OBVIOUS
  <2>2. Go(q, n) /\ req[q].at = "devices" /\ UNCHANGED ndata
    BY <1>5, <2>1 DEF FindDevices, At
  <2>3. req[q].to \in SUBSET Users /\ found \in SUBSET Phones /\ found \subseteq Installed
    BY <1>1, <2>2, NoticeMemory DEF NoticeRows
  <2> HIDE DEF found
  <2>4. n \in NoticeStep /\ n.at = "push" /\ n.phones = found
    BY <2>1, <2>3 DEF NoticeStep
  <2>5. /\ ServerTyped(NoticeStep)' /\ overlaps' = overlaps
        /\ req'[q] = n /\ \A d \in Requests : d # q => req'[d] = req[d]
    BY <1>1, <2>2, <2>4, GoesTo
  <2>6. NoticeRows' /\ Installed' = Installed /\ inbox' = inbox
    BY <1>1, <2>2 DEF NoticeRows, ndata, Installed
  <2>7. Noted(req[q])'
    BY <2>3, <2>4, <2>5, <2>6 DEF Noted
  <2>8. QED
    BY <1>5, <2>5, <2>6, <2>7, NoticesStay, NoticeInFlight DEF NoticeGoes
<1>6. CASE Push(q) \/ SaveRead(q) \/ SaveBlock(q) \/ NoticeCrash(q)
  <2>1. /\ ServerTyped(NoticeStep)' /\ overlaps' = overlaps
        /\ req'[q] = Idle /\ \A d \in Requests : d # q => req'[d] = req[d]
    BY <1>1, <1>6, GoesHome, Dies DEF Push, SaveRead, SaveBlock, NoticeCrash
  <2>2. Installed' = Installed /\ DOMAIN inbox' = DOMAIN inbox
    BY <1>6 DEF Push, SaveRead, SaveBlock, NoticeCrash, ndata, Installed
  <2>3. NoticeRows'
    <3>1. CASE Push(q)
      BY <1>1, <3>1 DEF Push, NoticeRows, Installed
    <3>2. CASE SaveRead(q)
      <4>1. req[q].i \in DOMAIN inbox
        BY <1>1, <3>2 DEF SaveRead, At, Noted
      <4>2. [inbox[req[q].i] EXCEPT !.read = TRUE] \in Notice
        <5>1. inbox[req[q].i] \in Notice
          BY <1>1, <4>1 DEF NoticeRows
        <5>2. QED
          BY <5>1 DEF Notice
      <4>3. inbox' \in Seq(Notice)
        BY <1>1, <3>2, <4>1, <4>2 DEF SaveRead, NoticeRows
      <4>4. QED
        BY <1>1, <3>2, <4>3 DEF SaveRead, NoticeRows, Installed
    <3>3. CASE SaveBlock(q)
      <4>1. req[q].user \in Users
        BY <1>1, <3>3, NoticeMemory DEF SaveBlock, At
      <4>2. QED
        BY <1>1, <3>3, <4>1 DEF SaveBlock, NoticeRows, Installed
    <3>4. CASE NoticeCrash(q)
      BY <1>1, <3>4 DEF NoticeCrash, ndata, NoticeRows, Installed
    <3>5. QED
      BY <1>6, <3>1, <3>2, <3>3, <3>4
  <2>4. InFlight(q)
    BY <1>1, <1>6, NoticeInFlight, Dies DEF NoticeGoes, NoticeCrash
  <2>5. QED
    BY <1>2, <2>1, <2>2, <2>3, <2>4, NoticesStay
<1>7. QED
  BY <1>3, <1>4, <1>5, <1>6 DEF NoticeGoes

LEMMA NoticeTypeStep ==
  ASSUME NoticesInv, NotificationsAssumption, [NotificationsNext]_nvars
  PROVE  NoticesInv'
<1>1. CASE NotificationsNext
  <2>1. CASE MarkAllRead
    <3>1. PICK u \in Users :
            inbox' = [i \in DOMAIN inbox |-> [inbox[i] EXCEPT !.read = @ \/ inbox[i].user = u]]
      BY <2>1 DEF MarkAllRead
    <3>2. inbox \in Seq(Notice)
      BY NoticesSplit DEF NoticeRows
    <3>3. \A i \in DOMAIN inbox : [inbox[i] EXCEPT !.read = @ \/ inbox[i].user = u] \in Notice
      <4> SUFFICES ASSUME NEW i \in DOMAIN inbox
                   PROVE  [inbox[i] EXCEPT !.read = @ \/ inbox[i].user = u] \in Notice
        OBVIOUS
      <4>1. inbox[i] \in Notice
        BY <3>2
      <4>2. (inbox[i].read \/ inbox[i].user = u) \in BOOLEAN
        OBVIOUS
      <4>3. QED
        BY <4>1, <4>2 DEF Notice
    <3>4. inbox' \in Seq(Notice) /\ DOMAIN inbox' = DOMAIN inbox
      BY <3>1, <3>2, <3>3
    <3>5. NoticeRows' /\ ServerTyped(NoticeStep)' /\ Installed' = Installed /\ req' = req
      BY <2>1, <3>4, NoticesSplit DEF MarkAllRead, NoticeRows, Installed, server, ServerTyped
    <3>6. \A q \in Requests : Noted(req[q])'
      BY <3>4, <3>5 DEF NoticesInv, Noted
    <3>7. QED
      BY <3>5, <3>6 DEF NoticesInv, NotificationsTypeOK, NoticeRows, ServerTyped
  <2>2. ASSUME NEW q \in Requests, NoticeArrives(q) \/ NoticeGoes(q) \/ NoticeCrash(q)
        PROVE  NoticesInv'
    BY <2>2, NoticeArrivedTyped, NoticeWentTyped
  <2>3. QED
    BY <1>1, <2>1, <2>2, NoticeStepIs
<1>2. CASE UNCHANGED nvars
  BY <1>2 DEF nvars, server, ndata, NoticesInv, NotificationsTypeOK, Noted, Installed
<1>3. QED
  BY <1>1, <1>2

LEMMA NoticeTypeInit ==
  ASSUME NotificationsInit, NotificationsAssumption
  PROVE  NoticesInv
<1>1. devices = [p \in {} |-> 0] /\ Installed = {}
  BY DEF NotificationsInit, Installed
<1>2. devices \in [Installed -> Device]
  BY <1>1
<1>3. ServerTyped(NoticeStep) /\ \A q \in Requests : req[q] = Idle
  BY IdleNoted DEF NotificationsInit, ServerInit, ServerTyped
<1>4. QED
  BY <1>1, <1>2, <1>3, IdleNoted, NoticesSplit DEF NotificationsInit, NoticeRows

\* Phones, notifications and the memory of every request are well typed, for
\* any finite sets of users and phones.
THEOREM NotificationsTypeCorrect == NotificationsSpec => []NotificationsTypeOK
<1>1. NotificationsInit => NoticesInv
  BY NotificationsAssumption, NoticeTypeInit
<1>2. NoticesInv /\ [NotificationsNext]_nvars => NoticesInv'
  BY NotificationsAssumption, NoticeTypeStep
<1>3. NoticesInv => NotificationsTypeOK
  BY DEF NoticesInv
<1>4. QED
  BY <1>1, <1>2, <1>3, PTL DEF NotificationsSpec

-----------------------------------------------------------------------------
(* Notifications: each overlap lets one broadcast, one push or one phone    *)
(* go astray.                                                              *)

\* A broadcast in flight is to be written for a user who is blocked by now.
Straying == \E q \in Requests : /\ req[q].at = "notify" /\ req[q].all
                                /\ req[q].to \cap blocked # {}

\* Requests that have no broadcast behind them.
Unsent   == {q \in Requests : InFlight(q) /\ req[q].at \notin {"devices", "push"}}
StrayDue == IF Straying THEN 1 ELSE 0
StrayInv == Owes(Unsent, overlaps, strays, StrayDue)

\* A request in flight has looked at a phone that has changed since.
Outrun(r) ==
  \/ r.at = "push" /\ \E p \in r.phones : devices[p].user \notin r.to
  \/ /\ r.at = "updateDevice"
     /\ \E c \in {"user", "active"} \ r.dirty : devices[r.phone][c] # Registered(r.user)[c]

Misplaced == {p \in Phones : ~Placed(p)}
Missing   == \E q \in Requests : Outrun(req[q])
MissDue   == IF Missing THEN 1 ELSE 0
Missed    == Cardinality(Misplaced) + missent
MissInv   == Owes(Busy, overlaps, Missed, MissDue)

LEMMA DueTyped == StrayDue \in {0, 1} /\ MissDue \in {0, 1}
BY DEF StrayDue, MissDue

LEMMA DueTypedNext == StrayDue' \in {0, 1} /\ MissDue' \in {0, 1}
BY DEF StrayDue, MissDue

LEMMA MisplacedFinite ==
  NoticesInv => IsFiniteSet(Misplaced) /\ Cardinality(Misplaced) \in Nat /\ Missed \in Nat
<1> SUFFICES ASSUME NoticesInv
             PROVE  IsFiniteSet(Misplaced) /\ Cardinality(Misplaced) \in Nat /\ Missed \in Nat
  OBVIOUS
<1>1. IsFiniteSet(Misplaced) /\ Cardinality(Misplaced) \in Nat
  BY NotificationsAssumption, Fewer DEF Misplaced, NotificationsAssumption
<1>2. QED
  BY <1>1 DEF Missed, NoticesInv, NotificationsTypeOK

LEMMA MisplacedFiniteNext ==
  NoticesInv' =>
    (IsFiniteSet(Misplaced) /\ Cardinality(Misplaced) \in Nat /\ Missed \in Nat)'
BY MisplacedFinite, PTL

LEMMA UnsentFinite ==
  ASSUME BusyInv
  PROVE  IsFiniteSet(Busy) /\ IsFiniteSet(Unsent) /\ Unsent \subseteq Busy
<1>1. Unsent \subseteq Busy
  BY DEF Unsent, Busy
<1>2. QED
  BY <1>1, FS_Subset DEF BusyInv

\* What a step that starts a request does to the server.
LEMMA Begins ==
  ASSUME NEW S, ServerTyped(S), NEW q \in Requests, NEW r, Start(q, r)
  PROVE  /\ req'[q] = r /\ \A p \in Requests : p # q => req'[p] = req[p]
         /\ overlaps' = IF Busy = {} THEN overlaps ELSE overlaps + 1
         /\ overlaps \in Nat /\ overlaps' \in Nat /\ Busy' \subseteq Busy \cup {q}
<1>1. Quiet <=> Busy = {}
  BY DEF Quiet, Busy
<1>2. req'[q] = r /\ \A p \in Requests : p # q => req'[p] = req[p]
  BY DEF ServerTyped, Start
<1>3. Busy' \subseteq Busy \cup {q}
  BY <1>2 DEF Busy, InFlight
<1>4. QED
  BY <1>1, <1>2, <1>3 DEF ServerTyped, Start

LEMMA NoticeBusyKept ==
  ASSUME NoticesInv, BusyInv, NotificationsAssumption, [NotificationsNext]_nvars
  PROVE  BusyInv'
<1>1. ServerTyped(NoticeStep) /\ overlaps \in Nat
  BY NoticesSplit DEF ServerTyped
<1>2. CASE NotificationsNext
  <2>1. CASE MarkAllRead
    BY <2>1 DEF MarkAllRead, server, BusyInv, Busy, InFlight
  <2>2. ASSUME NEW q \in Requests, NoticeArrives(q)
        PROVE  BusyInv'
    BY <1>1, <2>2, NoticeArrived, StartBusy
  <2>3. ASSUME NEW q \in Requests, NoticeGoes(q) \/ NoticeCrash(q)
        PROVE  BusyInv'
    BY <1>1, <2>3, NoticeWentTyped, StepBusy
  <2>4. QED
    BY <1>2, <2>1, <2>2, <2>3, NoticeStepIs
<1>3. CASE UNCHANGED nvars
  BY <1>3 DEF nvars, server, BusyInv, Busy, InFlight
<1>4. QED
  BY <1>2, <1>3

LEMMA StrayBegin ==
  ASSUME NoticesInv, BusyInv, StrayInv, NEW q \in Requests, NoticeArrives(q)
  PROVE  StrayInv'
<1>1. UNCHANGED ndata /\ \E r : NoticeComes(r) /\ Start(q, r)
  BY NoticeArrived
<1>2. PICK r : NoticeComes(r) /\ Start(q, r)
  BY <1>1
<1>3. ServerTyped(NoticeStep) /\ strays \in Nat
  BY NoticesSplit DEF NoticeRows
<1>4. /\ req'[q] = r /\ \A p \in Requests : p # q => req'[p] = req[p]
      /\ overlaps' = IF Busy = {} THEN overlaps ELSE overlaps + 1
      /\ overlaps \in Nat /\ overlaps' \in Nat
  BY <1>2, <1>3, Begins
<1>5. Unsent' \in SUBSET (Unsent \cup {q})
  BY <1>4 DEF Unsent, InFlight
<1>6. Straying' => Straying
  BY <1>1, <1>2, <1>4 DEF Straying, ndata, NoticeComes
<1>7. Unsent = {} => ~Straying
  BY DEF Unsent, Straying, InFlight
<1> DEFINE BB == Unsent'
           kk == StrayDue'
           oo == overlaps'
<1>8. kk \in {0, 1} /\ StrayDue \in {0, 1}
  BY DueTyped, DueTypedNext
<1>9. kk <= StrayDue /\ (Unsent = {} => kk = 0)
  BY <1>6, <1>7 DEF StrayDue
<1>10. IsFiniteSet(Unsent) /\ Unsent \subseteq Busy
  BY UnsentFinite
<1>11. BB \in SUBSET (Unsent \cup {q}) /\ oo \in Nat /\ overlaps \in Nat
  BY <1>4, <1>5
<1>12. oo = IF Busy = {} THEN overlaps ELSE overlaps + 1
  BY <1>4
<1> HIDE DEF BB, kk, oo
<1>13. CASE Unsent = {} /\ Busy # {}
  <2>1. Joins(Unsent, overlaps, StrayDue, overlaps, kk)
    BY <1>9, <1>13 DEF Joins
  <2>2. Owes(BB, overlaps, strays, kk)
    BY <1>3, <1>8, <1>10, <1>11, <2>1, OwesMore DEF StrayInv
  <2>3. IsFiniteSet(BB) /\ oo >= overlaps
    BY <1>10, <1>11, <1>12, OneMore
  <2>4. Owes(BB, oo, strays, kk)
    BY <1>3, <1>8, <1>11, <2>2, <2>3, OwesLater
  <2>5. QED
    BY <1>1, <2>4 DEF StrayInv, BB, kk, oo, ndata
<1>14. CASE ~(Unsent = {} /\ Busy # {})
  <2>1. Joins(Unsent, overlaps, StrayDue, oo, kk)
    BY <1>9, <1>10, <1>12, <1>14 DEF Joins
  <2>2. Owes(BB, oo, strays, kk)
    BY <1>3, <1>8, <1>10, <1>11, <2>1, OwesMore DEF StrayInv
  <2>3. QED
    BY <1>1, <2>2 DEF StrayInv, BB, kk, oo, ndata
<1>15. QED
  BY <1>13, <1>14

LEMMA StrayGo ==
  ASSUME NoticesInv, NotificationsAssumption, BusyInv, StrayInv,
         NEW q \in Requests, NoticeGoes(q) \/ NoticeCrash(q)
  PROVE  StrayInv'
<1>1. /\ NoticesInv' /\ overlaps' = overlaps /\ InFlight(q) /\ overlaps \in Nat
      /\ \A p \in Requests : p # q => req'[p] = req[p]
      /\ ServerTyped(NoticeStep)
  BY NoticeWentTyped, NoticesSplit DEF ServerTyped
<1>2. strays \in Nat /\ strays' \in Nat
  BY <1>1, NoticesSplit DEF NoticeRows, NoticesInv, NotificationsTypeOK
<1> DEFINE BB == Unsent'
           kk == StrayDue'
           nn == strays'
<1>3. kk \in {0, 1} /\ StrayDue \in {0, 1} /\ IsFiniteSet(Unsent)
  BY DueTyped, DueTypedNext, UnsentFinite
<1>4. CASE InsertNotices(q)
  <2>1. /\ req[q].at = "notify"
        /\ Go(q, [at |-> "devices", to |-> req[q].to, all |-> req[q].all])
        /\ UNCHANGED blocked
        /\ strays' = (IF req[q].all /\ req[q].to \cap blocked # {} THEN strays + 1 ELSE strays)
    BY <1>4, NotifyIs
  <2>2. req'[q].at = "devices"
    BY <1>1, <2>1 DEF Go, ServerTyped
  <2>3. q \in Unsent /\ BB \in SUBSET Unsent /\ q \notin BB
    BY <1>1, <2>1, <2>2 DEF Unsent, InFlight
  <2>4. CASE Straying
    <3>1. StrayDue = 1 /\ nn <= strays + 1
      BY <1>2, <2>1, <2>4 DEF StrayDue
    <3> HIDE DEF BB, kk, nn
    <3>2. Pays(q, BB, strays, StrayDue, nn, kk)
      BY <2>3, <3>1 DEF Pays
    <3>3. nn \in Nat
      BY <1>2 DEF nn
    <3>4. Owes(BB, overlaps, nn, kk)
      BY <1>1, <1>2, <1>3, <2>3, <3>2, <3>3, OwesStill DEF StrayInv
    <3>5. QED
      BY <1>1, <3>4 DEF StrayInv, BB, kk, nn
  <2>5. CASE ~Straying
    <3>1. nn = strays
      BY <2>1, <2>5 DEF Straying
    <3> HIDE DEF BB, kk, nn
    <3>2. Pays(q, BB, strays, StrayDue, nn, kk)
      BY <1>2, <2>3, <3>1 DEF Pays
    <3>3. nn \in Nat
      BY <1>2 DEF nn
    <3>4. Owes(BB, overlaps, nn, kk)
      BY <1>1, <1>2, <1>3, <2>3, <3>2, <3>3, OwesStill DEF StrayInv
    <3>5. QED
      BY <1>1, <3>4 DEF StrayInv, BB, kk, nn
  <2>6. QED
    BY <2>4, <2>5
<1>5. CASE ~InsertNotices(q)
  <2>1. nn = strays
    BY <1>5, PhoneIs DEF NoticeGoes, FindDevices, Push, SaveRead, SaveBlock, NoticeCrash, ndata
  <2>2. CASE q \in Unsent /\ ~SelectDevice(q)
    <3>1. req'[q] = Idle
      BY <1>1, <1>5, <2>2 DEF NoticeGoes, DeviceStatement, InsertDevice, UpdateDevice,
         DeactivateDevice, FindDevices, Push, SaveRead, SaveBlock, NoticeCrash, Answer, Go, Die,
         ServerTyped, Unsent, At
    <3>2. q \notin BB /\ BB \in SUBSET Unsent
      BY <1>1, <3>1 DEF Unsent, InFlight, Idle
    <3> HIDE DEF BB, kk, nn
    <3>3. Pays(q, BB, strays, StrayDue, nn, kk)
      BY <1>2, <2>1, <3>2 DEF Pays
    <3>4. Owes(BB, overlaps, nn, kk)
      BY <1>1, <1>2, <1>3, <2>1, <2>2, <3>2, <3>3, OwesStill DEF StrayInv
    <3>5. QED
      BY <1>1, <3>4 DEF StrayInv, BB, kk, nn
  <2>3. CASE SelectDevice(q)
    <3>1. /\ req'[q].at \in {"idle", "updateDevice"} /\ At(q, "selectDevice")
          /\ UNCHANGED blocked
      BY <1>1, <2>3 DEF SelectDevice, Answer, Go, ServerTyped, Idle
    <3>2. q \in Unsent /\ BB \in SUBSET Unsent
      BY <1>1, <3>1 DEF Unsent, InFlight, At
    <3>3. Straying' => Straying
      BY <1>1, <3>1 DEF Straying
    <3>4. kk <= StrayDue
      BY <3>3 DEF StrayDue
    <3> HIDE DEF BB, kk, nn
    <3>5. Pays(q, BB, strays, StrayDue, nn, kk)
      BY <1>2, <2>1, <3>4 DEF Pays
    <3>6. Owes(BB, overlaps, nn, kk)
      BY <1>1, <1>2, <1>3, <2>1, <3>2, <3>5, OwesStill DEF StrayInv
    <3>7. QED
      BY <1>1, <3>6 DEF StrayInv, BB, kk, nn
  <2>4. CASE q \notin Unsent
    <3>1. req[q].at \in {"devices", "push"}
      BY <1>1, <2>4 DEF Unsent
    <3>2. FindDevices(q) \/ Push(q) \/ NoticeCrash(q)
      BY <1>5, <3>1 DEF NoticeGoes, DeviceStatement, InsertDevice, SelectDevice, UpdateDevice,
         DeactivateDevice, InsertNotices, SaveRead, SaveBlock, At
    <3>3. req'[q].at \in {"idle", "push"} /\ UNCHANGED blocked
      BY <1>1, <3>2 DEF FindDevices, Push, NoticeCrash, Answer, Go, Die, ServerTyped, Idle, ndata
    <3>4. Unsent' = Unsent
      BY <1>1, <2>4, <3>3 DEF Unsent, InFlight
    <3>5. Straying' <=> Straying
      BY <1>1, <3>1, <3>3 DEF Straying
    <3>6. QED
      BY <1>1, <2>1, <3>4, <3>5 DEF StrayInv, StrayDue
  <2>5. QED
    BY <2>2, <2>3, <2>4
<1>6. QED
  BY <1>4, <1>5

LEMMA MissBegin ==
  ASSUME NoticesInv, BusyInv, MissInv, NEW q \in Requests, NoticeArrives(q)
  PROVE  MissInv'
<1>1. UNCHANGED ndata /\ \E r : NoticeComes(r) /\ Start(q, r)
  BY NoticeArrived
<1>2. PICK r : NoticeComes(r) /\ Start(q, r)
  BY <1>1
<1>3. ServerTyped(NoticeStep) /\ Missed \in Nat
  BY NoticesSplit, MisplacedFinite
<1>4. /\ req'[q] = r /\ \A p \in Requests : p # q => req'[p] = req[p]
      /\ overlaps' = IF Busy = {} THEN overlaps ELSE overlaps + 1
      /\ overlaps \in Nat /\ overlaps' \in Nat /\ Busy' \subseteq Busy \cup {q}
  BY <1>2, <1>3, Begins
<1>5. Missing' => Missing
  BY <1>1, <1>2, <1>4 DEF Missing, Outrun, ndata, NoticeComes
<1>6. Busy = {} => ~Missing
  BY DEF Busy, Missing, Outrun, InFlight
<1>7. Misplaced' = Misplaced /\ Missed' = Missed
  BY <1>1 DEF ndata, Misplaced, Missed, Placed, Installed
<1> DEFINE BB == Busy'
           kk == MissDue'
           oo == overlaps'
<1>8. kk \in {0, 1} /\ MissDue \in {0, 1}
  BY DueTyped, DueTypedNext
<1>9. kk <= MissDue /\ (Busy = {} => kk = 0)
  BY <1>5, <1>6 DEF MissDue
<1>10. IsFiniteSet(Busy)
  BY UnsentFinite
<1>11. BB \in SUBSET (Busy \cup {q}) /\ oo \in Nat /\ overlaps \in Nat
  BY <1>4
<1>12. Joins(Busy, overlaps, MissDue, oo, kk)
  BY <1>4, <1>9 DEF Joins
<1> HIDE DEF BB, kk, oo
<1>13. Owes(BB, oo, Missed, kk)
  BY <1>3, <1>8, <1>10, <1>11, <1>12, OwesMore DEF MissInv
<1>14. QED
  BY <1>7, <1>13 DEF MissInv, BB, kk, oo

\* The last statement of a request about a phone.
LEMMA PhoneAnswers ==
  ASSUME NoticesInv, NotificationsAssumption, NEW q \in Requests, DeviceStatement(q),
         req'[q] = Idle
  PROVE  \/ Misplaced' \subseteq Misplaced
         \/ Outrun(req[q]) /\ Misplaced' \subseteq Misplaced \cup {req[q].phone}
<1>0. PICK p, u : p = req[q].phone /\ u = req[q].user
  OBVIOUS
<1> USE <1>0
<1>1. /\ p \in Phones /\ u \in Users /\ Nobody \notin Users
      /\ \A d \in Phones : d # p => /\ holder'[d] = holder[d]
                                    /\ (d \in Installed' <=> d \in Installed)
                                    /\ d \in Installed => devices'[d] = devices[d]
  BY PhoneIs DEF NotificationsAssumption
<1>2. /\ ServerTyped(NoticeStep) /\ req[q] \in NoticeStep /\ Noted(req[q])
      /\ Installed \subseteq Phones /\ devices \in [Installed -> Device]
      /\ holder \in [Phones -> Users \cup {Nobody}]
  BY NoticesSplit DEF ServerTyped, NoticeRows
<1>3. \A d \in Phones : d # p => (Placed(d) => Placed(d)')
  <2>1. ASSUME NEW d \in Phones, d # p PROVE Placed(d) => Placed(d)'
    <3>1. /\ holder'[d] = holder[d] /\ (d \in Installed' <=> d \in Installed)
          /\ d \in Installed => devices'[d] = devices[d]
      BY <1>1, <2>1
    <3>2. QED
      BY <2>1, <3>1 DEF Placed, Registered, Installed
  <2>2. QED
    BY <2>1
<1>4. Misplaced' \subseteq Misplaced \cup {p}
  BY <1>3 DEF Misplaced
<1>5. (Placed(p) => Placed(p)') => Misplaced' \subseteq Misplaced
  BY <1>3 DEF Misplaced
<1>6. CASE InsertDevice(q)
  <2>1. CASE p \in Installed
    BY <1>5, <1>6, <2>1 DEF InsertDevice, Placed, Installed, Registered
  <2>2. CASE p \notin Installed
    <3>1. /\ devices' = [d \in Installed \cup {p} |->
                           IF d = p THEN [user |-> u, active |-> TRUE] ELSE devices[d]]
          /\ holder' = [holder EXCEPT ![p] = u]
      BY <1>6, <2>2 DEF InsertDevice
    <3>2. /\ DOMAIN devices' = Installed \cup {p} /\ devices'[p] = [user |-> u, active |-> TRUE]
          /\ holder'[p] = u
      BY <1>1, <1>2, <3>1
    <3>3. Placed(p)'
      BY <1>1, <3>2 DEF Placed, Installed, Registered
    <3>4. QED
      BY <1>5, <3>3
  <2>3. QED
    BY <2>1, <2>2
<1>7. CASE SelectDevice(q)
  <2>1. req[q].at = "selectDevice" /\ p \in Installed /\ devices' = devices
    BY <1>2, <1>7 DEF SelectDevice, At, Noted
  <2>2. devices[p] \in Device
    BY <1>2, <2>1
  <2> DEFINE diff == {c \in {"user", "active"} : devices[p][c] # Registered(u)[c]}
  <2>3. diff = {}
    <3>1. CASE diff # {}
      <4>1. Go(q, [at |-> "updateDevice", phone |-> p, user |-> u, dirty |-> diff])
        BY <1>7, <3>1 DEF SelectDevice
      <4>2. req'[q].at = "updateDevice"
        BY <1>2, <4>1 DEF Go, ServerTyped
      <4>3. QED
        BY <4>2 DEF Idle
    <3>2. QED
      BY <3>1
  <2>4. holder' = [holder EXCEPT ![p] = u]
    BY <1>7, <2>3 DEF SelectDevice
  <2>5. devices[p].user = u /\ devices[p].active = TRUE
    BY <2>3 DEF Registered
  <2>6. devices[p] = Registered(u)
    BY <2>2, <2>5 DEF Device, Registered
  <2>7. Placed(p)'
    BY <1>1, <1>2, <2>1, <2>4, <2>6 DEF Placed, Registered, Installed
  <2>8. QED
    BY <1>5, <2>7
<1>8. CASE UpdateDevice(q)
  <2>1. /\ devices' = [devices EXCEPT ![p] =
             [c \in {"user", "active"} |-> IF c \in req[q].dirty THEN Registered(u)[c] ELSE @[c]]]
        /\ holder' = [holder EXCEPT ![p] = u]
        /\ req[q].at = "updateDevice" /\ p \in Installed
    BY <1>2, <1>8 DEF UpdateDevice, At, Noted
  <2>2. CASE Outrun(req[q])
    BY <1>4, <2>2
  <2>3. CASE ~Outrun(req[q])
    <3>1. \A c \in {"user", "active"} \ req[q].dirty : devices[p][c] = Registered(u)[c]
      BY <2>1, <2>3 DEF Outrun
    <3>2. devices'[p] = [c \in {"user", "active"} |->
                           IF c \in req[q].dirty THEN Registered(u)[c] ELSE devices[p][c]]
      BY <1>2, <2>1
    <3>3. devices'[p] = [c \in {"user", "active"} |-> Registered(u)[c]]
      BY <3>1, <3>2
    <3>4. devices'[p] = Registered(u)
      BY <3>3 DEF Registered
    <3>5. holder'[p] = u /\ DOMAIN devices' = DOMAIN devices
      BY <1>1, <1>2, <2>1
    <3>6. Placed(p)'
      BY <1>1, <2>1, <3>4, <3>5 DEF Placed, Installed, Registered
    <3>7. QED
      BY <1>5, <3>6
  <2>4. QED
    BY <2>2, <2>3
<1>9. CASE DeactivateDevice(q)
  <2>1. /\ devices' = [d \in Installed |-> IF d = p /\ devices[d].user = u
                                           THEN [devices[d] EXCEPT !.active = FALSE]
                                           ELSE devices[d]]
        /\ holder' = [holder EXCEPT ![p] = IF @ = u THEN Nobody ELSE @]
    BY <1>9 DEF DeactivateDevice, Released
  <2>2. DOMAIN devices' = Installed /\ holder'[p] = IF holder[p] = u THEN Nobody ELSE holder[p]
    BY <1>1, <1>2, <2>1
  <2>3. p \in Installed => /\ devices[p] \in Device
                           /\ devices'[p] = IF devices[p].user = u
                                            THEN [devices[p] EXCEPT !.active = FALSE]
                                            ELSE devices[p]
    BY <1>2, <2>1
  <2>4. p \in Installed => ([devices[p] EXCEPT !.active = FALSE]).active = FALSE
    BY <2>3 DEF Device
  <2>5. ASSUME Placed(p) PROVE Placed(p)'
    <3>1. CASE holder[p] = Nobody
      <4>1. p \in Installed => ~devices[p].active
        BY <2>5, <3>1 DEF Placed
      <4>2. p \in Installed => ~devices'[p].active
        BY <2>3, <2>4, <4>1
      <4>3. holder'[p] = Nobody
        BY <1>1, <2>2, <3>1
      <4>4. QED
        BY <2>2, <4>2, <4>3 DEF Placed, Installed
    <3>2. CASE holder[p] # Nobody
      <4>1. p \in Installed /\ devices[p] = Registered(holder[p]) /\ devices[p].user = holder[p]
        BY <2>5, <3>2 DEF Placed, Registered
      <4>2. CASE holder[p] = u
        <5>1. holder'[p] = Nobody /\ devices'[p] = [devices[p] EXCEPT !.active = FALSE]
          BY <2>2, <2>3, <4>1, <4>2
        <5>2. ~devices'[p].active
          BY <2>4, <4>1, <5>1
        <5>3. QED
          BY <5>1, <5>2 DEF Placed
      <4>3. CASE holder[p] # u
        <5>1. holder'[p] = holder[p] /\ devices'[p] = devices[p]
          BY <2>2, <2>3, <4>1, <4>3
        <5>2. QED
          BY <2>2, <3>2, <4>1, <5>1 DEF Placed, Installed, Registered
      <4>4. QED
        BY <4>2, <4>3
    <3>3. QED
      BY <3>1, <3>2
  <2>6. QED
    BY <1>5, <2>5
<1>10. QED
  BY <1>6, <1>7, <1>8, <1>9 DEF DeviceStatement

\* What the statement of q, in flight, changes of the misses and who is in flight.
LEMMA MissPaid ==
  ASSUME BusyInv, MissInv, NoticesInv, NoticesInv', NEW q \in Requests, InFlight(q),
         overlaps' = overlaps, \A p \in Requests : p # q => req'[p] = req[p],
         NEW BB, NEW nn, NEW kk, BB = Busy', nn = Missed', kk = MissDue',
         Pays(q, BB, Missed, MissDue, nn, kk)
  PROVE  MissInv'
<1>1. /\ overlaps \in Nat /\ Missed \in Nat /\ nn \in Nat
      /\ kk \in {0, 1} /\ MissDue \in {0, 1} /\ IsFiniteSet(Busy)
  BY DueTyped, DueTypedNext, MisplacedFinite, MisplacedFiniteNext, UnsentFinite
     DEF NoticesInv, NotificationsTypeOK
<1>2. q \in Busy /\ BB \in SUBSET Busy
  BY DEF Busy, InFlight
<1>3. Owes(BB, overlaps, nn, kk)
  BY <1>1, <1>2, OwesStill DEF MissInv
<1>4. QED
  BY <1>3 DEF MissInv

LEMMA MissGo ==
  ASSUME NoticesInv, NotificationsAssumption, BusyInv, MissInv,
         NEW q \in Requests, NoticeGoes(q) \/ NoticeCrash(q)
  PROVE  MissInv'
<1>1. /\ NoticesInv' /\ overlaps' = overlaps /\ InFlight(q)
      /\ \A p \in Requests : p # q => req'[p] = req[p]
  BY NoticeWentTyped
<1>2. /\ ServerTyped(NoticeStep) /\ missent \in Nat /\ Missed \in Nat
      /\ Cardinality(Misplaced) \in Nat /\ IsFiniteSet(Misplaced)
      /\ Cardinality(Misplaced)' \in Nat /\ missent' \in Nat
  BY <1>1, NoticesSplit, MisplacedFinite, MisplacedFiniteNext
     DEF NoticeRows, NoticesInv, NotificationsTypeOK
<1>3. PICK BB, nn, kk : BB = Busy' /\ nn = Missed' /\ kk = MissDue'
  OBVIOUS
<1>4. SUFFICES Pays(q, BB, Missed, MissDue, nn, kk)
  BY <1>1, <1>3, MissPaid
<1>5. req'[q] = Idle => q \notin BB
  BY <1>3 DEF Busy, InFlight, Idle
<1>6. Outrun(req[q]) => MissDue = 1
  BY DEF MissDue, Missing
<1>7. CASE DeviceStatement(q)
  <2>1. UNCHANGED missent
    BY <1>7, PhoneIs
  <2>2. CASE req'[q] = Idle
    <3>1. CASE Misplaced' \subseteq Misplaced
      <4>1. Cardinality(Misplaced') <= Cardinality(Misplaced)
        BY <1>2, <3>1, Fewer
      <4>2. nn <= Missed
        BY <1>2, <1>3, <2>1, <4>1 DEF Missed
      <4>3. QED
        BY <1>5, <2>2, <4>2 DEF Pays
    <3>2. CASE Outrun(req[q]) /\ Misplaced' \subseteq Misplaced \cup {req[q].phone}
      <4>1. Cardinality(Misplaced') <= Cardinality(Misplaced) + 1
        BY <1>2, <3>2, OneMore
      <4>2. nn <= Missed + 1
        BY <1>2, <1>3, <2>1, <4>1 DEF Missed
      <4>3. QED
        BY <1>5, <1>6, <2>2, <3>2, <4>2 DEF Pays
    <3>3. QED
      BY <1>7, <2>2, <3>1, <3>2, PhoneAnswers
  <2>3. CASE req'[q] # Idle
    <3>1. ~Answer(q)
      BY <1>2, <2>3 DEF Answer, Go, ServerTyped
    <3> DEFINE dirt == {c \in {"user", "active"} :
                          devices[req[q].phone][c] # Registered(req[q].user)[c]}
    <3>2. /\ UNCHANGED <<devices, holder>>
          /\ Go(q, [at |-> "updateDevice", phone |-> req[q].phone, user |-> req[q].user,
                    dirty |-> dirt])
      BY <1>7, <3>1, PhoneIs
    <3>3. req'[q] = [at |-> "updateDevice", phone |-> req[q].phone, user |-> req[q].user,
                     dirty |-> dirt]
      BY <1>2, <3>2 DEF Go, ServerTyped
    <3>4. PICK n : n = req'[q] /\ n.at = "updateDevice" /\ n.phone = req[q].phone
                   /\ n.user = req[q].user /\ n.dirty = dirt
      BY <3>3
    <3>5. ~Outrun(n)
      BY <3>4 DEF Outrun
    <3>6. Outrun(n)' <=> Outrun(n)
      BY <3>2 DEF Outrun
    <3>7. \A p \in Requests : p # q => (Outrun(req[p])' <=> Outrun(req[p]))
      BY <1>1, <3>2 DEF Outrun
    <3>8. ~Outrun(req[q])'
      BY <3>4, <3>5, <3>6 DEF Outrun
    <3>9. Missing' => Missing
      BY <3>7, <3>8 DEF Missing
    <3>10. kk <= MissDue
      BY <1>3, <3>9 DEF MissDue
    <3>11. Misplaced' = Misplaced
      BY <3>2 DEF Misplaced, Placed, Installed
    <3>12. nn = Missed
      BY <1>3, <2>1, <3>11 DEF Missed
    <3>13. QED
      BY <1>2, <3>10, <3>12 DEF Pays
  <2>4. QED
    BY <2>2, <2>3
<1>8. CASE Push(q)
  <2>1. /\ req'[q] = Idle /\ UNCHANGED <<devices, holder>> /\ req[q].at = "push"
        /\ missent' = IF \E p \in req[q].phones : devices[p].user \notin req[q].to
                      THEN missent + 1 ELSE missent
    BY <1>2, <1>8 DEF Push, Answer, Go, ServerTyped, At
  <2>2. Misplaced' = Misplaced
    BY <2>1 DEF Misplaced, Placed, Installed
  <2>3. Outrun(req[q]) => nn <= Missed + 1
    BY <1>2, <1>3, <2>1, <2>2 DEF Missed
  <2>4. ~Outrun(req[q]) => nn = Missed
    BY <1>3, <2>1, <2>2 DEF Missed, Outrun
  <2>5. QED
    BY <1>2, <1>5, <1>6, <2>1, <2>3, <2>4 DEF Pays
<1>9. CASE InsertNotices(q) \/ FindDevices(q) \/ SaveRead(q) \/ SaveBlock(q) \/ NoticeCrash(q)
  <2>1. UNCHANGED <<devices, holder, missent>>
    BY <1>9 DEF InsertNotices, FindDevices, SaveRead, SaveBlock, NoticeCrash, ndata
  <2>2. Misplaced' = Misplaced
    BY <2>1 DEF Misplaced, Placed, Installed
  <2>3. nn = Missed
    BY <1>3, <2>1, <2>2 DEF Missed
  <2>4. ~Outrun(req[q])'
    <3>1. CASE InsertNotices(q) \/ SaveRead(q) \/ SaveBlock(q) \/ NoticeCrash(q)
      <4>1. req'[q].at \in {"devices", "idle"}
        BY <1>2, <1>9, <3>1, NotifyIs DEF SaveRead, SaveBlock, NoticeCrash, Answer, Go, Die,
           ServerTyped, Idle
      <4>2. QED
        BY <4>1 DEF Outrun
    <3>2. CASE FindDevices(q)
      <4>1. req'[q] = [at |-> "push", to |-> req[q].to,
                       phones |-> {p \in Installed : devices[p].user \in req[q].to
                                                     /\ devices[p].active}]
        BY <1>2, <3>2 DEF FindDevices, Go, ServerTyped
      <4>2. /\ req'[q].at = "push" /\ req'[q].to = req[q].to
            /\ \A p \in req'[q].phones : devices[p].user \in req[q].to
        BY <4>1
      <4>3. QED
        BY <2>1, <4>2 DEF Outrun
    <3>3. QED
      BY <1>9, <3>1, <3>2
  <2>5. \A p \in Requests : p # q => (Outrun(req[p])' <=> Outrun(req[p]))
    BY <1>1, <2>1 DEF Outrun
  <2>6. Missing' => Missing
    BY <2>4, <2>5 DEF Missing
  <2>7. kk <= MissDue
    BY <1>3, <2>6 DEF MissDue
  <2>8. QED
    BY <1>2, <2>3, <2>7 DEF Pays
<1>10. QED
  BY <1>7, <1>8, <1>9 DEF NoticeGoes

LEMMA NoticesStep ==
  ASSUME NoticesInv, BusyInv, StrayInv, MissInv, NotificationsAssumption,
         [NotificationsNext]_nvars
  PROVE  StrayInv' /\ MissInv'
<1>1. CASE MarkAllRead \/ UNCHANGED nvars
  <2>1. UNCHANGED <<server, devices, holder, blocked, strays, missent>>
    BY <1>1 DEF MarkAllRead, nvars, ndata
  <2>2. /\ Unsent' = Unsent /\ Busy' = Busy /\ StrayDue' = StrayDue /\ overlaps' = overlaps
    BY <2>1 DEF server, Unsent, Busy, InFlight, StrayDue, Straying
  <2>3. Missed' = Missed /\ MissDue' = MissDue
    BY <2>1 DEF server, Missed, Misplaced, Placed, Installed, MissDue, Missing, Outrun
  <2>4. QED
    BY <2>1, <2>2, <2>3 DEF StrayInv, MissInv
<1>2. ASSUME NEW q \in Requests, NoticeArrives(q) \/ NoticeGoes(q) \/ NoticeCrash(q)
      PROVE  StrayInv' /\ MissInv'
  BY <1>2, StrayBegin, StrayGo, MissBegin, MissGo
<1>3. QED
  BY <1>1, <1>2, NoticeStepIs

LEMMA NoticesStart ==
  ASSUME NotificationsInit, NotificationsAssumption
  PROVE  NoticesInv /\ BusyInv /\ StrayInv /\ MissInv
<1>1. NoticesInv
  BY NoticeTypeInit
<1>2. /\ overlaps = 0 /\ strays = 0 /\ missent = 0
      /\ holder = [p \in Phones |-> Nobody] /\ Installed = {}
      /\ \A q \in Requests : ~InFlight(q)
  BY DEF NotificationsInit, ServerInit, Installed, InFlight, Idle
<1>3. Busy = {} /\ Unsent = {}
  BY <1>2 DEF Busy, Unsent
<1>4. Misplaced = {}
  BY <1>2 DEF Misplaced, Placed
<1>5. Cardinality({}) = 0 /\ IsFiniteSet({})
  BY FS_EmptySet
<1>6. BusyInv
  BY <1>2, <1>3, <1>5 DEF BusyInv
<1>7. Missed = 0
  BY <1>2, <1>4, <1>5 DEF Missed
<1>8. QED
  BY <1>1, <1>2, <1>3, <1>6, <1>7 DEF StrayInv, MissInv, Owes

\* Notifications follow the users: each overlap lets at most one broadcast
\* reach a blocked user, and one push or registration miss its phone, for any
\* number of users, phones and requests at once.
THEOREM NoticesAlwaysFollowUsers == NotificationsSpec => []NoticesFollowUsers
<1> DEFINE Inv == NoticesInv /\ BusyInv /\ StrayInv /\ MissInv
<1>1. NotificationsInit => Inv
  BY NotificationsAssumption, NoticesStart
<1>2. Inv /\ [NotificationsNext]_nvars => Inv'
  BY NotificationsAssumption, NoticeTypeStep, NoticeBusyKept, NoticesStep
<1>3. Inv => NoticesFollowUsers
  <2> SUFFICES ASSUME Inv PROVE NoticesFollowUsers
    OBVIOUS
  <2>1. /\ overlaps \in Nat /\ strays \in Nat /\ Missed \in Nat
        /\ IsFiniteSet(Busy) /\ IsFiniteSet(Unsent)
        /\ StrayDue \in {0, 1} /\ MissDue \in {0, 1}
    BY DueTyped, MisplacedFinite, UnsentFinite DEF NoticesInv, NotificationsTypeOK
  <2>2. strays <= overlaps
    BY <2>1, OwesEnough DEF StrayInv
  <2>3. Missed <= overlaps
    BY <2>1, OwesEnough DEF MissInv
  <2>4. QED
    BY <2>2, <2>3 DEF NoticesFollowUsers, Missed, Misplaced
<1> HIDE DEF Inv
<1>4. QED
  BY <1>1, <1>2, <1>3, PTL DEF NotificationsSpec

-----------------------------------------------------------------------------
(* The catalogue: types.                                                   *)

CatalogueRows ==
  /\ section \in Sections /\ issued \in [Tables -> Nat]
  /\ table = [t \in Tables |-> table[t]]
  /\ \A t \in Tables : table[t] \in [There(t) -> Shape[t]] /\ There(t) \subseteq 1..issued[t]
  /\ booked \subseteq There("services")

\* The steps at which a request has a row in its memory.
Holding == {"clash", "uses", "select", "insertAgain", "update", "delete", "deletePrices"}

\* The row is one of its table; prices are never deleted by a request of theirs.
Rowed(r) ==
  /\ r.at = "insert" => r.row \in Shape[r.t]
  /\ r.at \in Holding => r.mem \in Shape[r.t] /\ r.id \in 1..issued[r.t]
  /\ r.at = "clash" => r.t = "prices"
  /\ r.at = "uses" => r.t \in {"categories", "services"}
  /\ r.at = "deletePrices" => r.t = "services"
  /\ r.at = "delete" => r.t # "prices"

CatalogueInv ==
  CatalogueRows /\ ServerTyped(CatalogueStep) /\ \A q \in Requests : Rowed(req[q])

LEMMA TablesAre ==
  Tables = {"categories", "services", "prices", "homeCategories", "options", "popular",
            "societies"}
BY DEF Tables, Sections, Grouping, Offers, Home, Others

LEMMA CatalogueTypes ==
  ASSUME CatalogueInv
  PROVE  CatalogueTypeOK
BY DEF CatalogueInv, CatalogueRows, ServerTyped, CatalogueTypeOK, There

\* A request that has just arrived.
CatalogueComes(r) ==
  /\ r \in CatalogueStep /\ Rowed(r)
  /\ r.at \in {"insert", "clash", "uses", "select", "delete", "book"}
  /\ r.at = "insert" /\ r.t = "prices" => ~Clash(NoId, r.row)
  /\ r.at = "select" /\ r.t = "prices" => ~r.mem.active
  /\ r.at \in Holding => r.id \in There(r.t)

CatalogueArrives(q) ==
  \/ CategoryRoutes(q) \/ ServiceRoutes(q) \/ PriceRoutes(q)
  \/ HomeRoutes(q) \/ SocietyRoutes(q) \/ Book(q)

LEMMA Created ==
  ASSUME CatalogueInv, NEW q \in Requests, NEW t \in Tables, NEW row \in Shape[t],
         t = "prices" => ~Clash(NoId, row), Creating(q, t, row)
  PROVE  UNCHANGED cdata /\ \E r : CatalogueComes(r) /\ Start(q, r)
<1>1. PICK r : r = [at |-> "insert", t |-> t, row |-> row]
  OBVIOUS
<1>2. row \in AnyRow
  BY DEF AnyRow
<1>3. r \in CatalogueStep
  BY <1>1, <1>2 DEF CatalogueStep
<1>4. r.at = "insert" /\ r.t = t /\ r.row = row
  BY <1>1
<1>5. CatalogueComes(r)
  BY <1>3, <1>4 DEF CatalogueComes, Rowed, Holding
<1>6. QED
  BY <1>1, <1>5 DEF Creating

LEMMA Loaded ==
  ASSUME CatalogueInv, NEW q \in Requests, NEW t \in Tables, NEW i, NEW row \in Shape[t],
         NEW at \in {"clash", "uses", "select", "delete"}, Loading(q, t, i, row, at),
         at = "clash" => t = "prices", at = "uses" => t \in {"categories", "services"},
         at = "delete" => t # "prices", at = "select" /\ t = "prices" => ~row.active
  PROVE  UNCHANGED cdata /\ \E r : CatalogueComes(r) /\ Start(q, r)
<1>1. PICK r : r = [at |-> at, t |-> t, id |-> i, mem |-> row]
  OBVIOUS
<1>2. i \in There(t) /\ Start(q, r) /\ UNCHANGED cdata
  BY <1>1 DEF Loading, Saving
<1>3. i \in 1..issued[t] /\ issued[t] \in Nat
  BY <1>2 DEF CatalogueInv, CatalogueRows
<1>4. row \in AnyRow
  BY DEF AnyRow
<1>5. r \in CatalogueStep
  BY <1>1, <1>3, <1>4 DEF CatalogueStep
<1>6. r.at = at /\ r.t = t /\ r.id = i /\ r.mem = row
  BY <1>1
<1>7. CatalogueComes(r)
  BY <1>2, <1>3, <1>5, <1>6 DEF CatalogueComes, Rowed, Holding
<1>8. QED
  BY <1>2, <1>7

LEMMA Removed ==
  ASSUME CatalogueInv, NEW q \in Requests, NEW t \in Tables,
         NEW at \in {"uses", "delete"}, Removing(q, t, at),
         at = "uses" => t \in {"categories", "services"}, at = "delete" => t # "prices"
  PROVE  UNCHANGED cdata /\ \E r : CatalogueComes(r) /\ Start(q, r)
<1>1. PICK i \in There(t) : Loading(q, t, i, table[t][i], at)
  BY DEF Removing
<1>2. table[t][i] \in Shape[t]
  BY <1>1 DEF CatalogueInv, CatalogueRows
<1>3. QED
  BY <1>1, <1>2, Loaded

LEMMA ShapesAre ==
  /\ Shape["categories"] = Category /\ Shape["services"] = Service
  /\ Shape["prices"] = Price /\ Shape["homeCategories"] = HomeCategory
  /\ Shape["options"] = HomeOption /\ Shape["popular"] = HomeCard
  /\ Shape["societies"] = Society
BY DEF Shape

LEMMA CatalogueArrived ==
  ASSUME CatalogueInv, NEW q \in Requests, CatalogueArrives(q)
  PROVE  UNCHANGED cdata /\ \E r : CatalogueComes(r) /\ Start(q, r)
<1>1. CASE CategoryRoutes(q)
  BY <1>1, Created, Loaded, Removed, TablesAre, ShapesAre
     DEF CategoryRoutes, CreateCategory, UpdateCategory, RemoveCategory
<1>2. CASE ServiceRoutes(q)
  BY <1>2, Created, Loaded, Removed, TablesAre, ShapesAre
     DEF ServiceRoutes, CreateService, UpdateService, RemoveService
<1>3. CASE CreatePrice(q)
  BY <1>3, Created, TablesAre, ShapesAre DEF CreatePrice
<1>4. CASE UpdatePrice(q)
  <2>1. PICK i \in There("prices"), row \in Price :
          Loading(q, "prices", i, row, IF row.active THEN "clash" ELSE "select")
    BY <1>4 DEF UpdatePrice
  <2>2. CASE row.active
    <3>1. Loading(q, "prices", i, row, "clash")
      BY <2>1, <2>2
    <3>2. QED
      BY <2>1, <3>1, Loaded, TablesAre, ShapesAre
  <2>3. CASE ~row.active
    <3>1. Loading(q, "prices", i, row, "select")
      BY <2>1, <2>3
    <3>2. QED
      BY <2>1, <2>3, <3>1, Loaded, TablesAre, ShapesAre
  <2>4. QED
    BY <2>2, <2>3
<1>5. CASE DeactivatePrice(q)
  <2>1. PICK i \in There("prices") :
          Loading(q, "prices", i, [table["prices"][i] EXCEPT !.active = FALSE], "select")
    BY <1>5 DEF DeactivatePrice
  <2>2. table["prices"][i] \in Price
    BY <2>1, TablesAre, ShapesAre DEF CatalogueInv, CatalogueRows
  <2>3. PICK row : row = [table["prices"][i] EXCEPT !.active = FALSE]
    OBVIOUS
  <2>4. row \in Price /\ ~row.active
    BY <2>2, <2>3 DEF Price
  <2>5. QED
    BY <2>1, <2>3, <2>4, Loaded, TablesAre, ShapesAre
<1>6. CASE HomeRoutes(q)
  <2>1. CASE CreateHomeCategory(q) \/ UpdateHomeCategory(q) \/ RemoveHomeCategory(q)
    BY <2>1, Created, Loaded, Removed, TablesAre, ShapesAre
       DEF CreateHomeCategory, UpdateHomeCategory, RemoveHomeCategory
  <2>2. CASE CreateOption(q) \/ RemoveOption(q)
    BY <2>2, Created, Removed, TablesAre, ShapesAre DEF CreateOption, RemoveOption
  <2>3. CASE UpdateOption(q)
    <3>1. PICK i \in There("options") :
            Loading(q, "options", i, table["options"][i], "select")
      BY <2>3 DEF UpdateOption
    <3>2. table["options"][i] \in HomeOption
      BY <3>1, TablesAre, ShapesAre DEF CatalogueInv, CatalogueRows
    <3>3. QED
      BY <3>1, <3>2, Loaded, TablesAre, ShapesAre
  <2>4. CASE CreateCard(q) \/ UpdateCard(q) \/ RemoveCard(q)
    BY <2>4, Created, Loaded, Removed, TablesAre, ShapesAre
       DEF CreateCard, UpdateCard, RemoveCard
  <2>5. QED
    BY <1>6, <2>1, <2>2, <2>3, <2>4 DEF HomeRoutes
<1>7. CASE SocietyRoutes(q)
  BY <1>7, Created, Loaded, Removed, TablesAre, ShapesAre
     DEF SocietyRoutes, CreateSociety, UpdateSociety, RemoveSociety
<1>8. CASE Book(q)
  <2>1. PICK p \in There("prices") :
          Start(q, [at |-> "book", service |-> table["prices"][p].service])
    BY <1>8 DEF Book
  <2>2. table["prices"][p] \in Price
    BY <2>1, TablesAre, ShapesAre DEF CatalogueInv, CatalogueRows
  <2>3. table["prices"][p].service \in Nat
    BY <2>2, CatalogueAssumption, TablesAre DEF Price, Ids, CatalogueAssumption
  <2>4. PICK r : r = [at |-> "book", service |-> table["prices"][p].service]
    OBVIOUS
  <2>5. r \in CatalogueStep /\ r.at = "book"
    BY <2>3, <2>4 DEF CatalogueStep
  <2>6. CatalogueComes(r)
    BY <2>5 DEF CatalogueComes, Rowed, Holding
  <2>7. QED
    BY <1>8, <2>1, <2>4, <2>6 DEF Book
<1>9. QED
  BY <1>1, <1>2, <1>3, <1>4, <1>5, <1>6, <1>7, <1>8 DEF CatalogueArrives, PriceRoutes

\* The fields of a request's memory.
LEMMA CatalogueMemory ==
  ASSUME NEW r \in CatalogueStep
  PROVE  /\ r.at = "insert" => r.t \in Tables
         /\ r.at \in Holding => r.t \in Tables /\ r.id \in Nat /\ r.mem \in AnyRow
         /\ r.at \in Holding \ {"update"} =>
              r = [at |-> r.at, t |-> r.t, id |-> r.id, mem |-> r.mem]
         /\ r.at = "update" => r.dirty \in SUBSET AnyColumn
         /\ r.at = "book" => r.service \in Nat
BY DEF CatalogueStep, Holding, Idle

LEMMA IdleRowed == Idle \in CatalogueStep /\ Rowed(Idle)
BY DEF CatalogueStep, Rowed, Idle, Holding

\* A request that has a row of a table in its memory.
LEMMA HoldsRow ==
  ASSUME CatalogueInv, NEW q \in Requests, req[q].at \in Holding
  PROVE  /\ req[q] \in CatalogueStep /\ req[q].t \in Tables /\ req[q].id \in Nat
         /\ req[q].mem \in Shape[req[q].t] /\ req[q].mem \in AnyRow
         /\ req[q].id \in 1..issued[req[q].t] /\ issued[req[q].t] \in Nat
BY CatalogueMemory DEF CatalogueInv, ServerTyped, Rowed, CatalogueRows

LEMMA CatalogueStays ==
  ASSUME CatalogueInv, NEW q \in Requests, ServerTyped(CatalogueStep)', CatalogueRows',
         \A p \in Requests : p # q => req'[p] = req[p], Rowed(req[q])',
         \A t \in Tables : issued[t] <= issued'[t]
  PROVE  CatalogueInv'
<1>1. ASSUME NEW p \in Requests, p # q PROVE Rowed(req[p])'
  <2>1. req'[p] = req[p] /\ Rowed(req[p]) /\ req[p] \in CatalogueStep
    BY <1>1 DEF CatalogueInv, ServerTyped
  <2>2. req[p].at \in Holding => req[p].id \in 1..issued'[req[p].t]
    <3>1. CASE req[p].at \in Holding
      <4>1. req[p].t \in Tables /\ req[p].id \in 1..issued[req[p].t]
        BY <2>1, <3>1, HoldsRow
      <4>2. issued[req[p].t] \in Nat /\ issued'[req[p].t] \in Nat
            /\ issued[req[p].t] <= issued'[req[p].t]
        BY <4>1 DEF CatalogueInv, CatalogueRows
      <4>3. QED
        BY <4>1, <4>2
    <3>2. QED
      BY <3>1
  <2>3. QED
    BY <2>1, <2>2 DEF Rowed
<1>2. QED
  BY <1>1 DEF CatalogueInv

\* Row i of table t is row now.
LEMMA Stored ==
  ASSUME CatalogueInv, NEW t \in Tables, NEW i, NEW row \in Shape[t],
         table' = [table EXCEPT ![t] = With(@, i, row)],
         issued' \in [Tables -> Nat], \A u \in Tables : issued[u] <= issued'[u],
         i \in 1..issued'[t], UNCHANGED <<section, booked>>
  PROVE  /\ CatalogueRows'
         /\ There(t)' = There(t) \cup {i} /\ table'[t][i] = row
         /\ \A j \in There(t) \ {i} : table'[t][j] = table[t][j]
         /\ \A u \in Tables \ {t} : table'[u] = table[u]
<1>1. /\ table = [u \in Tables |-> table[u]] /\ issued \in [Tables -> Nat]
      /\ \A u \in Tables : table[u] \in [There(u) -> Shape[u]] /\ There(u) \subseteq 1..issued[u]
  BY DEF CatalogueInv, CatalogueRows
<1>2. /\ table'[t] = With(table[t], i, row) /\ \A u \in Tables \ {t} : table'[u] = table[u]
      /\ table' = [u \in Tables |-> table'[u]]
  BY <1>1
<1>3. /\ There(t)' = There(t) \cup {i} /\ table'[t][i] = row
      /\ \A j \in There(t) \ {i} : table'[t][j] = table[t][j]
      /\ table'[t] = [j \in There(t) \cup {i} |-> table'[t][j]]
  <2>1. PICK f : f = table[t]
    OBVIOUS
  <2>2. PICK g : g = table'[t]
    OBVIOUS
  <2>3. g = [j \in DOMAIN f \cup {i} |-> IF j = i THEN row ELSE f[j]]
    BY <1>2, <2>1, <2>2 DEF With
  <2>4. /\ DOMAIN g = DOMAIN f \cup {i} /\ g[i] = row
        /\ \A j \in DOMAIN f \ {i} : g[j] = f[j]
        /\ g = [j \in DOMAIN f \cup {i} |-> g[j]]
    BY <2>3
  <2>5. QED
    BY <2>1, <2>2, <2>4 DEF There
<1>4. table'[t] \in [There(t)' -> Shape[t]]
  BY <1>1, <1>3
<1>5. \A u \in Tables : There(u)' \subseteq 1..issued'[u]
  <2>1. ASSUME NEW u \in Tables PROVE There(u)' \subseteq 1..issued'[u]
    <3>1. There(u) \subseteq 1..issued'[u]
      BY <1>1
    <3>2. u # t => There(u)' = There(u)
      BY <1>2 DEF There
    <3>3. QED
      BY <1>3, <3>1, <3>2
  <2>2. QED
    BY <2>1
<1>6. \A u \in Tables \ {t} : table'[u] \in [There(u)' -> Shape[u]]
  BY <1>1, <1>2 DEF There
<1>7. booked' \subseteq There("services")'
  BY <1>2, <1>3, TablesAre DEF CatalogueInv, CatalogueRows, There
<1>8. QED
  BY <1>2, <1>3, <1>4, <1>5, <1>6, <1>7 DEF CatalogueInv, CatalogueRows

\* What an UPDATE writes: some columns from memory, the others as they are.
Overlaid(r, row) == [c \in DOMAIN r.mem |-> IF c \in r.dirty THEN r.mem[c] ELSE row[c]]

LEMMA OverlaidTyped ==
  ASSUME NEW t \in Tables, NEW r, r.mem \in Shape[t], NEW row \in Shape[t]
  PROVE  Overlaid(r, row) \in Shape[t]
<1>1. CASE t \in {"categories", "homeCategories", "societies"}
  <2>1. r.mem \in [active : BOOLEAN] /\ row \in [active : BOOLEAN]
    BY <1>1, ShapesAre DEF Category, HomeCategory, Society
  <2>2. PICK n : n = Overlaid(r, row)
    OBVIOUS
  <2>3. DOMAIN r.mem = {"active"}
    BY <2>1
  <2>4. n = [c \in {"active"} |-> IF c \in r.dirty THEN r.mem[c] ELSE row[c]]
    BY <2>2, <2>3 DEF Overlaid
  <2>5. n.active \in BOOLEAN /\ n = [active |-> n.active]
    BY <2>1, <2>4
  <2>6. QED
    BY <1>1, <2>2, <2>5, ShapesAre DEF Category, HomeCategory, Society
<1>2. CASE t = "services"
  BY <1>2, ShapesAre DEF Overlaid, Service
<1>3. CASE t = "prices"
  BY <1>3, ShapesAre DEF Overlaid, Price
<1>4. CASE t = "options"
  BY <1>4, ShapesAre DEF Overlaid, HomeOption
<1>5. CASE t = "popular"
  BY <1>5, ShapesAre DEF Overlaid, HomeCard
<1>6. QED
  BY <1>1, <1>2, <1>3, <1>4, <1>5, TablesAre

LEMMA CatalogueGoesHome ==
  ASSUME NEW q \in Requests, CatalogueStatement(q) \/ CatalogueCrash(q), CatalogueInv
  PROVE  /\ InFlight(q) /\ overlaps' = overlaps
         /\ \A p \in Requests : p # q => req'[p] = req[p]
         /\ UNCHANGED section
<1>1. req \in [Requests -> CatalogueStep]
  BY DEF CatalogueInv, ServerTyped
<1>2. CASE Insert(q)
  BY <1>1, <1>2 DEF Insert, At, Answer, Go, InFlight
<1>3. CASE Select(q)
  BY <1>1, <1>3, Zenon DEF Select, At, Answer, Go, InFlight, cdata
<1>4. CASE Update(q)
  BY <1>1, <1>4 DEF Update, At, Answer, Go, InFlight
<1>5. CASE InsertAgain(q)
  BY <1>1, <1>5 DEF InsertAgain, At, Answer, Go, InFlight
<1>6. CASE Delete(q)
  BY <1>1, <1>6 DEF Delete, At, Answer, Go, InFlight
<1>7. CASE CheckClash(q)
  BY <1>1, <1>7 DEF CheckClash, At, Answer, Go, InFlight, cdata
<1>8. CASE CountUses(q)
  BY <1>1, <1>8 DEF CountUses, At, Answer, Go, InFlight, cdata
<1>9. CASE DeletePrices(q)
  BY <1>1, <1>9 DEF DeletePrices, At, Go, InFlight
<1>10. CASE InsertItem(q)
  BY <1>1, <1>10 DEF InsertItem, At, Answer, Go, InFlight
<1>11. CASE CatalogueCrash(q)
  BY <1>1, <1>11 DEF CatalogueCrash, Die, cdata
<1>12. QED
  BY <1>2, <1>3, <1>4, <1>5, <1>6, <1>7, <1>8, <1>9, <1>10, <1>11 DEF CatalogueStatement

\* A step that changes no table, issued id or booking.
LEMMA OnlyRequest ==
  ASSUME CatalogueInv, NEW q \in Requests, NEW r \in CatalogueStep, Rowed(r), Go(q, r),
         UNCHANGED <<section, table, issued>>, booked' \subseteq There("services")
  PROVE  CatalogueInv'
<1>1. ServerTyped(CatalogueStep)' /\ req'[q] = r /\ \A p \in Requests : p # q => req'[p] = req[p]
  BY GoTyped DEF CatalogueInv, ServerTyped, Go
<1>2. CatalogueRows'
  BY DEF CatalogueInv, CatalogueRows, There
<1>3. Rowed(req[q])'
  BY <1>1 DEF Rowed
<1>4. \A t \in Tables : issued[t] <= issued'[t]
  BY DEF CatalogueInv, CatalogueRows
<1>5. QED
  BY <1>1, <1>2, <1>3, <1>4, CatalogueStays

LEMMA InsertTyped ==
  ASSUME CatalogueInv, NEW q \in Requests, Insert(q)
  PROVE  CatalogueInv'
<1>1. PICK t, row, i : t = req[q].t /\ row = req[q].row /\ i = issued[t] + 1
  OBVIOUS
<1>2. /\ req[q] \in CatalogueStep /\ Rowed(req[q]) /\ req[q].at = "insert" /\ Go(q, Idle)
      /\ UNCHANGED <<section, booked>>
  BY DEF CatalogueInv, ServerTyped, Insert, At, Answer
<1>3. t \in Tables /\ row \in Shape[t] /\ issued[t] \in Nat
  BY <1>1, <1>2, CatalogueMemory DEF Rowed, CatalogueInv, CatalogueRows
<1>4. CASE Refers(t, row)
  <2>1. /\ issued' = [issued EXCEPT ![t] = i]
        /\ table' = [table EXCEPT ![t] = With(@, i, row)]
    BY <1>1, <1>4 DEF Insert
  <2>2. /\ issued \in [Tables -> Nat] /\ issued' \in [Tables -> Nat]
        /\ \A u \in Tables : issued[u] <= issued'[u]
        /\ issued'[t] = i /\ i \in 1..i
    BY <1>1, <1>3, <2>1 DEF CatalogueInv, CatalogueRows
  <2>3. CatalogueRows'
    BY <1>2, <1>3, <2>1, <2>2, Stored
  <2>4. /\ ServerTyped(CatalogueStep)' /\ req'[q] = Idle
        /\ \A p \in Requests : p # q => req'[p] = req[p]
    BY <1>2, IdleRowed, GoTyped DEF CatalogueInv, ServerTyped, Go
  <2>5. Rowed(req[q])'
    BY <2>4 DEF Rowed, Idle, Holding
  <2>6. QED
    BY <2>2, <2>3, <2>4, <2>5, CatalogueStays
<1>5. CASE ~Refers(t, row)
  <2>1. UNCHANGED <<issued, table>>
    BY <1>1, <1>5 DEF Insert
  <2>2. booked' \subseteq There("services")
    BY <1>2 DEF CatalogueInv, CatalogueRows
  <2>3. QED
    BY <1>2, <2>1, <2>2, IdleRowed, OnlyRequest
<1>6. QED
  BY <1>4, <1>5

\* What save sends a row to.
Dirty(t, i, mem) == {c \in DOMAIN mem : table[t][i][c] # mem[c]}

LEMMA SelectIs ==
  ASSUME CatalogueInv, NEW q \in Requests, Select(q),
         NEW t, NEW i, NEW mem, t = req[q].t, i = req[q].id, mem = req[q].mem
  PROVE  \/ /\ i \notin There(t)
            /\ Go(q, [at |-> "insertAgain", t |-> t, id |-> i, mem |-> mem])
         \/ i \in There(t) /\ Go(q, Idle) /\ Dirty(t, i, mem) = {}
         \/ /\ i \in There(t)
            /\ Go(q, [at |-> "update", t |-> t, id |-> i, mem |-> mem,
                      dirty |-> Dirty(t, i, mem)])
<1>1. req[q].at = "select" /\ req[q] \in CatalogueStep
  BY DEF Select, At, CatalogueInv, ServerTyped
<1>2. req[q] = [at |-> req[q].at, t |-> t, id |-> i, mem |-> mem]
  BY <1>1, CatalogueMemory DEF Holding
<1>3. [req[q] EXCEPT !.at = "insertAgain"] = [at |-> "insertAgain", t |-> t, id |-> i, mem |-> mem]
  BY <1>2
<1>4. CASE i \notin There(t)
  BY <1>3, <1>4 DEF Select
<1>5. CASE i \in There(t)
  <2>1. PICK d : d = Dirty(t, i, mem)
    OBVIOUS
  <2>2. d = {c \in DOMAIN req[q].mem : table[req[q].t][req[q].id][c] # req[q].mem[c]}
    BY <2>1 DEF Dirty
  <2>3. IF d = {} THEN Answer(q)
        ELSE Go(q, [at |-> "update", t |-> t, id |-> i, mem |-> mem, dirty |-> d])
    BY <1>5, <2>2 DEF Select
  <2>4. QED
    BY <1>5, <2>1, <2>3 DEF Answer
<1>6. QED
  BY <1>4, <1>5

LEMMA SelectTyped ==
  ASSUME CatalogueInv, NEW q \in Requests, Select(q)
  PROVE  CatalogueInv'
<1>1. UNCHANGED cdata /\ req[q].at = "select" /\ Rowed(req[q])
  BY DEF Select, At, CatalogueInv
<1>2. PICK t, i, mem : t = req[q].t /\ i = req[q].id /\ mem = req[q].mem
  OBVIOUS
<1>3. t \in Tables /\ i \in Nat /\ mem \in Shape[t] /\ mem \in AnyRow /\ i \in 1..issued[t]
  BY <1>1, <1>2, HoldsRow DEF Holding
<1>4. booked' \subseteq There("services") /\ UNCHANGED <<section, table, issued>>
  BY <1>1 DEF cdata, CatalogueInv, CatalogueRows
<1>5. CASE Go(q, [at |-> "insertAgain", t |-> t, id |-> i, mem |-> mem])
  <2>1. PICK r : r = [at |-> "insertAgain", t |-> t, id |-> i, mem |-> mem]
    OBVIOUS
  <2>2. r \in CatalogueStep
    BY <1>3, <2>1 DEF CatalogueStep
  <2>3. Rowed(r)
    BY <1>3, <2>1 DEF Rowed
  <2>4. QED
    BY <1>4, <1>5, <2>1, <2>2, <2>3, OnlyRequest
<1>6. CASE Go(q, Idle)
  BY <1>4, <1>6, IdleRowed, OnlyRequest
<1>7. CASE Go(q, [at |-> "update", t |-> t, id |-> i, mem |-> mem,
                  dirty |-> Dirty(t, i, mem)])
  <2>1. PICK d : d = Dirty(t, i, mem)
    OBVIOUS
  <2>2. d \in SUBSET AnyColumn
    BY <1>3, <2>1 DEF AnyColumn, Dirty
  <2>3. PICK r : r = [at |-> "update", t |-> t, id |-> i, mem |-> mem, dirty |-> d]
    OBVIOUS
  <2>4. r \in CatalogueStep
    BY <1>3, <2>2, <2>3 DEF CatalogueStep
  <2>5. Rowed(r)
    BY <1>3, <2>3 DEF Rowed
  <2>6. QED
    BY <1>4, <1>7, <2>1, <2>3, <2>4, <2>5, OnlyRequest
<1>8. QED
  BY <1>2, <1>5, <1>6, <1>7, SelectIs

\* Row i of t is saved, or nothing is.
LEMMA SaveTyped ==
  ASSUME CatalogueInv, NEW q \in Requests, NEW t \in Tables, NEW i, NEW row \in Shape[t],
         i \in 1..issued[t], Go(q, Idle), UNCHANGED <<section, issued, booked>>,
         table' = [table EXCEPT ![t] = With(@, i, row)] \/ table' = table
  PROVE  CatalogueInv'
<1>1. CASE table' = table
  <2>1. booked' \subseteq There("services")
    BY DEF CatalogueInv, CatalogueRows
  <2>2. QED
    BY <1>1, <2>1, IdleRowed, OnlyRequest
<1>2. CASE table' = [table EXCEPT ![t] = With(@, i, row)]
  <2>1. /\ issued' \in [Tables -> Nat] /\ \A u \in Tables : issued[u] <= issued'[u]
        /\ i \in 1..issued'[t]
    BY DEF CatalogueInv, CatalogueRows
  <2>2. CatalogueRows'
    BY <1>2, <2>1, Stored
  <2>3. /\ ServerTyped(CatalogueStep)' /\ req'[q] = Idle
        /\ \A p \in Requests : p # q => req'[p] = req[p]
    BY IdleRowed, GoTyped DEF CatalogueInv, ServerTyped, Go
  <2>4. Rowed(req[q])'
    BY <2>3 DEF Rowed, Idle, Holding
  <2>5. QED
    BY <2>1, <2>2, <2>3, <2>4, CatalogueStays
<1>3. QED
  BY <1>1, <1>2

LEMMA UpdateIs ==
  ASSUME CatalogueInv, NEW q \in Requests, Update(q),
         NEW t, NEW i, NEW row, t = req[q].t, i = req[q].id,
         row = Overlaid(req[q], table[t][i])
  PROVE  /\ Go(q, Idle) /\ UNCHANGED <<section, issued, booked>> /\ req[q].at = "update"
         /\ table' = IF i \in There(t) /\ Refers(t, row)
                     THEN [table EXCEPT ![t] = With(@, i, row)] ELSE table
<1>1. row = [c \in DOMAIN req[q].mem |->
               IF c \in req[q].dirty THEN req[q].mem[c] ELSE table[req[q].t][req[q].id][c]]
  BY DEF Overlaid
<1>2. QED
  BY <1>1 DEF Update, Answer, At

LEMMA UpdateTyped ==
  ASSUME CatalogueInv, NEW q \in Requests, Update(q)
  PROVE  CatalogueInv'
<1>1. PICK t, i : t = req[q].t /\ i = req[q].id
  OBVIOUS
<1>2. PICK row : row = Overlaid(req[q], table[t][i])
  OBVIOUS
<1>3. /\ Go(q, Idle) /\ UNCHANGED <<section, issued, booked>> /\ req[q].at = "update"
      /\ table' = IF i \in There(t) /\ Refers(t, row)
                  THEN [table EXCEPT ![t] = With(@, i, row)] ELSE table
  BY <1>1, <1>2, UpdateIs
<1>4. t \in Tables /\ req[q].mem \in Shape[t] /\ i \in 1..issued[t]
  BY <1>1, <1>3, HoldsRow DEF Holding
<1>5. CASE i \in There(t)
  <2>1. table[t][i] \in Shape[t]
    BY <1>4, <1>5 DEF CatalogueInv, CatalogueRows
  <2>2. row \in Shape[t]
    BY <1>2, <1>4, <2>1, OverlaidTyped
  <2>3. QED
    BY <1>3, <1>4, <2>2, SaveTyped
<1>6. CASE i \notin There(t)
  BY <1>3, <1>4, <1>6, SaveTyped
<1>7. QED
  BY <1>5, <1>6

LEMMA InsertAgainTyped ==
  ASSUME CatalogueInv, NEW q \in Requests, InsertAgain(q)
  PROVE  CatalogueInv'
<1>1. PICK t, i, row : t = req[q].t /\ i = req[q].id /\ row = req[q].mem
  OBVIOUS
<1>2. /\ Go(q, Idle) /\ UNCHANGED <<section, issued, booked>> /\ req[q].at = "insertAgain"
      /\ table' = [table EXCEPT ![t] = With(@, i, row)] \/ table' = table
  BY <1>1 DEF InsertAgain, Answer, At
<1>3. t \in Tables /\ row \in Shape[t] /\ i \in 1..issued[t]
  BY <1>1, <1>2, HoldsRow DEF Holding
<1>4. QED
  BY <1>2, <1>3, SaveTyped

\* Deletions shorten tables, and unlink cards.
Shortened ==
  /\ table' = [u \in Tables |-> table'[u]]
  /\ \A u \in Tables : table'[u] \in [There(u)' -> Shape[u]] /\ There(u)' \subseteq There(u)
  /\ \A u \in Tables \ {"popular"} : \A i \in There(u)' : table'[u][i] = table[u][i]
  /\ booked' \subseteq There("services")'
  /\ UNCHANGED <<section, issued>>

LEMMA ShortenedTyped ==
  ASSUME CatalogueInv, NEW q \in Requests, NEW r \in CatalogueStep, Rowed(r), Go(q, r), Shortened
  PROVE  CatalogueInv'
<1>1. /\ ServerTyped(CatalogueStep)' /\ req'[q] = r
      /\ \A p \in Requests : p # q => req'[p] = req[p]
  BY GoTyped DEF CatalogueInv, ServerTyped, Go
<1>2. CatalogueRows'
  BY DEF Shortened, CatalogueInv, CatalogueRows
<1>3. Rowed(req[q])'
  BY <1>1 DEF Rowed, Shortened
<1>4. \A t \in Tables : issued[t] <= issued'[t]
  BY DEF Shortened, CatalogueInv, CatalogueRows
<1>5. QED
  BY <1>1, <1>2, <1>3, <1>4, CatalogueStays

\* What a deletion takes of table u, and what it leaves.
Lost(t, i, u) ==
  IF u = t THEN {i}
  ELSE IF t = "homeCategories" /\ u = "options"
       THEN {o \in There(u) : table[u][o].category = i}
       ELSE {}
Unlinked(t, i, row) ==
  [category |-> IF row.category \in Lost(t, i, "homeCategories") THEN NoId ELSE row.category,
   option   |-> IF row.option \in Lost(t, i, "options") THEN NoId ELSE row.option]

LEMMA DeletedIs ==
  ASSUME NEW t, NEW i
  PROVE  Deleted(t, i) =
           [u \in Tables |->
              IF u = "popular"
              THEN [c \in DOMAIN Without(table[u], Lost(t, i, u)) |->
                      Unlinked(t, i, Without(table[u], Lost(t, i, u))[c])]
              ELSE Without(table[u], Lost(t, i, u))]
BY DEF Deleted, Lost, Unlinked

LEMMA DeletedOthers ==
  ASSUME CatalogueInv, NEW t \in Tables, NEW i, table' = Deleted(t, i),
         NEW u \in Tables, u # "popular"
  PROVE  /\ There(u)' = There(u) \ Lost(t, i, u)
         /\ \A j \in There(u)' : table'[u][j] = table[u][j]
         /\ table'[u] \in [There(u)' -> Shape[u]]
<1>1. table[u] \in [There(u) -> Shape[u]]
  BY DEF CatalogueInv, CatalogueRows
<1>2. table'[u] = Without(table[u], Lost(t, i, u))
  BY DeletedIs
<1>3. PICK S, D, R, f : S = Lost(t, i, u) /\ D = There(u) /\ R = Shape[u] /\ f = table[u]
  OBVIOUS
<1>4. /\ Without(f, S) \in [D \ S -> R] /\ \A j \in D \ S : Without(f, S)[j] = f[j]
      /\ table'[u] = Without(f, S)
  <2>1. f \in [D -> R]
    BY <1>1, <1>3
  <2>2. Without(f, S) \in [D \ S -> R] /\ \A j \in D \ S : Without(f, S)[j] = f[j]
    BY <2>1 DEF Without
  <2>3. QED
    BY <1>2, <1>3, <2>2
<1>5. DOMAIN table'[u] = D \ S
  BY <1>4
<1>6. QED
  BY <1>3, <1>4, <1>5 DEF There

LEMMA DeletedCards ==
  ASSUME CatalogueInv, NEW t \in Tables, NEW i, table' = Deleted(t, i)
  PROVE  /\ There("popular")' \subseteq There("popular")
         /\ table'["popular"] \in [There("popular")' -> Shape["popular"]]
<1>1. "popular" \in Tables /\ table["popular"] \in [There("popular") -> Shape["popular"]]
  BY TablesAre DEF CatalogueInv, CatalogueRows
<1>2. PICK S, f : S = Lost(t, i, "popular") /\ f = Without(table["popular"], S)
  OBVIOUS
<1>3. /\ f \in [There("popular") \ S -> Shape["popular"]]
  BY <1>1, <1>2 DEF Without
<1>4. table'["popular"] = [c \in DOMAIN f |-> Unlinked(t, i, f[c])]
  BY <1>1, <1>2, DeletedIs
<1>5. ASSUME NEW row \in HomeCard PROVE Unlinked(t, i, row) \in HomeCard
  BY <1>5 DEF Unlinked, HomeCard, Link
<1>6. \A c \in DOMAIN f : Unlinked(t, i, f[c]) \in Shape["popular"]
  BY <1>3, <1>5, ShapesAre
<1>7. DOMAIN table'["popular"] = DOMAIN f /\ DOMAIN f \subseteq There("popular")
  BY <1>3, <1>4
<1>8. QED
  BY <1>4, <1>6, <1>7 DEF There

LEMMA DeleteShortens ==
  ASSUME CatalogueInv, NEW t \in Tables, NEW i, table' = Deleted(t, i), ~Needed(t, i),
         UNCHANGED <<section, issued, booked>>
  PROVE  Shortened
<1>1. table' = [u \in Tables |-> table'[u]]
  BY DeletedIs
<1>2. ASSUME NEW u \in Tables
      PROVE  table'[u] \in [There(u)' -> Shape[u]] /\ There(u)' \subseteq There(u)
  <2>1. CASE u = "popular"
    BY <2>1, DeletedCards
  <2>2. CASE u # "popular"
    BY <2>2, DeletedOthers
  <2>3. QED
    BY <2>1, <2>2
<1>3. ASSUME NEW u \in Tables \ {"popular"}
      PROVE  \A j \in There(u)' : table'[u][j] = table[u][j]
  BY DeletedOthers
<1>4. booked' \subseteq There("services")'
  <2>1. There("services")' = There("services") \ Lost(t, i, "services")
    BY TablesAre, DeletedOthers
  <2>2. \A s \in Lost(t, i, "services") : t = "services" /\ s = i
    BY DEF Lost
  <2>3. t = "services" => i \notin booked
    BY DEF Needed
  <2>4. QED
    BY <2>1, <2>2, <2>3 DEF CatalogueInv, CatalogueRows
<1>5. QED
  BY <1>1, <1>2, <1>3, <1>4 DEF Shortened

LEMMA DeleteTyped ==
  ASSUME CatalogueInv, NEW q \in Requests, Delete(q)
  PROVE  CatalogueInv'
<1>1. PICK t, i : t = req[q].t /\ i = req[q].id
  OBVIOUS
<1>2. /\ Go(q, Idle) /\ UNCHANGED <<section, issued, booked>> /\ req[q].at = "delete"
      /\ table' = IF i \in There(t) /\ ~Needed(t, i) THEN Deleted(t, i) ELSE table
  BY <1>1 DEF Delete, Answer, At
<1>3. t \in Tables
  BY <1>1, <1>2, HoldsRow DEF Holding
<1>4. CASE i \in There(t) /\ ~Needed(t, i)
  <2>1. Shortened
    BY <1>2, <1>3, <1>4, DeleteShortens
  <2>2. QED
    BY <1>2, <2>1, IdleRowed, ShortenedTyped
<1>5. CASE ~(i \in There(t) /\ ~Needed(t, i))
  <2>1. table' = table /\ booked' \subseteq There("services")
    BY <1>2, <1>5 DEF CatalogueInv, CatalogueRows
  <2>2. QED
    BY <1>2, <2>1, IdleRowed, OnlyRequest
<1>6. QED
  BY <1>4, <1>5

\* What the steps between the first one and the last send a request to.
LEMMA Held ==
  ASSUME CatalogueInv, NEW q \in Requests, req[q].at \in Holding \ {"update"},
         NEW at \in Holding \ {"update"}
  PROVE  /\ [req[q] EXCEPT !.at = at] = [at |-> at, t |-> req[q].t, id |-> req[q].id,
                                         mem |-> req[q].mem]
         /\ [at |-> at, t |-> req[q].t, id |-> req[q].id, mem |-> req[q].mem] \in CatalogueStep
<1>1. req[q] \in CatalogueStep
  BY DEF CatalogueInv, ServerTyped
<1>2. req[q] = [at |-> req[q].at, t |-> req[q].t, id |-> req[q].id, mem |-> req[q].mem]
  BY <1>1, CatalogueMemory
<1>3. req[q].t \in Tables /\ req[q].id \in Nat /\ req[q].mem \in AnyRow
  BY HoldsRow
<1>4. [at |-> at, t |-> req[q].t, id |-> req[q].id, mem |-> req[q].mem] \in CatalogueStep
  BY <1>3 DEF CatalogueStep, Holding
<1>5. [req[q] EXCEPT !.at = at] = [at |-> at, t |-> req[q].t, id |-> req[q].id,
                                   mem |-> req[q].mem]
  BY <1>2
<1>6. QED
  BY <1>4, <1>5

LEMMA CheckClashIs ==
  ASSUME CatalogueInv, NEW q \in Requests, CheckClash(q)
  PROVE  /\ req[q].at = "clash" /\ req[q].t = "prices" /\ UNCHANGED cdata
         /\ \/ Go(q, Idle)
            \/ /\ ~Clash(req[q].id, req[q].mem)
               /\ Go(q, [at |-> "select", t |-> "prices", id |-> req[q].id, mem |-> req[q].mem])
<1>1. req[q].at = "clash" /\ req[q].t = "prices" /\ UNCHANGED cdata
  BY DEF CheckClash, At, CatalogueInv, Rowed
<1>2. \/ Answer(q)
      \/ ~Clash(req[q].id, req[q].mem) /\ Go(q, [req[q] EXCEPT !.at = "select"])
  BY DEF CheckClash
<1>3. [req[q] EXCEPT !.at = "select"] = [at |-> "select", t |-> req[q].t, id |-> req[q].id,
                                         mem |-> req[q].mem]
  BY <1>1, Held DEF Holding
<1>4. QED
  BY <1>1, <1>2, <1>3 DEF Answer

LEMMA CheckClashTyped ==
  ASSUME CatalogueInv, NEW q \in Requests, CheckClash(q)
  PROVE  CatalogueInv'
<1>1. /\ req[q].at = "clash" /\ req[q].t = "prices" /\ UNCHANGED cdata
      /\ booked' \subseteq There("services")
  BY CheckClashIs DEF cdata, CatalogueInv, CatalogueRows
<1>2. CASE Go(q, Idle)
  BY <1>1, <1>2, IdleRowed, OnlyRequest DEF cdata
<1>3. CASE Go(q, [at |-> "select", t |-> "prices", id |-> req[q].id, mem |-> req[q].mem])
  <2>1. PICK r : r = [at |-> "select", t |-> "prices", id |-> req[q].id, mem |-> req[q].mem]
    OBVIOUS
  <2>2. r \in CatalogueStep
    BY <1>1, <2>1, Held DEF Holding
  <2>3. Rowed(r)
    BY <1>1, <2>1, HoldsRow DEF Rowed, Holding
  <2>4. QED
    BY <1>1, <1>3, <2>1, <2>2, <2>3, OnlyRequest DEF cdata
<1>4. QED
  BY <1>2, <1>3, CheckClashIs

\* A row that is used stays, as it is or deactivated; another is deleted.
LEMMA CountUsesIs ==
  ASSUME CatalogueInv, NEW q \in Requests, CountUses(q),
         NEW t, NEW i, NEW mem, t = req[q].t, i = req[q].id, mem = req[q].mem
  PROVE  /\ req[q].at = "uses" /\ t \in {"categories", "services"} /\ UNCHANGED cdata
         /\ \/ Go(q, Idle)
            \/ Go(q, [at |-> "select", t |-> t, id |-> i, mem |-> [mem EXCEPT !.active = FALSE]])
            \/ /\ t = "services" /\ i \notin booked
               /\ Go(q, [at |-> "deletePrices", t |-> t, id |-> i, mem |-> mem])
            \/ /\ t = "categories"
               /\ Go(q, [at |-> "delete", t |-> t, id |-> i, mem |-> mem])
<1>1. req[q].at = "uses" /\ t \in {"categories", "services"} /\ UNCHANGED cdata
      /\ req[q] \in CatalogueStep
  BY DEF CountUses, At, CatalogueInv, Rowed, ServerTyped
<1>2. req[q] = [at |-> req[q].at, t |-> t, id |-> i, mem |-> mem]
  BY <1>1, CatalogueMemory DEF Holding
<1>3. [req[q] EXCEPT !.at = "select", !.mem.active = FALSE] =
        [at |-> "select", t |-> t, id |-> i, mem |-> [mem EXCEPT !.active = FALSE]]
  <2>1. PICK a : a = req[q].at
    OBVIOUS
  <2>2. req[q] = [at |-> a, t |-> t, id |-> i, mem |-> mem]
    BY <1>2, <2>1
  <2>3. PICK o : o = [req[q] EXCEPT !.at = "select"]
    OBVIOUS
  <2>4. o = [at |-> "select", t |-> t, id |-> i, mem |-> mem]
    BY <2>2, <2>3
  <2>5. PICK n : n = [o EXCEPT !.mem.active = FALSE]
    OBVIOUS
  <2>6. n = [x \in {"at", "t", "id", "mem"} |-> n[x]]
    BY <2>4, <2>5
  <2>7. n.at = "select" /\ n.t = t /\ n.id = i /\ n.mem = [mem EXCEPT !.active = FALSE]
    BY <2>4, <2>5
  <2>8. n = [at |-> "select", t |-> t, id |-> i, mem |-> [mem EXCEPT !.active = FALSE]]
    BY <2>6, <2>7
  <2>9. QED
    BY <2>3, <2>5, <2>8
<1>4. /\ [req[q] EXCEPT !.at = "deletePrices"] = [at |-> "deletePrices", t |-> t, id |-> i,
                                                  mem |-> mem]
      /\ [req[q] EXCEPT !.at = "delete"] = [at |-> "delete", t |-> t, id |-> i, mem |-> mem]
  BY <1>2
<1>5. CASE Used(t, i)
  BY <1>1, <1>3, <1>5 DEF CountUses, Answer
<1>6. CASE ~Used(t, i) /\ t = "services"
  BY <1>1, <1>4, <1>6 DEF CountUses, Used
<1>7. CASE ~Used(t, i) /\ t # "services"
  BY <1>1, <1>4, <1>7 DEF CountUses
<1>8. QED
  BY <1>5, <1>6, <1>7

LEMMA CountUsesTyped ==
  ASSUME CatalogueInv, NEW q \in Requests, CountUses(q)
  PROVE  CatalogueInv'
<1>1. PICK t, i, mem : t = req[q].t /\ i = req[q].id /\ mem = req[q].mem
  OBVIOUS
<1>2. /\ req[q].at = "uses" /\ t \in {"categories", "services"} /\ UNCHANGED cdata
      /\ \/ Go(q, Idle)
         \/ Go(q, [at |-> "select", t |-> t, id |-> i, mem |-> [mem EXCEPT !.active = FALSE]])
         \/ /\ t = "services" /\ i \notin booked
            /\ Go(q, [at |-> "deletePrices", t |-> t, id |-> i, mem |-> mem])
         \/ /\ t = "categories"
            /\ Go(q, [at |-> "delete", t |-> t, id |-> i, mem |-> mem])
  BY <1>1, CountUsesIs
<1>3. /\ t \in Tables /\ i \in Nat /\ mem \in Shape[t] /\ mem \in AnyRow
      /\ i \in 1..issued[t]
  BY <1>1, <1>2, HoldsRow DEF Holding
<1>4. booked' \subseteq There("services") /\ UNCHANGED <<section, table, issued>>
  BY <1>2 DEF cdata, CatalogueInv, CatalogueRows
<1>5. [mem EXCEPT !.active = FALSE] \in Shape[t]
  <2>1. ASSUME NEW row \in Category PROVE [row EXCEPT !.active = FALSE] \in Category
    BY DEF Category
  <2>2. ASSUME NEW row \in Service PROVE [row EXCEPT !.active = FALSE] \in Service
    BY DEF Service
  <2>3. CASE t = "categories"
    BY <1>3, <2>1, <2>3, ShapesAre
  <2>4. CASE t = "services"
    BY <1>3, <2>2, <2>4, ShapesAre
  <2>5. QED
    BY <1>2, <2>3, <2>4
<1>6. CASE Go(q, [at |-> "select", t |-> t, id |-> i, mem |-> [mem EXCEPT !.active = FALSE]])
  <2>1. PICK m : m = [mem EXCEPT !.active = FALSE]
    OBVIOUS
  <2>2. PICK r : r = [at |-> "select", t |-> t, id |-> i, mem |-> m]
    OBVIOUS
  <2>3. m \in Shape[t] /\ m \in AnyRow
    BY <1>3, <1>5, <2>1 DEF AnyRow
  <2>4. r \in CatalogueStep
    BY <1>3, <2>2, <2>3 DEF CatalogueStep
  <2>5. Rowed(r)
    BY <1>3, <2>2, <2>3 DEF Rowed
  <2>6. QED
    BY <1>4, <1>6, <2>1, <2>2, <2>4, <2>5, OnlyRequest
<1>7. ASSUME NEW at \in {"deletePrices", "delete"}, at = "deletePrices" => t = "services",
             Go(q, [at |-> at, t |-> t, id |-> i, mem |-> mem])
      PROVE  CatalogueInv'
  <2>1. PICK r : r = [at |-> at, t |-> t, id |-> i, mem |-> mem]
    OBVIOUS
  <2>2. r \in CatalogueStep
    BY <1>3, <2>1 DEF CatalogueStep
  <2>3. Rowed(r)
    BY <1>2, <1>3, <1>7, <2>1 DEF Rowed
  <2>4. QED
    BY <1>4, <1>7, <2>1, <2>2, <2>3, OnlyRequest
<1>8. CASE Go(q, Idle)
  BY <1>4, <1>8, IdleRowed, OnlyRequest
<1>9. QED
  BY <1>2, <1>6, <1>7, <1>8

LEMMA DeletePricesIs ==
  ASSUME CatalogueInv, NEW q \in Requests, DeletePrices(q)
  PROVE  /\ req[q].at = "deletePrices" /\ req[q].t = "services"
         /\ UNCHANGED <<section, issued, booked>>
         /\ Go(q, [at |-> "delete", t |-> "services", id |-> req[q].id, mem |-> req[q].mem])
         /\ table' = [table EXCEPT !["prices"] =
              Without(@, {p \in There("prices") : @[p].service = req[q].id})]
<1>1. req[q].at = "deletePrices" /\ req[q].t = "services"
  BY DEF DeletePrices, At, CatalogueInv, Rowed
<1>2. [req[q] EXCEPT !.at = "delete"] = [at |-> "delete", t |-> req[q].t, id |-> req[q].id,
                                         mem |-> req[q].mem]
  BY <1>1, Held DEF Holding
<1>3. QED
  BY <1>1, <1>2 DEF DeletePrices

LEMMA DeletePricesShortens ==
  ASSUME CatalogueInv, NEW q \in Requests, DeletePrices(q)
  PROVE  /\ Shortened
         /\ \A u \in Tables \ {"prices"} : table'[u] = table[u]
         /\ There("prices")' = {p \in There("prices") : table["prices"][p].service # req[q].id}
<1>1. PICK S, f : S = {p \in There("prices") : table["prices"][p].service = req[q].id}
                  /\ f = table["prices"]
  OBVIOUS
<1>2. table' = [table EXCEPT !["prices"] = Without(f, S)] /\ UNCHANGED <<section, issued, booked>>
  BY <1>1, DeletePricesIs
<1>3. /\ "prices" \in Tables /\ table = [u \in Tables |-> table[u]] /\ booked \subseteq There("services")
      /\ \A u \in Tables : table[u] \in [There(u) -> Shape[u]]
  BY TablesAre DEF CatalogueInv, CatalogueRows
<1>4. /\ table'["prices"] = Without(f, S) /\ \A u \in Tables \ {"prices"} : table'[u] = table[u]
      /\ table' = [u \in Tables |-> table'[u]]
  BY <1>2, <1>3
<1>5. f \in [There("prices") -> Shape["prices"]]
  BY <1>1, <1>3
<1>6. /\ table'["prices"] \in [There("prices") \ S -> Shape["prices"]]
      /\ \A i \in There("prices") \ S : table'["prices"][i] = f[i]
  <2>1. PICK D, R : D = There("prices") /\ R = Shape["prices"]
    OBVIOUS
  <2>2. f \in [D -> R]
    BY <1>5, <2>1
  <2>3. Without(f, S) \in [D \ S -> R] /\ \A j \in D \ S : Without(f, S)[j] = f[j]
    BY <2>2 DEF Without
  <2>4. QED
    BY <1>4, <2>1, <2>3
<1>7. There("prices")' = There("prices") \ S
  BY <1>6 DEF There
<1>8. \A u \in Tables \ {"prices"} : There(u)' = There(u)
  BY <1>4 DEF There
<1>9. booked' \subseteq There("services")'
  BY <1>2, <1>3, <1>8, TablesAre
<1>10. \A u \in Tables : table'[u] \in [There(u)' -> Shape[u]] /\ There(u)' \subseteq There(u)
  BY <1>3, <1>4, <1>6, <1>7, <1>8
<1>11. \A u \in Tables \ {"popular"} : \A i \in There(u)' : table'[u][i] = table[u][i]
  BY <1>1, <1>4, <1>6, <1>7
<1>12. Shortened
  BY <1>2, <1>4, <1>9, <1>10, <1>11 DEF Shortened
<1>13. QED
  BY <1>1, <1>4, <1>7, <1>12

LEMMA DeletePricesTyped ==
  ASSUME CatalogueInv, NEW q \in Requests, DeletePrices(q)
  PROVE  CatalogueInv'
<1>1. PICK r : r = [at |-> "delete", t |-> "services", id |-> req[q].id, mem |-> req[q].mem]
  OBVIOUS
<1>2. req[q].at = "deletePrices" /\ req[q].t = "services" /\ Go(q, r)
  BY <1>1, DeletePricesIs
<1>3. r \in CatalogueStep
  BY <1>1, <1>2, Held DEF Holding
<1>4. Rowed(r)
  BY <1>1, <1>2, HoldsRow DEF Rowed, Holding
<1>5. QED
  BY <1>2, <1>3, <1>4, DeletePricesShortens, ShortenedTyped

LEMMA InsertItemTyped ==
  ASSUME CatalogueInv, NEW q \in Requests, InsertItem(q)
  PROVE  CatalogueInv'
<1>1. booked' \subseteq There("services") /\ UNCHANGED <<section, table, issued>> /\ Go(q, Idle)
  BY DEF InsertItem, Answer, CatalogueInv, CatalogueRows
<1>2. QED
  BY <1>1, IdleRowed, OnlyRequest

LEMMA CatalogueCrashTyped ==
  ASSUME CatalogueInv, NEW q \in Requests, CatalogueCrash(q)
  PROVE  CatalogueInv'
<1>1. /\ ServerTyped(CatalogueStep)' /\ req'[q] = Idle
      /\ \A p \in Requests : p # q => req'[p] = req[p]
  BY IdleRowed, DieTyped DEF CatalogueInv, ServerTyped, CatalogueCrash, Die
<1>2. CatalogueRows'
  BY DEF CatalogueInv, CatalogueRows, There, CatalogueCrash, cdata
<1>3. Rowed(req[q])'
  BY <1>1 DEF Rowed, Idle, Holding
<1>4. \A t \in Tables : issued[t] <= issued'[t]
  BY DEF CatalogueInv, CatalogueRows, CatalogueCrash, cdata
<1>5. QED
  BY <1>1, <1>2, <1>3, <1>4, CatalogueStays

LEMMA CatalogueWentTyped ==
  ASSUME CatalogueInv, NEW q \in Requests, CatalogueStatement(q) \/ CatalogueCrash(q)
  PROVE  CatalogueInv'
BY InsertTyped, SelectTyped, UpdateTyped, InsertAgainTyped, DeleteTyped, CheckClashTyped,
   CountUsesTyped, DeletePricesTyped, InsertItemTyped, CatalogueCrashTyped
   DEF CatalogueStatement

LEMMA CatalogueArrivedTyped ==
  ASSUME CatalogueInv, NEW q \in Requests, CatalogueArrives(q)
  PROVE  CatalogueInv'
<1>1. UNCHANGED cdata
  BY CatalogueArrived
<1>2. PICK r : CatalogueComes(r) /\ Start(q, r)
  BY CatalogueArrived
<1>3. /\ ServerTyped(CatalogueStep)' /\ req'[q] = r
      /\ \A p \in Requests : p # q => req'[p] = req[p]
  BY <1>2, StartTyped DEF CatalogueInv, ServerTyped, Start, CatalogueComes
<1>4. CatalogueRows'
  BY <1>1 DEF CatalogueInv, CatalogueRows, There, cdata
<1>5. Rowed(req[q])'
  BY <1>1, <1>2, <1>3 DEF Rowed, CatalogueComes, cdata
<1>6. \A t \in Tables : issued[t] <= issued'[t]
  BY <1>1 DEF CatalogueInv, CatalogueRows, cdata
<1>7. QED
  BY <1>3, <1>4, <1>5, <1>6, CatalogueStays

LEMMA CatalogueStepIs ==
  ASSUME CatalogueNext
  PROVE  \E q \in Requests :
           CatalogueArrives(q) \/ CatalogueStatement(q) \/ CatalogueCrash(q)
BY DEF CatalogueNext, CatalogueArrives

LEMMA CatalogueTypeInit ==
  ASSUME CatalogueInit
  PROVE  CatalogueInv
<1>1. /\ ServerTyped(CatalogueStep) /\ \A q \in Requests : req[q] = Idle
  BY IdleRowed DEF CatalogueInit, ServerInit, ServerTyped
<1>2. \A t \in Tables : table[t] = <<>> /\ There(t) = {}
  BY DEF CatalogueInit, There
<1>3. table = [t \in Tables |-> table[t]]
  BY DEF CatalogueInit
<1>4. \A t \in Tables : table[t] \in [There(t) -> Shape[t]]
  <2>1. \A f : f = <<>> => f \in Seq({}) /\ Len(f) = 0
    OBVIOUS
  <2>2. \A f : f = <<>> => f = [x \in {} |-> f[x]]
    BY <2>1
  <2>3. \A S, f : f = <<>> => f \in [{} -> S]
    BY <2>2
  <2>4. QED
    BY <1>2, <2>3
<1>5. CatalogueRows
  BY <1>2, <1>3, <1>4 DEF CatalogueInit, CatalogueRows
<1>6. QED
  BY <1>1, <1>5, IdleRowed DEF CatalogueInv

LEMMA CatalogueTypeStep ==
  ASSUME CatalogueInv, [CatalogueNext]_cvars
  PROVE  CatalogueInv'
<1>1. CASE UNCHANGED cvars
  BY <1>1 DEF CatalogueInv, CatalogueRows, ServerTyped, Rowed, There, cvars, cdata, server
<1>2. CASE CatalogueNext
  BY <1>2, CatalogueStepIs, CatalogueWentTyped, CatalogueArrivedTyped
<1>3. QED
  BY <1>1, <1>2

\* Rows have the columns of their table and ids their table has given out,
\* booked services are there, and requests have rows of theirs in memory,
\* whatever is created, saved and deleted at once.
THEOREM CatalogueTypeCorrect == CatalogueSpec => []CatalogueTypeOK
<1>1. CatalogueInit => CatalogueInv
  BY CatalogueTypeInit
<1>2. CatalogueInv /\ [CatalogueNext]_cvars => CatalogueInv'
  BY CatalogueTypeStep
<1>3. CatalogueInv => CatalogueTypeOK
  BY CatalogueTypes
<1>4. QED
  BY <1>1, <1>2, <1>3, PTL DEF CatalogueSpec

-----------------------------------------------------------------------------
(* The catalogue: deletions.                                               *)

\* What a request has in memory still holds.
Fresh(r) ==
  /\ r.at # "insertAgain"
  /\ r.at \in Holding => r.id \in There(r.t)
  /\ r.at = "deletePrices" => r.id \notin booked
FreshInv == Alone /\ (overlaps = 0 => \A q \in Requests : Fresh(req[q]))

LEMMA IdleFresh == Fresh(Idle)
BY DEF Fresh, Idle, Holding

LEMMA FreshArrives ==
  ASSUME CatalogueInv, FreshInv, NEW q \in Requests, CatalogueArrives(q)
  PROVE  FreshInv'
<1>1. UNCHANGED cdata
  BY CatalogueArrived
<1>2. PICK r : CatalogueComes(r) /\ Start(q, r)
  BY CatalogueArrived
<1>3. ServerTyped(CatalogueStep)
  BY DEF CatalogueInv
<1>4. /\ Alone'
      /\ overlaps' = 0 => overlaps = 0 /\ Quiet
      /\ req'[q] = r /\ \A p \in Requests \ {q} : req'[p] = req[p]
  BY <1>2, <1>3, StartAlone
<1>5. /\ r.at # "insertAgain" /\ r.at # "deletePrices"
      /\ r.at \in Holding => r.id \in There(r.t)
  BY <1>2 DEF CatalogueComes
<1>6. Fresh(req[q])'
  BY <1>1, <1>4, <1>5 DEF Fresh, There, cdata
<1>7. ASSUME overlaps' = 0, NEW p \in Requests, p # q PROVE Fresh(req[p])'
  <2>1. req'[p].at = "idle"
    BY <1>4, <1>7 DEF Quiet, InFlight
  <2>2. QED
    BY <2>1 DEF Fresh, Holding
<1>8. overlaps' = 0 => \A p \in Requests : Fresh(req[p])'
  BY <1>6, <1>7
<1>9. QED
  BY <1>4, <1>8 DEF FreshInv

\* While there is one request, its step is all that has to keep its memory fresh.
LEMMA FreshAlone ==
  ASSUME CatalogueInv, FreshInv, NEW q \in Requests, InFlight(q), NEW r, Go(q, r),
         overlaps = 0 => Fresh(r)'
  PROVE  FreshInv'
<1>1. ServerTyped(CatalogueStep) /\ Alone
  BY DEF CatalogueInv, FreshInv
<1>2. /\ Alone' /\ overlaps' = overlaps
      /\ req'[q] = r /\ \A p \in Requests \ {q} : req'[p] = req[p]
  BY <1>1, GoAlone
<1>3. ASSUME overlaps = 0, NEW p \in Requests, p # q PROVE Fresh(req[p])'
  <2>1. ~InFlight(p)
    BY <1>1, <1>3 DEF Alone
  <2>2. req'[p].at = "idle"
    BY <1>2, <1>3, <2>1 DEF InFlight
  <2>3. QED
    BY <2>2 DEF Fresh, Holding
<1>4. overlaps = 0 => Fresh(req[q])'
  BY <1>2 DEF Fresh
<1>5. QED
  BY <1>2, <1>3, <1>4 DEF FreshInv

LEMMA FreshIdle ==
  ASSUME CatalogueInv, FreshInv, NEW q \in Requests, InFlight(q), Go(q, Idle)
  PROVE  FreshInv'
<1>1. Fresh(Idle)'
  BY DEF Fresh, Idle, Holding
<1>2. QED
  BY <1>1, FreshAlone

LEMMA FreshGoes ==
  ASSUME CatalogueInv, FreshInv, NEW q \in Requests, CatalogueStatement(q)
  PROVE  FreshInv'
<1>1. InFlight(q)
  BY CatalogueGoesHome
<1>2. CASE Insert(q) \/ Update(q) \/ InsertAgain(q) \/ Delete(q) \/ InsertItem(q)
  BY <1>1, <1>2, FreshIdle DEF Insert, Update, InsertAgain, Delete, InsertItem, Answer
<1>3. CASE Select(q)
  <2>1. PICK t, i, mem : t = req[q].t /\ i = req[q].id /\ mem = req[q].mem
    OBVIOUS
  <2>2. UNCHANGED cdata /\ req[q].at = "select"
    BY <1>3 DEF Select, At
  <2>3. overlaps = 0 => i \in There(t)
    BY <2>1, <2>2 DEF FreshInv, Fresh, Holding
  <2>4. CASE Go(q, Idle)
    BY <1>1, <2>4, FreshIdle
  <2>5. CASE /\ i \notin There(t)
             /\ Go(q, [at |-> "insertAgain", t |-> t, id |-> i, mem |-> mem])
    BY <1>1, <2>3, <2>5, FreshAlone
  <2>6. CASE /\ i \in There(t)
             /\ Go(q, [at |-> "update", t |-> t, id |-> i, mem |-> mem,
                       dirty |-> Dirty(t, i, mem)])
    <3>1. PICK r : r = [at |-> "update", t |-> t, id |-> i, mem |-> mem,
                        dirty |-> Dirty(t, i, mem)]
      OBVIOUS
    <3>2. Fresh(r)'
      BY <2>2, <2>6, <3>1 DEF Fresh, There, cdata
    <3>3. QED
      BY <1>1, <2>6, <3>1, <3>2, FreshAlone
  <2>7. QED
    BY <1>3, <2>1, <2>4, <2>5, <2>6, SelectIs
<1>4. CASE CheckClash(q)
  <2>1. req[q].at = "clash" /\ req[q].t = "prices" /\ UNCHANGED cdata
    BY <1>4, CheckClashIs
  <2>2. PICK r : r = [at |-> "select", t |-> "prices", id |-> req[q].id, mem |-> req[q].mem]
    OBVIOUS
  <2>3. overlaps = 0 => Fresh(r)'
    BY <2>1, <2>2 DEF FreshInv, Fresh, Holding, There, cdata
  <2>4. QED
    BY <1>1, <1>4, <2>2, <2>3, FreshAlone, FreshIdle, CheckClashIs
<1>5. CASE CountUses(q)
  <2>1. PICK t, i, mem : t = req[q].t /\ i = req[q].id /\ mem = req[q].mem
    OBVIOUS
  <2>2. /\ req[q].at = "uses" /\ UNCHANGED cdata
        /\ \/ Go(q, Idle)
           \/ Go(q, [at |-> "select", t |-> t, id |-> i, mem |-> [mem EXCEPT !.active = FALSE]])
           \/ /\ t = "services" /\ i \notin booked
              /\ Go(q, [at |-> "deletePrices", t |-> t, id |-> i, mem |-> mem])
           \/ /\ t = "categories"
              /\ Go(q, [at |-> "delete", t |-> t, id |-> i, mem |-> mem])
    BY <1>5, <2>1, CountUsesIs
  <2>3. overlaps = 0 => i \in There(t)
    BY <2>1, <2>2 DEF FreshInv, Fresh, Holding
  <2>4. ASSUME NEW m, Go(q, [at |-> "select", t |-> t, id |-> i, mem |-> m])
        PROVE  FreshInv'
    <3>1. PICK r : r = [at |-> "select", t |-> t, id |-> i, mem |-> m]
      OBVIOUS
    <3>2. overlaps = 0 => Fresh(r)'
      BY <2>2, <2>3, <3>1 DEF Fresh, There, cdata
    <3>3. QED
      BY <1>1, <2>4, <3>1, <3>2, FreshAlone
  <2>5. CASE /\ i \notin booked
             /\ Go(q, [at |-> "deletePrices", t |-> t, id |-> i, mem |-> mem])
    <3>1. PICK r : r = [at |-> "deletePrices", t |-> t, id |-> i, mem |-> mem]
      OBVIOUS
    <3>2. overlaps = 0 => Fresh(r)'
      BY <2>2, <2>3, <2>5, <3>1 DEF Fresh, There, cdata
    <3>3. QED
      BY <1>1, <2>5, <3>1, <3>2, FreshAlone
  <2>6. CASE Go(q, [at |-> "delete", t |-> t, id |-> i, mem |-> mem])
    <3>1. PICK r : r = [at |-> "delete", t |-> t, id |-> i, mem |-> mem]
      OBVIOUS
    <3>2. overlaps = 0 => Fresh(r)'
      BY <2>2, <2>3, <3>1 DEF Fresh, There, cdata
    <3>3. QED
      BY <1>1, <2>6, <3>1, <3>2, FreshAlone
  <2>7. QED
    BY <1>1, <2>2, <2>4, <2>5, <2>6, FreshIdle
<1>6. CASE DeletePrices(q)
  <2>1. /\ req[q].at = "deletePrices" /\ req[q].t = "services"
        /\ Go(q, [at |-> "delete", t |-> "services", id |-> req[q].id, mem |-> req[q].mem])
    BY <1>6, DeletePricesIs
  <2>2. table'["services"] = table["services"]
    BY <1>6, DeletePricesShortens, TablesAre
  <2>3. PICK r : r = [at |-> "delete", t |-> "services", id |-> req[q].id, mem |-> req[q].mem]
    OBVIOUS
  <2>4. overlaps = 0 => Fresh(r)'
    BY <2>1, <2>2, <2>3 DEF FreshInv, Fresh, Holding, There
  <2>5. QED
    BY <1>1, <2>1, <2>3, <2>4, FreshAlone
<1>7. QED
  BY <1>2, <1>3, <1>4, <1>5, <1>6 DEF CatalogueStatement

LEMMA FreshCrash ==
  ASSUME CatalogueInv, FreshInv, NEW q \in Requests, CatalogueCrash(q)
  PROVE  FreshInv'
<1>1. ServerTyped(CatalogueStep) /\ Alone /\ Die(q) /\ UNCHANGED cdata
  BY DEF CatalogueInv, FreshInv, CatalogueCrash
<1>2. /\ Alone' /\ overlaps' = overlaps
      /\ req'[q] = Idle /\ \A p \in Requests \ {q} : req'[p] = req[p]
  BY <1>1, DieAlone
<1>3. ASSUME overlaps = 0, NEW p \in Requests PROVE Fresh(req[p])'
  BY <1>1, <1>2, <1>3, IdleFresh DEF FreshInv, Fresh, There, cdata
<1>4. QED
  BY <1>2, <1>3 DEF FreshInv

\* The change of a step, and what it promises.
Deletes ==
  /\ \A p \in There("prices") :
       p \notin DOMAIN table'["prices"] => table["prices"][p].service \notin booked
  /\ \A t \in Tables : \A i \in 1..issued[t] :
       i \in DOMAIN table'[t] => i \in DOMAIN table[t]

\* A statement that only writes row i of t.
LEMMA WritesOne ==
  ASSUME CatalogueInv, NEW t \in Tables, NEW i, i \in There(t) \/ i \notin 1..issued[t], NEW row,
         table' = [table EXCEPT ![t] = With(@, i, row)] \/ table' = table
  PROVE  Deletes
<1>1. CASE table' = table
  BY <1>1 DEF Deletes, There
<1>2. CASE table' = [table EXCEPT ![t] = With(@, i, row)]
  <2>1. table = [u \in Tables |-> table[u]]
    BY DEF CatalogueInv, CatalogueRows
  <2>2. PICK f, g : f = table[t] /\ g = table'[t]
    OBVIOUS
  <2>3. g = With(f, i, row) /\ \A u \in Tables \ {t} : table'[u] = table[u]
    BY <1>2, <2>1, <2>2
  <2>4. DOMAIN g = DOMAIN f \cup {i}
    BY <2>3 DEF With
  <2>5. There(t) = DOMAIN f
    BY <2>2 DEF There
  <2>6. QED
    BY <2>2, <2>3, <2>4, <2>5, TablesAre DEF Deletes, There
<1>3. QED
  BY <1>1, <1>2

LEMMA StatementDeletes ==
  ASSUME CatalogueInv, FreshInv, overlaps = 0, NEW q \in Requests,
         CatalogueStatement(q)
  PROVE  Deletes
<1>1. Fresh(req[q])
  BY DEF FreshInv
<1>2. CASE Insert(q)
  <2>1. PICK t, i, row : t = req[q].t /\ i = issued[t] + 1 /\ row = req[q].row
    OBVIOUS
  <2>2. table' = [table EXCEPT ![t] = With(@, i, row)] \/ table' = table
    BY <1>2, <2>1 DEF Insert
  <2>3. req[q].at = "insert" /\ req[q] \in CatalogueStep
    BY <1>2 DEF Insert, At, CatalogueInv, ServerTyped
  <2>4. t \in Tables
    BY <2>1, <2>3, CatalogueMemory
  <2>5. issued[t] \in Nat
    BY <2>4 DEF CatalogueInv, CatalogueRows
  <2>6. i \notin 1..issued[t]
    BY <2>1, <2>5
  <2>7. QED
    BY <2>2, <2>4, <2>6, WritesOne
<1>3. CASE Update(q)
  <2>1. PICK t, i : t = req[q].t /\ i = req[q].id
    OBVIOUS
  <2>2. PICK row : row = Overlaid(req[q], table[t][i])
    OBVIOUS
  <2>3. /\ req[q].at = "update"
        /\ table' = IF i \in There(t) /\ Refers(t, row)
                    THEN [table EXCEPT ![t] = With(@, i, row)] ELSE table
    BY <1>3, <2>1, <2>2, UpdateIs
  <2>4. t \in Tables /\ i \in There(t)
    BY <1>1, <2>1, <2>3, HoldsRow DEF Holding, Fresh
  <2>5. QED
    BY <2>3, <2>4, WritesOne
<1>4. CASE InsertAgain(q)
  BY <1>1, <1>4 DEF InsertAgain, At, Fresh
<1>5. CASE Delete(q)
  <2>1. PICK t, i : t = req[q].t /\ i = req[q].id
    OBVIOUS
  <2>2. /\ req[q].at = "delete" /\ UNCHANGED <<section, issued, booked>>
        /\ table' = IF i \in There(t) /\ ~Needed(t, i) THEN Deleted(t, i) ELSE table
    BY <1>5, <2>1 DEF Delete, At
  <2>3. t \in Tables /\ t # "prices"
    BY <2>1, <2>2, HoldsRow DEF Holding, CatalogueInv, Rowed
  <2>4. CASE i \in There(t) /\ ~Needed(t, i)
    <3>1. table' = Deleted(t, i)
      BY <2>2, <2>4
    <3>2. Shortened
      BY <2>2, <2>3, <2>4, <3>1, DeleteShortens
    <3>3. PICK u : u = "prices"
      OBVIOUS
    <3>4. u \in Tables /\ u # "popular" /\ Lost(t, i, u) = {}
      BY <2>3, <3>3, TablesAre DEF Lost
    <3>5. There(u)' = There(u) \ Lost(t, i, u)
      BY <2>3, <3>1, <3>4, DeletedOthers
    <3>6. There("prices")' = There("prices")
      BY <3>3, <3>4, <3>5 DEF There
    <3>7. QED
      BY <3>2, <3>6 DEF Deletes, Shortened, There
  <2>5. CASE ~(i \in There(t) /\ ~Needed(t, i))
    <3>1. table' = table
      BY <2>2, <2>5
    <3>2. QED
      BY <3>1 DEF Deletes, There
  <2>6. QED
    BY <2>4, <2>5
<1>6. CASE CheckClash(q) \/ CountUses(q) \/ Select(q) \/ InsertItem(q)
  <2>1. table' = table
    BY <1>6 DEF CheckClash, CountUses, Select, InsertItem, cdata
  <2>2. QED
    BY <2>1 DEF Deletes, There
<1>7. CASE DeletePrices(q)
  <2>1. /\ Shortened
        /\ There("prices")' = {p \in There("prices") : table["prices"][p].service # req[q].id}
    BY <1>7, DeletePricesShortens
  <2>2. req[q].id \notin booked
    BY <1>1, <1>7, DeletePricesIs DEF Fresh
  <2>3. QED
    BY <2>1, <2>2 DEF Deletes, Shortened, There
<1>8. QED
  BY <1>2, <1>3, <1>4, <1>5, <1>6, <1>7 DEF CatalogueStatement

\* Until the first overlap a deletion takes no price of a service that bookings
\* refer to, and no row comes back with an id that has been deleted.
THEOREM DeletionsAlwaysSound == CatalogueSpec => DeletionsSound
<1> DEFINE Inv == CatalogueInv /\ FreshInv
<1>1. CatalogueInit => Inv
  <2> SUFFICES ASSUME CatalogueInit PROVE Inv
    OBVIOUS
  <2>1. \A q \in Requests : req[q] = Idle
    BY DEF CatalogueInit, ServerInit
  <2>2. FreshInv
    BY <2>1, IdleFresh DEF FreshInv, Alone, InFlight, Idle
  <2>3. QED
    BY <2>2, CatalogueTypeInit
<1>2. Inv /\ [CatalogueNext]_cvars => Inv'
  <2> SUFFICES ASSUME Inv, [CatalogueNext]_cvars PROVE FreshInv'
    BY CatalogueTypeStep
  <2>1. CASE UNCHANGED cvars
    BY <2>1 DEF FreshInv, Alone, InFlight, Fresh, There, cvars, cdata, server
  <2>2. CASE CatalogueNext
    BY <2>2, CatalogueStepIs, FreshArrives, FreshGoes, FreshCrash
  <2>3. QED
    BY <2>1, <2>2
<1>3. Inv /\ [CatalogueNext]_cvars => [overlaps = 0 => Deletes]_cvars
  <2> SUFFICES ASSUME Inv, CatalogueNext, overlaps = 0 PROVE Deletes
    OBVIOUS
  <2>1. ASSUME NEW q \in Requests, CatalogueArrives(q) \/ CatalogueCrash(q) PROVE Deletes
    <3>1. table' = table
      BY <2>1, CatalogueArrived DEF CatalogueCrash, cdata
    <3>2. QED
      BY <3>1 DEF Deletes, There
  <2>2. QED
    BY <2>1, CatalogueStepIs, StatementDeletes
<1>4. [overlaps = 0 => Deletes]_cvars <=>
        [overlaps = 0 =>
           /\ \A p \in There("prices") :
                p \notin DOMAIN table'["prices"] => table["prices"][p].service \notin booked
           /\ \A t \in Tables : \A i \in 1..issued[t] :
                i \in DOMAIN table'[t] => i \in DOMAIN table[t]]_cvars
  BY DEF Deletes
<1> HIDE DEF Inv
<1>5. QED
  BY <1>1, <1>2, <1>3, <1>4, PTL DEF CatalogueSpec, DeletionsSound

-----------------------------------------------------------------------------
(* The catalogue: prices.                                                  *)

ActiveRow(s, area) == [service |-> s, area |-> area, active |-> TRUE]

\* A request that will add an active price to those for s and area, if nothing
\* comes in between.
Crowds(r, s, area) ==
  /\ ActiveFor(s, area) # {} /\ r.at \in {"insert"} \cup Holding /\ r.t = "prices"
  /\ \/ r.at = "insert" /\ r.row = ActiveRow(s, area)
     \/ /\ r.at \in {"select", "insertAgain"} /\ r.id \notin ActiveFor(s, area)
        /\ r.mem = ActiveRow(s, area)
     \/ /\ r.at = "update" /\ r.id \in There("prices") \ ActiveFor(s, area)
        /\ Overlaid(r, table["prices"][r.id]) = ActiveRow(s, area)

Crowding(s, area) == \E q \in Requests : Crowds(req[q], s, area)
CrowdDue(s, area) == IF Crowding(s, area) THEN 1 ELSE 0

\* Active prices beyond the first, each paid by an overlap.
Excess(s, area) ==
  IF ActiveFor(s, area) = {} THEN 0 ELSE Cardinality(ActiveFor(s, area)) - 1
CrowdInv(s, area) == Owes(Busy, overlaps, Excess(s, area), CrowdDue(s, area))

LEMMA PricesFinite ==
  CatalogueInv => /\ There("prices") \subseteq Nat
                  /\ \A s, area : /\ IsFiniteSet(ActiveFor(s, area))
                                  /\ Cardinality(ActiveFor(s, area)) \in Nat
                                  /\ Excess(s, area) \in Nat
                                  /\ CrowdDue(s, area) \in {0, 1}
<1> SUFFICES ASSUME CatalogueInv
             PROVE  /\ There("prices") \subseteq Nat
                    /\ \A s, area : /\ IsFiniteSet(ActiveFor(s, area))
                                    /\ Cardinality(ActiveFor(s, area)) \in Nat
                                    /\ Excess(s, area) \in Nat
                                    /\ CrowdDue(s, area) \in {0, 1}
  OBVIOUS
<1>1. There("prices") \subseteq 1..issued["prices"] /\ issued["prices"] \in Nat
  BY TablesAre DEF CatalogueInv, CatalogueRows
<1>2. IsFiniteSet(1..issued["prices"])
  BY <1>1, FS_Interval
<1>3. ASSUME NEW s, NEW area
      PROVE  /\ IsFiniteSet(ActiveFor(s, area)) /\ Cardinality(ActiveFor(s, area)) \in Nat
             /\ Excess(s, area) \in Nat /\ CrowdDue(s, area) \in {0, 1}
  <2>1. ActiveFor(s, area) \subseteq 1..issued["prices"]
    BY <1>1 DEF ActiveFor
  <2>2. IsFiniteSet(ActiveFor(s, area)) /\ Cardinality(ActiveFor(s, area)) \in Nat
    BY <1>2, <2>1, FS_Subset, FS_CardinalityType
  <2>3. ActiveFor(s, area) # {} => Cardinality(ActiveFor(s, area)) # 0
    BY <2>2, FS_EmptySet
  <2>4. QED
    BY <2>2, <2>3 DEF Excess, CrowdDue
<1>4. QED
  BY <1>1, <1>3

LEMMA PricesFiniteNext ==
  CatalogueInv' => (/\ There("prices") \subseteq Nat
                    /\ \A s, area : /\ IsFiniteSet(ActiveFor(s, area))
                                    /\ Cardinality(ActiveFor(s, area)) \in Nat
                                    /\ Excess(s, area) \in Nat
                                    /\ CrowdDue(s, area) \in {0, 1})'
BY PricesFinite, PTL

LEMMA ActiveIs ==
  ASSUME CatalogueInv, NEW s, NEW area, NEW p \in There("prices")
  PROVE  p \in ActiveFor(s, area) <=> /\ table["prices"][p].active
                                      /\ table["prices"][p].service = s
                                      /\ table["prices"][p].area = area
<1>1. table["prices"][p] \in Price
  BY TablesAre, ShapesAre DEF CatalogueInv, CatalogueRows
<1>2. PICK row : row = table["prices"][p]
  OBVIOUS
<1>3. row = [service |-> row.service, area |-> row.area, active |-> row.active]
      /\ row.active \in BOOLEAN
  BY <1>1, <1>2 DEF Price
<1>4. row = [service |-> s, area |-> area, active |-> TRUE] <=>
        row.active /\ row.service = s /\ row.area = area
  BY <1>3
<1>5. QED
  BY <1>2, <1>4 DEF ActiveFor

\* Prices that no step touches stay as crowded as they were.
LEMMA PricesKept ==
  ASSUME NEW s, NEW area, table'["prices"] = table["prices"]
  PROVE  /\ ActiveFor(s, area)' = ActiveFor(s, area) /\ Excess(s, area)' = Excess(s, area)
         /\ \A r : Crowds(r, s, area)' <=> Crowds(r, s, area)
BY DEF ActiveFor, There, Excess, Crowds

LEMMA CrowdBegins ==
  ASSUME CatalogueInv, CatalogueInv', BusyInv, NEW q \in Requests, CatalogueArrives(q),
         NEW s, NEW area, CrowdInv(s, area)
  PROVE  CrowdInv(s, area)'
<1>1. UNCHANGED cdata
  BY CatalogueArrived
<1>2. PICK r : CatalogueComes(r) /\ Start(q, r)
  BY CatalogueArrived
<1>3. ServerTyped(CatalogueStep)
  BY DEF CatalogueInv
<1>4. req'[q] = r /\ \A p \in Requests \ {q} : req'[p] = req[p]
  BY <1>2, <1>3 DEF ServerTyped, Start
<1>5. overlaps' = (IF Busy = {} THEN overlaps ELSE overlaps + 1) /\ overlaps' \in Nat
      /\ overlaps \in Nat
  BY <1>2, <1>3 DEF ServerTyped, Start, Quiet, Busy
<1>6. Busy' \in SUBSET (Busy \cup {q})
  BY <1>4 DEF Busy, InFlight
<1>7. ~Crowds(r, s, area)
  <2>1. CASE r.at = "insert" /\ r.t = "prices" /\ r.row = ActiveRow(s, area)
    <3>1. ~Clash(NoId, r.row)
      BY <1>2, <2>1 DEF CatalogueComes
    <3>2. NoId \notin There("prices")
      BY PricesFinite, CatalogueAssumption DEF CatalogueAssumption
    <3>3. r.row.service = s /\ r.row.area = area
      BY <2>1 DEF ActiveRow
    <3>4. \A p \in There("prices") : p \notin ActiveFor(s, area)
      BY <3>1, <3>2, <3>3, ActiveIs DEF Clash
    <3>5. ActiveFor(s, area) = {}
      BY <3>4 DEF ActiveFor
    <3>6. QED
      BY <3>5 DEF Crowds
  <2>2. CASE r.at = "select" /\ r.t = "prices"
    <3>1. ~r.mem.active
      BY <1>2, <2>2 DEF CatalogueComes
    <3>2. r.mem # ActiveRow(s, area)
      BY <3>1 DEF ActiveRow
    <3>3. QED
      BY <2>2, <3>2 DEF Crowds
  <2>3. QED
    BY <1>2, <2>1, <2>2 DEF Crowds, CatalogueComes
<1>8. table'["prices"] = table["prices"]
  BY <1>1 DEF cdata
<1>9. /\ ActiveFor(s, area)' = ActiveFor(s, area) /\ Excess(s, area)' = Excess(s, area)
      /\ \A x : Crowds(x, s, area)' <=> Crowds(x, s, area)
  BY <1>8, PricesKept
<1>10. ~Crowds(req[q], s, area)'
  BY <1>4, <1>7, <1>9 DEF Crowds
<1>11. \A p \in Requests : p # q => (Crowds(req[p], s, area)' <=> Crowds(req[p], s, area))
  BY <1>4, <1>8 DEF Crowds, ActiveFor, There
<1>12. Crowding(s, area)' => Crowding(s, area)
  BY <1>10, <1>11 DEF Crowding
<1>13. Busy = {} => ~Crowding(s, area)
  BY <1>3 DEF Busy, InFlight, Crowding, Crowds, Holding
<1>14. PICK BB, oo, kk : BB = Busy' /\ oo = overlaps' /\ kk = CrowdDue(s, area)'
  OBVIOUS
<1>15. kk <= CrowdDue(s, area) /\ (Busy = {} => kk = 0) /\ kk \in {0, 1}
       /\ CrowdDue(s, area) \in {0, 1}
  BY <1>12, <1>13, <1>14 DEF CrowdDue
<1>16. Joins(Busy, overlaps, CrowdDue(s, area), oo, kk)
  BY <1>5, <1>14, <1>15 DEF Joins
<1>17. IsFiniteSet(Busy) /\ Excess(s, area) \in Nat
  BY PricesFinite DEF BusyInv
<1>18. BB \in SUBSET (Busy \cup {q}) /\ oo \in Nat
  BY <1>5, <1>6, <1>14
<1>19. Owes(BB, oo, Excess(s, area), kk)
  BY <1>5, <1>15, <1>16, <1>17, <1>18, OwesMore DEF CrowdInv
<1>20. QED
  BY <1>9, <1>14, <1>19 DEF CrowdInv

\* What the step of q, in flight, changes of the crowd and who is in flight.
LEMMA CrowdPaid ==
  ASSUME CatalogueInv, CatalogueInv', BusyInv, NEW q \in Requests, InFlight(q),
         overlaps' = overlaps, \A p \in Requests : p # q => req'[p] = req[p],
         NEW s, NEW area, CrowdInv(s, area),
         NEW BB, NEW nn, NEW kk, BB = Busy', nn = Excess(s, area)', kk = CrowdDue(s, area)',
         Pays(q, BB, Excess(s, area), CrowdDue(s, area), nn, kk)
  PROVE  CrowdInv(s, area)'
<1>1. /\ overlaps \in Nat /\ Excess(s, area) \in Nat /\ nn \in Nat
      /\ kk \in {0, 1} /\ CrowdDue(s, area) \in {0, 1} /\ IsFiniteSet(Busy)
  BY PricesFinite, PricesFiniteNext DEF CatalogueInv, ServerTyped, BusyInv
<1>2. q \in Busy /\ BB \in SUBSET Busy
  BY DEF Busy, InFlight
<1>3. Owes(BB, overlaps, nn, kk)
  BY <1>1, <1>2, OwesStill DEF CrowdInv
<1>4. QED
  BY <1>3 DEF CrowdInv

\* The last step of q leaves no more than there were, or the first one, or one
\* more that was expected.
LEMMA CrowdEnds ==
  ASSUME CatalogueInv, CatalogueInv', BusyInv, NEW q \in Requests, InFlight(q),
         overlaps' = overlaps, \A p \in Requests : p # q => req'[p] = req[p],
         NEW s, NEW area, CrowdInv(s, area), req'[q] = Idle, NEW x,
         ActiveFor(s, area)' \subseteq ActiveFor(s, area) \cup {x},
         \/ ActiveFor(s, area)' \subseteq ActiveFor(s, area)
         \/ ActiveFor(s, area) = {}
         \/ Crowds(req[q], s, area)
  PROVE  CrowdInv(s, area)'
<1>1. PICK A, AA, BB, nn, kk : /\ A = ActiveFor(s, area) /\ AA = ActiveFor(s, area)' /\ BB = Busy'
                               /\ nn = Excess(s, area)' /\ kk = CrowdDue(s, area)'
  OBVIOUS
<1>2. /\ IsFiniteSet(A) /\ Cardinality(A) \in Nat
      /\ Excess(s, area) = IF A = {} THEN 0 ELSE Cardinality(A) - 1
  BY <1>1, PricesFinite DEF Excess
<1>3. nn = IF AA = {} THEN 0 ELSE Cardinality(AA) - 1
  BY <1>1 DEF Excess
<1>4. q \notin BB
  BY <1>1 DEF Busy, InFlight, Idle
<1>5. CASE AA \subseteq A
  <2>1. Cardinality(AA) \in Nat /\ Cardinality(AA) <= Cardinality(A)
    BY <1>2, <1>5, Fewer
  <2>2. nn <= Excess(s, area)
    BY <1>2, <1>3, <1>5, <2>1, FS_EmptySet
  <2>3. Pays(q, BB, Excess(s, area), CrowdDue(s, area), nn, kk)
    BY <1>4, <2>2 DEF Pays
  <2>4. QED
    BY <1>1, <2>3, CrowdPaid
<1>6. CASE A = {}
  <2>1. Cardinality(A) = 0
    BY <1>6, FS_EmptySet
  <2>2. Cardinality(AA) \in Nat /\ Cardinality(AA) <= Cardinality(A) + 1
    BY <1>1, <1>2, OneMore
  <2>3. nn <= Excess(s, area)
    BY <1>2, <1>3, <1>6, <2>1, <2>2
  <2>4. Pays(q, BB, Excess(s, area), CrowdDue(s, area), nn, kk)
    BY <1>4, <2>3 DEF Pays
  <2>5. QED
    BY <1>1, <2>4, CrowdPaid
<1>7. CASE Crowds(req[q], s, area)
  <2>1. Cardinality(AA) \in Nat /\ Cardinality(AA) <= Cardinality(A) + 1
    BY <1>1, <1>2, OneMore
  <2>2. A # {} /\ CrowdDue(s, area) = 1
    BY <1>1, <1>7 DEF Crowds, Crowding, CrowdDue
  <2>3. nn <= Excess(s, area) + 1
    <3>1. A # {} => Cardinality(A) # 0
      BY <1>2, FS_EmptySet
    <3>2. QED
      BY <1>2, <1>3, <2>1, <2>2, <3>1
  <2>4. Pays(q, BB, Excess(s, area), CrowdDue(s, area), nn, kk)
    BY <1>4, <2>2, <2>3 DEF Pays
  <2>5. QED
    BY <1>1, <2>4, CrowdPaid
<1>8. QED
  BY <1>1, <1>5, <1>6, <1>7

\* A step that goes on adds no price, and expects none that was not expected.
LEMMA CrowdGoesOn ==
  ASSUME CatalogueInv, CatalogueInv', BusyInv, NEW q \in Requests, InFlight(q),
         overlaps' = overlaps, \A p \in Requests : p # q => req'[p] = req[p],
         NEW s, NEW area, CrowdInv(s, area), table'["prices"] = table["prices"],
         NEW r, req'[q] = r, Crowds(r, s, area) => Crowds(req[q], s, area)
  PROVE  CrowdInv(s, area)'
<1>1. PICK BB, nn, kk : BB = Busy' /\ nn = Excess(s, area)' /\ kk = CrowdDue(s, area)'
  OBVIOUS
<1>2. nn = Excess(s, area)
  BY <1>1, PricesKept
<1>3. \A p \in Requests : p # q => (Crowds(req[p], s, area)' <=> Crowds(req[p], s, area))
  BY DEF Crowds, ActiveFor, There
<1>4. Crowds(req[q], s, area)' <=> Crowds(r, s, area)
  BY DEF Crowds, ActiveFor, There
<1>5. Crowding(s, area)' => Crowding(s, area)
  BY <1>3, <1>4 DEF Crowding
<1>6. kk <= CrowdDue(s, area) /\ Excess(s, area) \in Nat
  BY <1>1, <1>5, PricesFinite DEF CrowdDue
<1>7. Pays(q, BB, Excess(s, area), CrowdDue(s, area), nn, kk)
  BY <1>2, <1>6 DEF Pays
<1>8. QED
  BY <1>1, <1>7, CrowdPaid

\* Price i is row now: it is active for s and area, or is not.
LEMMA PriceStored ==
  ASSUME CatalogueInv, CatalogueInv', NEW i, NEW row, NEW s, NEW area,
         table' = [table EXCEPT !["prices"] = With(@, i, row)]
  PROVE  /\ row = ActiveRow(s, area) => ActiveFor(s, area)' \subseteq ActiveFor(s, area) \cup {i}
         /\ row # ActiveRow(s, area) => ActiveFor(s, area)' \subseteq ActiveFor(s, area)
<1>1. "prices" \in Tables /\ table = [u \in Tables |-> table[u]]
  BY TablesAre DEF CatalogueInv, CatalogueRows
<1>2. PICK f, g : f = table["prices"] /\ g = table'["prices"]
  OBVIOUS
<1>3. g = With(f, i, row)
  BY <1>1, <1>2
<1>4. DOMAIN g = DOMAIN f \cup {i} /\ g[i] = row /\ \A j \in DOMAIN f \ {i} : g[j] = f[j]
  BY <1>3 DEF With
<1>5. ActiveFor(s, area) = {p \in DOMAIN f : f[p] = ActiveRow(s, area)}
  BY <1>2 DEF ActiveFor, ActiveRow, There
<1>6. ActiveFor(s, area)' = {p \in DOMAIN g : g[p] = ActiveRow(s, area)}
  BY <1>2 DEF ActiveFor, ActiveRow, There
<1>7. QED
  BY <1>4, <1>5, <1>6

\* A row of another table is written.
LEMMA OtherStored ==
  ASSUME CatalogueInv, NEW t \in Tables, t # "prices", NEW i, NEW row, NEW s, NEW area,
         table' = [table EXCEPT ![t] = With(@, i, row)] \/ table' = table
  PROVE  table'["prices"] = table["prices"] /\ ActiveFor(s, area)' = ActiveFor(s, area)
<1>1. table'["prices"] = table["prices"]
  BY TablesAre DEF CatalogueInv, CatalogueRows
<1>2. QED
  BY <1>1, PricesKept

\* A row of t is written, which adds to the crowd what was expected, or nothing.
Expected(q, t, i, row, s, area) ==
  \/ t # "prices" \/ i \in ActiveFor(s, area) \/ row # ActiveRow(s, area)
  \/ ActiveFor(s, area) = {} \/ Crowds(req[q], s, area)

LEMMA CrowdSaves ==
  ASSUME CatalogueInv, CatalogueInv', BusyInv, NEW q \in Requests, InFlight(q),
         overlaps' = overlaps, \A p \in Requests : p # q => req'[p] = req[p],
         NEW s, NEW area, CrowdInv(s, area), req'[q] = Idle,
         NEW t \in Tables, NEW i, NEW row,
         table' = [table EXCEPT ![t] = With(@, i, row)] \/ table' = table,
         Expected(q, t, i, row, s, area)
  PROVE  CrowdInv(s, area)'
<1>1. CASE table' = table \/ t # "prices"
  <2>1. ActiveFor(s, area)' = ActiveFor(s, area)
    BY <1>1, OtherStored, PricesKept
  <2>2. PICK A, AA : A = ActiveFor(s, area) /\ AA = ActiveFor(s, area)'
    OBVIOUS
  <2>3. AA \subseteq A /\ AA \subseteq A \cup {i}
    BY <2>1, <2>2
  <2>4. QED
    BY <2>2, <2>3, CrowdEnds
<1>2. CASE t = "prices" /\ table' = [table EXCEPT ![t] = With(@, i, row)]
  <2>1. /\ row = ActiveRow(s, area) => ActiveFor(s, area)' \subseteq ActiveFor(s, area) \cup {i}
        /\ row # ActiveRow(s, area) => ActiveFor(s, area)' \subseteq ActiveFor(s, area)
    BY <1>2, PriceStored
  <2>2. CASE row # ActiveRow(s, area) \/ i \in ActiveFor(s, area)
    <3>1. ActiveFor(s, area)' \subseteq ActiveFor(s, area)
      BY <2>1, <2>2
    <3>2. ActiveFor(s, area)' \subseteq ActiveFor(s, area) \cup {i}
      BY <3>1
    <3>3. QED
      BY <3>1, <3>2, CrowdEnds
  <2>3. CASE row = ActiveRow(s, area) /\ (ActiveFor(s, area) = {} \/ Crowds(req[q], s, area))
    BY <2>1, <2>3, CrowdEnds
  <2>4. QED
    BY <1>2, <2>2, <2>3 DEF Expected
<1>3. QED
  BY <1>1, <1>2

\* A last step that leaves the prices alone.
LEMMA CrowdLeaves ==
  ASSUME CatalogueInv, CatalogueInv', BusyInv, NEW q \in Requests, InFlight(q),
         overlaps' = overlaps, \A p \in Requests : p # q => req'[p] = req[p],
         NEW s, NEW area, CrowdInv(s, area), req'[q] = Idle,
         table'["prices"] = table["prices"]
  PROVE  CrowdInv(s, area)'
<1>1. PICK A, AA : A = ActiveFor(s, area) /\ AA = ActiveFor(s, area)'
  OBVIOUS
<1>2. AA = A
  BY <1>1, PricesKept
<1>3. AA \subseteq A /\ AA \subseteq A \cup {q}
  BY <1>2
<1>4. QED
  BY <1>1, <1>3, CrowdEnds

LEMMA CrowdInsert ==
  ASSUME CatalogueInv, CatalogueInv', BusyInv, NEW q \in Requests, Insert(q),
         NEW s, NEW area, CrowdInv(s, area)
  PROVE  CrowdInv(s, area)'
<1>1. InFlight(q) /\ overlaps' = overlaps /\ \A p \in Requests : p # q => req'[p] = req[p]
  BY CatalogueGoesHome DEF CatalogueStatement
<1>2. PICK t, row, i : t = req[q].t /\ row = req[q].row /\ i = issued[t] + 1
  OBVIOUS
<1>3. /\ req[q] \in CatalogueStep /\ req[q].at = "insert" /\ req'[q] = Idle
      /\ table' = [table EXCEPT ![t] = With(@, i, row)] \/ table' = table
  BY <1>2 DEF CatalogueInv, ServerTyped, Insert, At, Answer, Go
<1>4. t \in Tables
  BY <1>2, <1>3, CatalogueMemory
<1>5. Expected(q, t, i, row, s, area)
  BY <1>2, <1>3 DEF Crowds, Expected
<1>6. QED
  BY <1>1, <1>3, <1>4, <1>5, CrowdSaves

LEMMA CrowdUpdate ==
  ASSUME CatalogueInv, CatalogueInv', BusyInv, NEW q \in Requests, Update(q),
         NEW s, NEW area, CrowdInv(s, area)
  PROVE  CrowdInv(s, area)'
<1>1. InFlight(q) /\ overlaps' = overlaps /\ \A p \in Requests : p # q => req'[p] = req[p]
  BY CatalogueGoesHome DEF CatalogueStatement
<1>2. PICK t, i : t = req[q].t /\ i = req[q].id
  OBVIOUS
<1>3. PICK row : row = Overlaid(req[q], table[t][i])
  OBVIOUS
<1>4. /\ Go(q, Idle) /\ req[q].at = "update"
      /\ table' = IF i \in There(t) /\ Refers(t, row)
                  THEN [table EXCEPT ![t] = With(@, i, row)] ELSE table
  BY <1>2, <1>3, UpdateIs
<1>5. t \in Tables /\ req'[q] = Idle
  BY <1>2, <1>4, HoldsRow DEF Holding, Go, CatalogueInv, ServerTyped
<1>6. CASE i \in There(t)
  <2>1. Expected(q, t, i, row, s, area)
    BY <1>2, <1>3, <1>4, <1>6 DEF Crowds, Expected, Holding
  <2>2. table' = [table EXCEPT ![t] = With(@, i, row)] \/ table' = table
    BY <1>4
  <2>3. QED
    BY <1>1, <1>5, <2>1, <2>2, CrowdSaves
<1>7. CASE i \notin There(t)
  <2>1. table' = table
    BY <1>4, <1>7
  <2>2. QED
    BY <1>1, <1>5, <2>1, CrowdLeaves
<1>8. QED
  BY <1>6, <1>7

LEMMA CrowdInsertAgain ==
  ASSUME CatalogueInv, CatalogueInv', BusyInv, NEW q \in Requests, InsertAgain(q),
         NEW s, NEW area, CrowdInv(s, area)
  PROVE  CrowdInv(s, area)'
<1>1. InFlight(q) /\ overlaps' = overlaps /\ \A p \in Requests : p # q => req'[p] = req[p]
  BY CatalogueGoesHome DEF CatalogueStatement
<1>2. PICK t, i, row : t = req[q].t /\ i = req[q].id /\ row = req[q].mem
  OBVIOUS
<1>3. /\ Go(q, Idle) /\ req[q].at = "insertAgain"
      /\ table' = [table EXCEPT ![t] = With(@, i, row)] \/ table' = table
  BY <1>2 DEF InsertAgain, Answer, At
<1>4. t \in Tables /\ req'[q] = Idle
  BY <1>2, <1>3, HoldsRow DEF Holding, Go, CatalogueInv, ServerTyped
<1>5. Expected(q, t, i, row, s, area)
  BY <1>2, <1>3 DEF Crowds, Expected, Holding
<1>6. QED
  BY <1>1, <1>3, <1>4, <1>5, CrowdSaves

LEMMA CrowdDelete ==
  ASSUME CatalogueInv, CatalogueInv', BusyInv, NEW q \in Requests, Delete(q),
         NEW s, NEW area, CrowdInv(s, area)
  PROVE  CrowdInv(s, area)'
<1>1. InFlight(q) /\ overlaps' = overlaps /\ \A p \in Requests : p # q => req'[p] = req[p]
  BY CatalogueGoesHome DEF CatalogueStatement
<1>2. PICK t, i : t = req[q].t /\ i = req[q].id
  OBVIOUS
<1>3. /\ req[q].at = "delete" /\ req'[q] = Idle
      /\ table' = Deleted(t, i) \/ table' = table
  BY <1>2 DEF Delete, At, Answer, Go, CatalogueInv, ServerTyped
<1>4. t \in Tables /\ t # "prices"
  BY <1>2, <1>3, HoldsRow DEF Holding, CatalogueInv, Rowed
<1>5. CASE table' = Deleted(t, i)
  <2>1. PICK u : u = "prices"
    OBVIOUS
  <2>2. u \in Tables /\ u # "popular" /\ Lost(t, i, u) = {}
    BY <1>4, <2>1, TablesAre DEF Lost
  <2>3. /\ There(u)' = There(u) \ Lost(t, i, u)
        /\ \A j \in There(u)' : table'[u][j] = table[u][j]
    BY <1>4, <1>5, <2>2, DeletedOthers
  <2>4. table[u] \in [There(u) -> Shape[u]] /\ table'[u] \in [There(u)' -> Shape[u]]
    BY <1>4, <1>5, <2>2, DeletedOthers DEF CatalogueInv, CatalogueRows
  <2>5. table'["prices"] = table["prices"]
    <3>1. There(u)' = There(u)
      BY <2>2, <2>3
    <3>2. QED
      BY <2>1, <2>3, <2>4, <3>1
  <2>6. QED
    BY <1>1, <1>3, <2>5, CrowdLeaves
<1>6. CASE table' = table
  BY <1>1, <1>3, <1>6, CrowdLeaves
<1>7. QED
  BY <1>3, <1>5, <1>6

LEMMA CrowdSelect ==
  ASSUME CatalogueInv, CatalogueInv', BusyInv, NEW q \in Requests, Select(q),
         NEW s, NEW area, CrowdInv(s, area)
  PROVE  CrowdInv(s, area)'
<1>1. InFlight(q) /\ overlaps' = overlaps /\ \A p \in Requests : p # q => req'[p] = req[p]
  BY CatalogueGoesHome DEF CatalogueStatement
<1>2. PICK t, i, mem : t = req[q].t /\ i = req[q].id /\ mem = req[q].mem
  OBVIOUS
<1>3. /\ table'["prices"] = table["prices"] /\ req[q].at = "select"
      /\ req \in [Requests -> CatalogueStep]
  BY DEF Select, At, cdata, CatalogueInv, ServerTyped
<1>4. t \in Tables /\ mem \in Shape[t]
  BY <1>2, <1>3, HoldsRow DEF Holding
<1>5. CASE Go(q, Idle)
  <2>1. req'[q] = Idle
    BY <1>3, <1>5 DEF Go
  <2>2. QED
    BY <1>1, <1>3, <2>1, CrowdLeaves
<1>6. CASE Go(q, [at |-> "insertAgain", t |-> t, id |-> i, mem |-> mem])
  <2>1. PICK r : r = [at |-> "insertAgain", t |-> t, id |-> i, mem |-> mem]
    OBVIOUS
  <2>2. req'[q] = r
    BY <1>3, <1>6, <2>1 DEF Go
  <2>3. r.at = "insertAgain" /\ r.t = t /\ r.id = i /\ r.mem = mem
    BY <2>1
  <2>4. Crowds(r, s, area) => Crowds(req[q], s, area)
    BY <1>2, <1>3, <2>3 DEF Crowds, Holding
  <2>5. QED
    BY <1>1, <1>3, <2>2, <2>4, CrowdGoesOn
<1>7. CASE i \in There(t) /\ Go(q, [at |-> "update", t |-> t, id |-> i, mem |-> mem,
                                    dirty |-> Dirty(t, i, mem)])
  <2>1. PICK d : d = Dirty(t, i, mem)
    OBVIOUS
  <2>2. PICK r : r = [at |-> "update", t |-> t, id |-> i, mem |-> mem, dirty |-> d]
    OBVIOUS
  <2>3. req'[q] = r
    BY <1>3, <1>7, <2>1, <2>2 DEF Go
  <2>4. r.at = "update" /\ r.t = t /\ r.id = i /\ r.mem = mem /\ r.dirty = d
    BY <2>2
  <2>5. t = "prices" => Overlaid(r, table["prices"][i]) = mem
    <3>1. SUFFICES ASSUME t = "prices" PROVE Overlaid(r, table["prices"][i]) = mem
      OBVIOUS
    <3>2. PICK row, n : row = table["prices"][i] /\ n = Overlaid(r, row)
      OBVIOUS
    <3>3. mem \in Price /\ d = {c \in DOMAIN mem : row[c] # mem[c]}
      BY <1>4, <2>1, <3>1, <3>2, ShapesAre DEF Dirty
    <3>4. n = [c \in DOMAIN mem |-> IF c \in d THEN mem[c] ELSE row[c]]
      BY <2>4, <3>2 DEF Overlaid
    <3>5. \A c \in DOMAIN mem : n[c] = mem[c]
      BY <3>3, <3>4
    <3>6. mem = [c \in DOMAIN mem |-> mem[c]]
      BY <3>3 DEF Price
    <3>7. n = mem
      BY <3>4, <3>5, <3>6
    <3>8. QED
      BY <3>2, <3>7
  <2>6. Crowds(r, s, area) => Crowds(req[q], s, area)
    BY <1>2, <1>3, <2>4, <2>5 DEF Crowds, Holding
  <2>7. QED
    BY <1>1, <1>3, <2>3, <2>6, CrowdGoesOn
<1>8. QED
  BY <1>2, <1>5, <1>6, <1>7, SelectIs

LEMMA CrowdCheck ==
  ASSUME CatalogueInv, CatalogueInv', BusyInv, NEW q \in Requests, CheckClash(q),
         NEW s, NEW area, CrowdInv(s, area)
  PROVE  CrowdInv(s, area)'
<1>1. InFlight(q) /\ overlaps' = overlaps /\ \A p \in Requests : p # q => req'[p] = req[p]
  BY CatalogueGoesHome DEF CatalogueStatement
<1>2. /\ table'["prices"] = table["prices"] /\ req[q].at = "clash" /\ req[q].t = "prices"
      /\ req \in [Requests -> CatalogueStep]
  BY CheckClashIs DEF cdata, CatalogueInv, ServerTyped
<1>3. CASE Go(q, Idle)
  <2>1. req'[q] = Idle
    BY <1>2, <1>3 DEF Go
  <2>2. QED
    BY <1>1, <1>2, <2>1, CrowdLeaves
<1>4. CASE /\ ~Clash(req[q].id, req[q].mem)
           /\ Go(q, [at |-> "select", t |-> "prices", id |-> req[q].id, mem |-> req[q].mem])
  <2>1. PICK r : r = [at |-> "select", t |-> "prices", id |-> req[q].id, mem |-> req[q].mem]
    OBVIOUS
  <2>2. req'[q] = r /\ r.at = "select" /\ r.id = req[q].id /\ r.mem = req[q].mem
    BY <1>2, <1>4, <2>1 DEF Go
  <2>3. ~Crowds(r, s, area)
    <3>1. SUFFICES ASSUME r.mem = ActiveRow(s, area), r.id \notin ActiveFor(s, area)
                   PROVE  ActiveFor(s, area) = {}
      BY <2>2 DEF Crowds
    <3>2. r.mem.service = s /\ r.mem.area = area
      BY <3>1 DEF ActiveRow
    <3>3. \A p \in There("prices") : p \notin ActiveFor(s, area)
      BY <1>4, <2>2, <3>1, <3>2, ActiveIs DEF Clash
    <3>4. QED
      BY <3>3 DEF ActiveFor
  <2>4. QED
    BY <1>1, <1>2, <2>2, <2>3, CrowdGoesOn
<1>5. QED
  BY <1>3, <1>4, CheckClashIs

LEMMA CrowdCount ==
  ASSUME CatalogueInv, CatalogueInv', BusyInv, NEW q \in Requests, CountUses(q),
         NEW s, NEW area, CrowdInv(s, area)
  PROVE  CrowdInv(s, area)'
<1>1. InFlight(q) /\ overlaps' = overlaps /\ \A p \in Requests : p # q => req'[p] = req[p]
  BY CatalogueGoesHome DEF CatalogueStatement
<1>2. PICK t, i, mem : t = req[q].t /\ i = req[q].id /\ mem = req[q].mem
  OBVIOUS
<1>3. /\ table'["prices"] = table["prices"] /\ t \in {"categories", "services"}
      /\ req \in [Requests -> CatalogueStep]
      /\ \/ Go(q, Idle)
         \/ Go(q, [at |-> "select", t |-> t, id |-> i, mem |-> [mem EXCEPT !.active = FALSE]])
         \/ Go(q, [at |-> "deletePrices", t |-> t, id |-> i, mem |-> mem])
         \/ Go(q, [at |-> "delete", t |-> t, id |-> i, mem |-> mem])
  <2>1. UNCHANGED cdata
    BY <1>2, CountUsesIs
  <2>2. req \in [Requests -> CatalogueStep] /\ table'["prices"] = table["prices"]
    BY <2>1 DEF cdata, CatalogueInv, ServerTyped
  <2>3. QED
    BY <1>2, <2>2, CountUsesIs
<1>4. CASE Go(q, Idle)
  <2>1. req'[q] = Idle
    BY <1>3, <1>4 DEF Go
  <2>2. QED
    BY <1>1, <1>3, <2>1, CrowdLeaves
<1>5. ASSUME NEW at, NEW m, Go(q, [at |-> at, t |-> t, id |-> i, mem |-> m])
      PROVE  CrowdInv(s, area)'
  <2>1. PICK r : r = [at |-> at, t |-> t, id |-> i, mem |-> m]
    OBVIOUS
  <2>2. req'[q] = r /\ ~Crowds(r, s, area)
    BY <1>3, <1>5, <2>1 DEF Go, Crowds
  <2>3. QED
    BY <1>1, <1>3, <2>2, CrowdGoesOn
<1>6. QED
  BY <1>3, <1>4, <1>5

\* The prices of a service go all at once.
LEMMA CrowdDeletePrices ==
  ASSUME CatalogueInv, CatalogueInv', BusyInv, NEW q \in Requests, DeletePrices(q),
         NEW s, NEW area, CrowdInv(s, area)
  PROVE  CrowdInv(s, area)'
<1>1. InFlight(q) /\ overlaps' = overlaps /\ \A p \in Requests : p # q => req'[p] = req[p]
  BY CatalogueGoesHome DEF CatalogueStatement
<1>2. /\ Shortened
      /\ There("prices")' = {p \in There("prices") : table["prices"][p].service # req[q].id}
  BY DeletePricesShortens
<1>3. \A p \in There("prices")' : p \in There("prices") /\ table'["prices"][p] = table["prices"][p]
  BY <1>2, TablesAre DEF Shortened
<1>4. req'[q].t = "services"
  <2>1. PICK r : r = [at |-> "delete", t |-> "services", id |-> req[q].id, mem |-> req[q].mem]
    OBVIOUS
  <2>2. Go(q, r) /\ r.t = "services" /\ req \in [Requests -> CatalogueStep]
    BY <2>1, DeletePricesIs DEF CatalogueInv, ServerTyped
  <2>3. QED
    BY <2>2 DEF Go
<1>5. PICK A, AA, BB, nn, kk : /\ A = ActiveFor(s, area) /\ AA = ActiveFor(s, area)' /\ BB = Busy'
                               /\ nn = Excess(s, area)' /\ kk = CrowdDue(s, area)'
  OBVIOUS
<1>6. AA = A \/ AA = {}
  <2>1. A = {p \in There("prices") : table["prices"][p] = ActiveRow(s, area)}
    BY <1>5 DEF ActiveFor, ActiveRow
  <2>2. AA = {p \in There("prices")' : table'["prices"][p] = ActiveRow(s, area)}
    BY <1>5 DEF ActiveFor, ActiveRow
  <2>3. \A p : p \in AA <=> p \in A /\ table["prices"][p].service # req[q].id
    BY <1>2, <1>3, <2>1, <2>2
  <2>4. \A p \in A : table["prices"][p].service = s
    BY <2>1 DEF ActiveRow
  <2>5. CASE s = req[q].id
    BY <2>3, <2>4, <2>5
  <2>6. CASE s # req[q].id
    <3>1. \A p : p \in AA <=> p \in A
      BY <2>3, <2>4, <2>6
    <3>2. QED
      BY <3>1
  <2>7. QED
    BY <2>5, <2>6
<1>7. /\ IsFiniteSet(A) /\ Cardinality(A) \in Nat /\ Excess(s, area) \in Nat
      /\ Excess(s, area) = IF A = {} THEN 0 ELSE Cardinality(A) - 1
      /\ nn = IF AA = {} THEN 0 ELSE Cardinality(AA) - 1
  BY <1>5, PricesFinite DEF Excess
<1>8. nn <= Excess(s, area)
  BY <1>6, <1>7
<1>9. ASSUME NEW p \in Requests, p # q, Crowds(req[p], s, area)' PROVE Crowds(req[p], s, area)
  <2>1. PICK r : r = req[p]
    OBVIOUS
  <2>2. req'[p] = r
    BY <1>1, <1>9, <2>1
  <2>3. Crowds(r, s, area)'
    BY <1>9, <2>2 DEF Crowds
  <2>4. AA # {} /\ AA = A
    BY <1>5, <1>6, <2>3 DEF Crowds
  <2>5. /\ r.at \in {"insert"} \cup Holding /\ r.t = "prices"
        /\ \/ r.at = "insert" /\ r.row = ActiveRow(s, area)
           \/ r.at \in {"select", "insertAgain"} /\ r.id \notin AA /\ r.mem = ActiveRow(s, area)
           \/ /\ r.at = "update" /\ r.id \in There("prices")' \ AA
              /\ Overlaid(r, table'["prices"][r.id]) = ActiveRow(s, area)
    BY <1>5, <2>3 DEF Crowds
  <2>6. Crowds(r, s, area)
    BY <1>3, <1>5, <2>4, <2>5 DEF Crowds
  <2>7. QED
    BY <2>1, <2>6
<1>10. ~Crowds(req[q], s, area)'
  BY <1>4 DEF Crowds
<1>11. Crowding(s, area)' => Crowding(s, area)
  BY <1>9, <1>10 DEF Crowding
<1>12. kk <= CrowdDue(s, area)
  BY <1>5, <1>11 DEF CrowdDue
<1>13. Pays(q, BB, Excess(s, area), CrowdDue(s, area), nn, kk)
  BY <1>8, <1>12 DEF Pays
<1>14. QED
  BY <1>1, <1>5, <1>13, CrowdPaid

LEMMA CrowdGo ==
  ASSUME CatalogueInv, CatalogueInv', BusyInv, NEW q \in Requests,
         CatalogueStatement(q) \/ CatalogueCrash(q), NEW s, NEW area, CrowdInv(s, area)
  PROVE  CrowdInv(s, area)'
<1>1. CASE InsertItem(q) \/ CatalogueCrash(q)
  <2>1. InFlight(q) /\ overlaps' = overlaps /\ \A p \in Requests : p # q => req'[p] = req[p]
    BY CatalogueGoesHome
  <2>2. req'[q] = Idle /\ table'["prices"] = table["prices"]
    BY <1>1 DEF InsertItem, CatalogueCrash, Answer, Go, Die, cdata, CatalogueInv, ServerTyped
  <2>3. QED
    BY <2>1, <2>2, CrowdLeaves
<1>2. QED
  BY <1>1, CrowdInsert, CrowdSelect, CrowdUpdate, CrowdInsertAgain, CrowdDelete, CrowdCheck,
     CrowdCount, CrowdDeletePrices DEF CatalogueStatement

LEMMA CatalogueBusyKept ==
  ASSUME CatalogueInv, BusyInv, [CatalogueNext]_cvars
  PROVE  BusyInv'
<1>1. CASE UNCHANGED cvars
  BY <1>1 DEF BusyInv, Busy, InFlight, cvars, server
<1>2. ASSUME NEW q \in Requests, CatalogueArrives(q) PROVE BusyInv'
  BY <1>2, CatalogueArrived, StartBusy DEF CatalogueInv
<1>3. ASSUME NEW q \in Requests, CatalogueStatement(q) \/ CatalogueCrash(q) PROVE BusyInv'
  BY <1>3, CatalogueGoesHome, StepBusy DEF CatalogueInv, ServerTyped
<1>4. QED
  BY <1>1, <1>2, <1>3, CatalogueStepIs

CrowdsInv == \A s \in Nat : \A area \in PriceArea \cup {NoId} : CrowdInv(s, area)

LEMMA CrowdsStep ==
  ASSUME CatalogueInv, CatalogueInv', BusyInv, CrowdsInv, [CatalogueNext]_cvars
  PROVE  CrowdsInv'
<1>1. CASE UNCHANGED cvars
  <2>1. UNCHANGED <<req, overlaps, table>>
    BY <1>1 DEF cvars, cdata, server
  <2>2. Busy' = Busy
    BY <2>1 DEF Busy, InFlight
  <2>3. ASSUME NEW s \in Nat, NEW area \in PriceArea \cup {NoId} PROVE CrowdInv(s, area)'
    <3>1. /\ Excess(s, area)' = Excess(s, area)
          /\ \A r : Crowds(r, s, area)' <=> Crowds(r, s, area)
      BY <2>1, PricesKept
    <3>2. Crowding(s, area)' <=> Crowding(s, area)
      BY <2>1 DEF Crowding, Crowds, ActiveFor, There
    <3>3. CrowdDue(s, area)' = CrowdDue(s, area)
      BY <3>2 DEF CrowdDue
    <3>4. CrowdInv(s, area)
      BY DEF CrowdsInv
    <3>5. QED
      BY <2>1, <2>2, <3>1, <3>3, <3>4 DEF CrowdInv
  <2>4. QED
    BY <2>3 DEF CrowdsInv
<1>2. ASSUME NEW q \in Requests,
             CatalogueArrives(q) \/ CatalogueStatement(q) \/ CatalogueCrash(q)
      PROVE  CrowdsInv'
  <2>1. ASSUME NEW s \in Nat, NEW area \in PriceArea \cup {NoId} PROVE CrowdInv(s, area)'
    <3>1. CrowdInv(s, area)
      BY DEF CrowdsInv
    <3>2. QED
      BY <1>2, <3>1, CrowdBegins, CrowdGo
  <2>2. QED
    BY <2>1 DEF CrowdsInv
<1>3. QED
  BY <1>1, <1>2, CatalogueStepIs

\* A service has one active price for an area, and each overlap lets one more
\* through at most, for any number of prices and requests.
THEOREM PricesAlwaysOne == CatalogueSpec => []OneActivePrice
<1> DEFINE Inv == CatalogueInv /\ BusyInv /\ CrowdsInv
<1>1. CatalogueInit => Inv
  <2> SUFFICES ASSUME CatalogueInit PROVE Inv
    OBVIOUS
  <2>1. overlaps = 0 /\ (\A q \in Requests : ~InFlight(q)) /\ There("prices") = {}
    BY TablesAre DEF CatalogueInit, ServerInit, InFlight, Idle, There
  <2>2. Busy = {} /\ \A s, area : ActiveFor(s, area) = {}
    BY <2>1 DEF Busy, ActiveFor
  <2>3. Cardinality({}) = 0 /\ IsFiniteSet({})
    BY FS_EmptySet
  <2>4. BusyInv
    BY <2>1, <2>2, <2>3 DEF BusyInv
  <2>5. CrowdsInv
    BY <2>1, <2>2 DEF CrowdsInv, CrowdInv, Owes, Excess
  <2>6. QED
    BY <2>4, <2>5, CatalogueTypeInit
<1>2. Inv /\ [CatalogueNext]_cvars => Inv'
  BY CatalogueTypeStep, CatalogueBusyKept, CrowdsStep
<1>3. Inv => OneActivePrice
  <2> SUFFICES ASSUME Inv, NEW s \in There("services"), NEW area \in PriceArea \cup {NoId}
               PROVE  Cardinality(ActiveFor(s, area)) <= 1 + overlaps
    BY DEF OneActivePrice
  <2>1. s \in Nat /\ overlaps \in Nat
    BY TablesAre DEF CatalogueInv, CatalogueRows, ServerTyped
  <2>2. CrowdInv(s, area)
    BY <2>1 DEF CrowdsInv
  <2>3. /\ Excess(s, area) \in Nat /\ CrowdDue(s, area) \in {0, 1} /\ IsFiniteSet(Busy)
        /\ Cardinality(ActiveFor(s, area)) \in Nat
    BY PricesFinite DEF BusyInv
  <2>4. Excess(s, area) <= overlaps
    BY <2>1, <2>2, <2>3, OwesEnough DEF CrowdInv
  <2>5. ActiveFor(s, area) = {} => Cardinality(ActiveFor(s, area)) = 0
    BY FS_EmptySet
  <2>6. QED
    BY <2>1, <2>3, <2>4, <2>5 DEF Excess
<1> HIDE DEF Inv
<1>4. QED
  BY <1>1, <1>2, <1>3, PTL DEF CatalogueSpec

-----------------------------------------------------------------------------
(* Service areas: types.                                                   *)

AreaRows ==
  /\ areaIds \in Nat /\ listings \in Nat
  /\ Known \subseteq 1..areaIds /\ areas \in [Known -> Area]
  /\ listed \in [Known -> SUBSET (1..listings)] /\ referred \subseteq Known

\* The steps at which a request has a whole area in memory, and those about an
\* area that was there.
AreaSaving  == {"insert", "select", "insertAgain", "uses", "delete"}
Zoning == (AreaSaving \ {"insert"}) \cup {"update", "clear", "list"}

\* Ids a request has in memory have been given out; the zone it has come to is
\* a built-in one.
AreaPlaced(r) ==
  /\ r.at \in Zoning => r.id \in 1..areaIds
  /\ r.at \in AreaSaving => r.rows \subseteq 1..listings
  /\ r.at = "update" => r.again \subseteq 1..listings
  /\ r.at = "seed" => r.n \in DOMAIN Codes

AreasInv ==
  /\ AreaRows /\ ServerTyped(AreaStep)
  /\ \A q \in Requests : AreaPlaced(req[q])

\* A request that arrives has loaded what is there, the listing included.
AreaComes(r) ==
  /\ r \in AreaStep /\ AreaPlaced(r)
  /\ r.at \in {"insert", "select", "uses", "seed"}
  /\ r.at = "insert" => r.new # "unchanged"
  /\ r.at \in {"select", "uses"} => r.id \in Known /\ r.n = 0 /\ r.rows = listed[r.id]

AreaArrives(q) == AreaRoutes(q) \/ BootZones(q)

AreaGoes(q) ==
  \/ InsertArea(q) \/ SelectArea(q) \/ WriteArea(q) \/ InsertAreaAgain(q) \/ ClearListing(q)
  \/ InsertListing(q) \/ SeedZone(q) \/ CountReferences(q) \/ DeleteArea(q) \/ AreaCrash(q)

LEMMA AreaStepIs ==
  AreasNext <=> ReferToArea \/ \E q \in Requests : AreaArrives(q) \/ AreaGoes(q)
BY DEF AreasNext, AreaArrives, AreaGoes

LEMMA CodesAre ==
  ASSUME AreasAssumption
  PROVE  /\ DOMAIN Codes = 1..Len(Codes) /\ Len(Codes) \in Nat /\ 1 \in DOMAIN Codes
         /\ \A n \in DOMAIN Codes : Codes[n] \in Code
<1>1. Codes \in Seq({Codes[n] : n \in DOMAIN Codes}) /\ Codes # <<>>
  BY DEF AreasAssumption
<1>2. DOMAIN Codes = 1..Len(Codes) /\ Len(Codes) \in Nat /\ 1 \in DOMAIN Codes
  BY <1>1
<1>3. QED
  BY <1>2 DEF Code

LEMMA PutIs ==
  ASSUME NEW f, NEW i, NEW x
  PROVE  /\ DOMAIN Put(f, i, x) = DOMAIN f \cup {i} /\ Put(f, i, x)[i] = x
         /\ \A j \in DOMAIN f : j # i => Put(f, i, x)[j] = f[j]
         /\ Put(f, i, x) \in [DOMAIN f \cup {i} -> {x} \cup {f[j] : j \in DOMAIN f}]
BY DEF Put

LEMMA AreaSaveTyped ==
  ASSUME NEW at \in AreaSaving, NEW i \in Nat, NEW row \in Area, NEW rows \in SUBSET Nat,
         NEW new \in Localities, NEW n \in Nat
  PROVE  /\ AreaSave(at, i, row, rows, new, n) \in AreaStep
         /\ AreaSave(at, i, row, rows, new, n).at = at
         /\ AreaSave(at, i, row, rows, new, n).id = i
         /\ AreaSave(at, i, row, rows, new, n).mem = row
         /\ AreaSave(at, i, row, rows, new, n).rows = rows
         /\ AreaSave(at, i, row, rows, new, n).new = new
         /\ AreaSave(at, i, row, rows, new, n).n = n
BY DEF AreaSave, AreaStep, AreaSaving

LEMMA AreaMemory ==
  ASSUME NEW r \in AreaStep
  PROVE  /\ r.at \in AreaSaving =>
              /\ r = AreaSave(r.at, r.id, r.mem, r.rows, r.new, r.n)
              /\ r.id \in Nat /\ r.mem \in Area /\ r.rows \in SUBSET Nat /\ r.new \in Localities
              /\ r.n \in Nat
         /\ r.at = "update" =>
              /\ r.id \in Nat /\ r.mem \in Area /\ r.orphans \in SUBSET Nat
              /\ r.again \in SUBSET Nat /\ r.new \in Localities /\ r.n \in Nat
              /\ r.dirty \subseteq {"code", "active"}
         /\ r.at \in {"clear", "list"} =>
              r.id \in Nat /\ r.n \in Nat
         /\ r.at = "clear" => r.new \in Localities
         /\ r.at = "seed" => r.n \in Nat
BY DEF AreaStep, AreaSaving, AreaSave, Idle

LEMMA PlacedStays ==
  ASSUME NEW r, AreaPlaced(r), AreaRows, AreaRows', areaIds' >= areaIds, listings' >= listings
  PROVE  AreaPlaced(r)'
<1>1. \A x \in 1..areaIds : x \in 1..areaIds'
  BY DEF AreaRows
<1>2. \A x \in 1..listings : x \in 1..listings'
  BY DEF AreaRows
<1>3. QED
  BY <1>1, <1>2 DEF AreaPlaced

LEMMA IdlePlaced == Idle \in AreaStep /\ AreaPlaced(Idle) /\ AreaPlaced(Idle)'
BY DEF Idle, AreaStep, AreaPlaced, AreaSaving, Zoning

LEMMA AreaArrived ==
  ASSUME AreasInv, AreasAssumption, NEW q \in Requests, AreaArrives(q)
  PROVE  UNCHANGED adata /\ \E r : AreaComes(r) /\ Start(q, r)
<1>1. ASSUME NEW a \in Known
      PROVE  /\ a \in 1..areaIds /\ a \in Nat /\ areas[a] \in Area
             /\ listed[a] \subseteq 1..listings /\ listed[a] \in SUBSET Nat
  BY <1>1 DEF AreasInv, AreaRows
<1>2. CASE CreateArea(q)
  <2>1. PICK code \in Code, new \in {"none", "some"} :
          Start(q, AreaSave("insert", 0, [code |-> code, active |-> TRUE], {}, new, 0))
    BY <1>2 DEF CreateArea
  <2>2. [code |-> code, active |-> TRUE] \in Area
    BY <2>1 DEF Area
  <2>3. PICK r : r = AreaSave("insert", 0, [code |-> code, active |-> TRUE], {}, new, 0)
    OBVIOUS
  <2>4. r \in AreaStep /\ r.at = "insert" /\ r.rows = {} /\ r.new # "unchanged"
    BY <2>1, <2>2, <2>3 DEF AreaSave, AreaStep, Localities
  <2>5. AreaComes(r)
    BY <2>4 DEF AreaComes, AreaPlaced, Zoning
  <2>6. QED
    BY <1>2, <2>1, <2>3, <2>5 DEF CreateArea
<1>3. CASE UpdateArea(q)
  <2>1. PICK a \in Known, row \in Area, new \in Localities :
               Start(q, AreaSave("select", a, row, listed[a], new, 0))
    BY <1>3 DEF UpdateArea
  <2>2. PICK r : r = AreaSave("select", a, row, listed[a], new, 0)
    OBVIOUS
  <2>3. "select" \in AreaSaving
    BY DEF AreaSaving
  <2>4. r \in AreaStep /\ r.at = "select" /\ r.id = a /\ r.n = 0 /\ r.rows = listed[a]
    BY <1>1, <2>2, <2>3, AreaSaveTyped
  <2>5. AreaComes(r)
    BY <1>1, <2>4 DEF AreaComes, AreaPlaced
  <2>6. QED
    BY <1>3, <2>1, <2>2, <2>5 DEF UpdateArea
<1>4. CASE RemoveArea(q)
  <2>1. PICK a \in Known : Start(q, AreaSave("uses", a, areas[a], listed[a], "unchanged", 0))
    BY <1>4 DEF RemoveArea
  <2>2. PICK r : r = AreaSave("uses", a, areas[a], listed[a], "unchanged", 0)
    OBVIOUS
  <2>3. "uses" \in AreaSaving
    BY DEF AreaSaving
  <2>4. r \in AreaStep /\ r.at = "uses" /\ r.id = a /\ r.n = 0 /\ r.rows = listed[a]
    BY <1>1, <2>2, <2>3 DEF AreaSave, AreaStep, Localities
  <2>5. AreaComes(r)
    BY <1>1, <2>4 DEF AreaComes, AreaPlaced
  <2>6. QED
    BY <1>4, <2>1, <2>2, <2>5 DEF RemoveArea
<1>5. CASE BootZones(q)
  <2>1. PICK r : r = [at |-> "seed", n |-> 1]
    OBVIOUS
  <2>2. r \in AreaStep /\ r.at = "seed" /\ r.n = 1
    BY <2>1 DEF AreaStep
  <2>3. AreaComes(r)
    BY <2>2, CodesAre DEF AreaComes, AreaPlaced, AreaSaving, Zoning
  <2>4. QED
    BY <1>5, <2>1, <2>3 DEF BootZones
<1>6. QED
  BY <1>2, <1>3, <1>4, <1>5 DEF AreaArrives, AreaRoutes

\* What the request goes on with is all there is to show of the requests.
LEMMA AreaWent ==
  ASSUME AreasInv, NEW q \in Requests, NEW r \in AreaStep, Go(q, r), AreaRows',
         areaIds' >= areaIds, listings' >= listings, AreaPlaced(r)'
  PROVE  AreasInv'
<1>1. ServerTyped(AreaStep)'
  BY GoTyped DEF AreasInv
<1>2. \A p \in Requests : req'[p] = IF p = q THEN r ELSE req[p]
  BY DEF Go, AreasInv, ServerTyped
<1>3. ASSUME NEW p \in Requests PROVE AreaPlaced(req[p])'
  <2>1. CASE p = q
    BY <1>2, <2>1 DEF AreaPlaced
  <2>2. CASE p # q
    <3>1. PICK s : s = req[p]
      OBVIOUS
    <3>2. AreaPlaced(s) /\ req'[p] = s
      BY <1>2, <2>2, <3>1 DEF AreasInv
    <3>3. AreaPlaced(s)'
      BY <3>2, PlacedStays DEF AreasInv
    <3>4. QED
      BY <3>2, <3>3 DEF AreaPlaced
  <2>3. QED
    BY <2>1, <2>2
<1>4. QED
  BY <1>1, <1>3 DEF AreasInv

LEMMA AreaAnswered ==
  ASSUME AreasInv, NEW q \in Requests, Answer(q), AreaRows', areaIds' >= areaIds,
         listings' >= listings
  PROVE  AreasInv'
BY AreaWent, IdlePlaced DEF Answer

LEMMA AfterSaveIs ==
  ASSUME NEW q \in Requests, NEW i, AfterSave(q, i)
  PROVE  \/ /\ req[q].new # "unchanged"
            /\ Go(q, [at |-> "clear", id |-> i, new |-> req[q].new, n |-> req[q].n])
         \/ req[q].new = "unchanged" /\ Answer(q)
BY DEF AfterSave

LEMMA AfterSaveTyped ==
  ASSUME AreasInv, NEW q \in Requests, req[q].at \in AreaSaving \cup {"update"},
         NEW i \in 1..areaIds',
         AfterSave(q, i), AreaRows', areaIds' >= areaIds, listings' >= listings
  PROVE  AreasInv'
<1>1. CASE Answer(q)
  BY <1>1, AreaAnswered
<1>2. CASE Go(q, [at |-> "clear", id |-> i, new |-> req[q].new, n |-> req[q].n])
  <2>1. PICK r : r = [at |-> "clear", id |-> i, new |-> req[q].new, n |-> req[q].n]
    OBVIOUS
  <2>2. req[q] \in AreaStep
    BY DEF AreasInv, ServerTyped
  <2>3. req[q].n \in Nat /\ req[q].new \in Localities /\ i \in Nat
    BY <2>2, AreaMemory
  <2>4. r \in AreaStep /\ r.at = "clear" /\ r.id = i
    BY <2>1, <2>3 DEF AreaStep
  <2>5. AreaPlaced(r)'
    BY <2>4 DEF AreaPlaced, AreaSaving
  <2>6. QED
    BY <1>2, <2>1, <2>4, <2>5, AreaWent
<1>3. QED
  BY <1>1, <1>2, AfterSaveIs

\* An area written, with the listings it then has.
LEMMA PutRows ==
  ASSUME AreasInv, NEW i \in 1..areaIds', areaIds' \in {areaIds, areaIds + 1}, NEW row \in Area,
         areas' = Put(areas, i, row), NEW rows \in SUBSET (1..listings),
         listed' = Put(listed, i, rows), UNCHANGED <<listings, referred>>
  PROVE  AreaRows' /\ areaIds' >= areaIds /\ listings' >= listings
<1>1. /\ areaIds \in Nat /\ listings \in Nat
      /\ Known \subseteq 1..areaIds /\ referred \subseteq Known
      /\ areas \in [Known -> Area] /\ listed \in [Known -> SUBSET (1..listings)]
  BY DEF AreasInv, AreaRows
<1>2. DOMAIN areas = Known /\ DOMAIN listed = Known /\ Known' = DOMAIN areas'
  BY <1>1 DEF Known
<1>3. Known' = Known \cup {i}
  BY <1>2, PutIs
<1>4. areas' \in [Known' -> Area]
  <2>1. /\ areas' \in [Known \cup {i} -> {row} \cup {areas[j] : j \in Known}]
    BY <1>2, PutIs
  <2>2. {row} \cup {areas[j] : j \in Known} \subseteq Area
    BY <1>1
  <2>3. QED
    BY <1>3, <2>1, <2>2
<1>5. listed' \in [Known' -> SUBSET (1..listings)]
  <2>1. /\ listed' \in [Known \cup {i} -> {rows} \cup {listed[j] : j \in Known}]
    BY <1>2, PutIs
  <2>2. {rows} \cup {listed[j] : j \in Known} \subseteq SUBSET (1..listings)
    BY <1>1
  <2>3. QED
    BY <1>3, <2>1, <2>2
<1>6. areaIds' \in Nat /\ Known' \subseteq 1..areaIds'
  BY <1>1, <1>3
<1>7. QED
  BY <1>1, <1>3, <1>4, <1>5, <1>6 DEF AreaRows

LEMMA AreaRowsSame ==
  ASSUME AreasInv, UNCHANGED adata
  PROVE  AreaRows' /\ areaIds' >= areaIds /\ listings' >= listings
BY DEF AreasInv, AreaRows, adata, Known

LEMMA AreaInMemory ==
  ASSUME AreasInv, NEW q \in Requests
  PROVE  req[q] \in AreaStep /\ AreaPlaced(req[q])
BY DEF AreasInv, ServerTyped

LEMMA InsertAreaIs ==
  ASSUME NEW q \in Requests, InsertArea(q)
  PROVE  /\ req[q].at = "insert" /\ UNCHANGED <<listings, referred, beside, bare>>
         /\ \/ /\ areaIds' = areaIds + 1 /\ areas' = Put(areas, areaIds', req[q].mem)
               /\ listed' = Put(listed, areaIds', {}) /\ AfterSave(q, areaIds')
            \/ Answer(q) /\ UNCHANGED adata
BY DEF InsertArea, At, adata

LEMMA InsertAreaTyped ==
  ASSUME AreasInv, NEW q \in Requests, InsertArea(q)
  PROVE  AreasInv'
<1>1. CASE Answer(q) /\ UNCHANGED adata
  BY <1>1, AreaRowsSame, AreaAnswered
<1>2. CASE /\ areaIds' = areaIds + 1 /\ areas' = Put(areas, areaIds', req[q].mem)
           /\ listed' = Put(listed, areaIds', {}) /\ AfterSave(q, areaIds')
  <2>1. PICK i, row : i = areaIds' /\ row = req[q].mem
    OBVIOUS
  <2>2. req[q].at \in AreaSaving
    BY InsertAreaIs DEF AreaSaving
  <2>3. row \in Area
    BY <2>1, <2>2, AreaInMemory, AreaMemory
  <2>4. i \in 1..areaIds' /\ areaIds' \in {areaIds, areaIds + 1}
    BY <1>2, <2>1 DEF AreasInv, AreaRows
  <2>5. AreaRows' /\ areaIds' >= areaIds /\ listings' >= listings
    BY <1>2, <2>1, <2>3, <2>4, InsertAreaIs, PutRows
  <2>6. QED
    BY <1>2, <2>1, <2>2, <2>4, <2>5, AfterSaveTyped
<1>3. QED
  BY <1>1, <1>2, InsertAreaIs

AreaDiff(r)    == {c \in {"code", "active"} : areas[r.id][c] # r.mem[c]}
AreaOrphans(r) == IF r.n = 0 THEN listed[r.id] \ r.rows ELSE {}
AreaAgain(r)   == IF r.n = 0 THEN r.rows \ listed[r.id] ELSE {}
AreaUpdate(r)  ==
  [at |-> "update", id |-> r.id, mem |-> r.mem, dirty |-> AreaDiff(r), orphans |-> AreaOrphans(r),
   again |-> AreaAgain(r), new |-> r.new, n |-> r.n]

LEMMA SelectAreaIs ==
  ASSUME NEW q \in Requests, SelectArea(q)
  PROVE  /\ req[q].at = "select" /\ UNCHANGED adata
         /\ \/ req[q].id \notin Known /\ Go(q, [req[q] EXCEPT !.at = "insertAgain"])
            \/ req[q].id \in Known /\ AfterSave(q, req[q].id)
            \/ req[q].id \in Known /\ Go(q, AreaUpdate(req[q]))
BY DEF SelectArea, At, AreaUpdate, AreaDiff, AreaOrphans, AreaAgain

\* A save goes on with the step that its look at the row leads to.
LEMMA GoesOnAs ==
  ASSUME NEW r \in AreaStep, r.at \in AreaSaving, NEW at \in AreaSaving
  PROVE  /\ [r EXCEPT !.at = at] = AreaSave(at, r.id, r.mem, r.rows, r.new, r.n)
         /\ [r EXCEPT !.at = at] \in AreaStep
<1>1. /\ r = AreaSave(r.at, r.id, r.mem, r.rows, r.new, r.n)
      /\ r.id \in Nat /\ r.mem \in Area /\ r.rows \in SUBSET Nat /\ r.new \in Localities
      /\ r.n \in Nat
  BY AreaMemory
<1>2. PICK a, i, m, rows, p, n : /\ a = r.at /\ i = r.id /\ m = r.mem /\ rows = r.rows
                                 /\ p = r.new /\ n = r.n
  OBVIOUS
<1>3. r = [at |-> a, id |-> i, mem |-> m, rows |-> rows, new |-> p, n |-> n]
  BY <1>1, <1>2 DEF AreaSave
<1>4. [r EXCEPT !.at = at] = [at |-> at, id |-> i, mem |-> m, rows |-> rows, new |-> p, n |-> n]
  BY <1>3
<1>5. QED
  BY <1>1, <1>2, <1>4, AreaSaveTyped DEF AreaSave

LEMMA PlacedAs ==
  ASSUME NEW r \in AreaStep, r.at \in AreaSaving, AreaPlaced(r), NEW at \in AreaSaving,
         r.id \in 1..areaIds
  PROVE  AreaPlaced([r EXCEPT !.at = at])
<1>1. PICK s : s = [r EXCEPT !.at = at]
  OBVIOUS
<1>2. /\ r.id \in Nat /\ r.mem \in Area /\ r.rows \in SUBSET Nat /\ r.new \in Localities
      /\ r.n \in Nat
  BY AreaMemory
<1>3. s.at = at /\ s.id = r.id /\ s.rows = r.rows
  BY <1>1, <1>2, GoesOnAs, AreaSaveTyped
<1>4. AreaPlaced(s)
  BY <1>3 DEF AreaPlaced, AreaSaving
<1>5. QED
  BY <1>1, <1>4

LEMMA SelectAreaTyped ==
  ASSUME AreasInv, NEW q \in Requests, SelectArea(q)
  PROVE  AreasInv'
<1>1. PICK r : r = req[q]
  OBVIOUS
<1>2. r \in AreaStep /\ AreaPlaced(r) /\ r.at = "select" /\ UNCHANGED adata
  BY <1>1, AreaInMemory, SelectAreaIs
<1>3. AreaRows' /\ areaIds' >= areaIds /\ listings' >= listings /\ areaIds' = areaIds
  BY <1>2, AreaRowsSame DEF adata
<1>4. r.at \in AreaSaving /\ r.at \in Zoning /\ "insertAgain" \in AreaSaving
  BY <1>2 DEF AreaSaving, Zoning
<1>5. r.id \in 1..areaIds /\ r.rows \subseteq 1..listings
  BY <1>2, <1>4 DEF AreaPlaced
<1>6. CASE Go(q, [r EXCEPT !.at = "insertAgain"])
  <2>1. PICK s : s = [r EXCEPT !.at = "insertAgain"]
    OBVIOUS
  <2>2. s \in AreaStep /\ AreaPlaced(s)
    BY <1>2, <1>4, <1>5, <2>1, GoesOnAs, PlacedAs
  <2>3. AreaPlaced(s)'
    BY <1>2, <1>3, <2>2, PlacedStays DEF AreasInv
  <2>4. QED
    BY <1>3, <1>6, <2>1, <2>2, <2>3, AreaWent
<1>7. CASE AfterSave(q, r.id)
  BY <1>1, <1>3, <1>4, <1>5, <1>7, AfterSaveTyped
<1>8. CASE r.id \in Known /\ Go(q, AreaUpdate(r))
  <2>1. PICK s : s = AreaUpdate(r)
    OBVIOUS
  <2>2. /\ r.id \in Nat /\ r.mem \in Area /\ r.rows \in SUBSET Nat /\ r.new \in Localities
        /\ r.n \in Nat
    BY <1>2, <1>4, AreaMemory
  <2>3. listed[r.id] \subseteq 1..listings
    <3>1. listed \in [Known -> SUBSET (1..listings)] /\ r.id \in Known
      BY <1>8 DEF AreasInv, AreaRows
    <3>2. QED
      BY <3>1
  <2>4. AreaDiff(r) \in SUBSET {"code", "active"}
    BY DEF AreaDiff
  <2>5. /\ AreaOrphans(r) \in SUBSET Nat
        /\ AreaAgain(r) \in SUBSET Nat /\ AreaAgain(r) \subseteq 1..listings
    BY <1>5, <2>3 DEF AreaOrphans, AreaAgain
  <2>6. s \in AreaStep
    BY <2>1, <2>2, <2>4, <2>5 DEF AreaUpdate, AreaStep
  <2>7. s.at = "update" /\ s.id = r.id /\ s.again = AreaAgain(r)
    BY <2>1 DEF AreaUpdate
  <2>8. AreaPlaced(s)
    BY <1>5, <2>5, <2>7 DEF AreaPlaced, AreaSaving
  <2>9. AreaPlaced(s)'
    BY <1>3, <2>8, PlacedStays DEF AreasInv
  <2>10. QED
    BY <1>3, <1>8, <2>1, <2>6, <2>9, AreaWent
<1>9. QED
  BY <1>1, <1>6, <1>7, <1>8, SelectAreaIs

AreaRow(r) == [c \in {"code", "active"} |-> IF c \in r.dirty THEN r.mem[c] ELSE areas[r.id][c]]

LEMMA AreaRowTyped ==
  ASSUME AreasInv, NEW r, r.mem \in Area, r.id \in Known
  PROVE  AreaRow(r) \in Area
<1>1. areas[r.id] \in Area
  BY DEF AreasInv, AreaRows
<1>2. QED
  BY <1>1 DEF AreaRow, Area

LEMMA WriteAreaIs ==
  ASSUME NEW q \in Requests, WriteArea(q)
  PROVE  /\ req[q].at = "update" /\ UNCHANGED <<areaIds, listings, referred, beside, bare>>
         /\ \/ UNCHANGED adata /\ (Answer(q) \/ AfterSave(q, req[q].id))
            \/ /\ req[q].id \in Known /\ AfterSave(q, req[q].id)
               /\ areas' = Put(areas, req[q].id, AreaRow(req[q]))
               /\ listed' = [listed EXCEPT ![req[q].id] = @ \cup req[q].again]
BY DEF WriteArea, At, AreaRow, adata

LEMMA WriteAreaTyped ==
  ASSUME AreasInv, NEW q \in Requests, WriteArea(q)
  PROVE  AreasInv'
<1>1. PICK r : r = req[q]
  OBVIOUS
<1>2. /\ r \in AreaStep /\ AreaPlaced(r) /\ r.at = "update"
      /\ UNCHANGED <<areaIds, listings, referred>>
  BY <1>1, AreaInMemory, WriteAreaIs
<1>3. r.id \in 1..areaIds /\ r.again \subseteq 1..listings /\ r.id \in 1..areaIds'
  BY <1>2 DEF AreaPlaced, Zoning
<1>4. CASE UNCHANGED adata /\ (Answer(q) \/ AfterSave(q, r.id))
  <2>1. AreaRows' /\ areaIds' >= areaIds /\ listings' >= listings
    BY <1>4, AreaRowsSame
  <2>2. QED
    BY <1>1, <1>2, <1>3, <1>4, <2>1, AreaAnswered, AfterSaveTyped
<1>5. CASE /\ r.id \in Known /\ AfterSave(q, r.id)
           /\ areas' = Put(areas, r.id, AreaRow(r))
           /\ listed' = [listed EXCEPT ![r.id] = @ \cup r.again]
  <2>1. PICK i, row, rows : i = r.id /\ row = AreaRow(r) /\ rows = listed[r.id] \cup r.again
    OBVIOUS
  <2>2. r.mem \in Area
    BY <1>2, AreaMemory
  <2>3. row \in Area /\ listed[r.id] \subseteq 1..listings
    BY <1>5, <2>1, <2>2, AreaRowTyped DEF AreasInv, AreaRows
  <2>4. i \in 1..areaIds' /\ areaIds' \in {areaIds, areaIds + 1} /\ rows \in SUBSET (1..listings)
    BY <1>2, <1>3, <2>1, <2>3
  <2>5. listed' = Put(listed, i, rows)
    <3>1. DOMAIN listed = Known
      BY DEF AreasInv, AreaRows
    <3>2. i \in DOMAIN listed /\ DOMAIN listed \cup {i} = DOMAIN listed
      BY <1>5, <2>1, <3>1
    <3>3. QED
      BY <1>5, <2>1, <3>2 DEF Put
  <2>6. AreaRows' /\ areaIds' >= areaIds /\ listings' >= listings
    BY <1>2, <1>5, <2>1, <2>3, <2>4, <2>5, PutRows
  <2>7. QED
    BY <1>1, <1>2, <1>5, <2>1, <2>4, <2>6, AfterSaveTyped
<1>6. QED
  BY <1>1, <1>4, <1>5, WriteAreaIs

LEMMA InsertAreaAgainIs ==
  ASSUME NEW q \in Requests, InsertAreaAgain(q)
  PROVE  /\ req[q].at = "insertAgain" /\ UNCHANGED <<areaIds, listings, referred, beside>>
         /\ \/ Answer(q) /\ UNCHANGED adata
            \/ /\ areas' = Put(areas, req[q].id, req[q].mem)
               /\ listed' = Put(listed, req[q].id, req[q].rows) /\ AfterSave(q, req[q].id)
               /\ bare' = IF req[q].rows = {} THEN bare \cup {req[q].id} ELSE bare
BY DEF InsertAreaAgain, At, adata

LEMMA InsertAreaAgainTyped ==
  ASSUME AreasInv, NEW q \in Requests, InsertAreaAgain(q)
  PROVE  AreasInv'
<1>1. PICK r : r = req[q]
  OBVIOUS
<1>2. /\ r \in AreaStep /\ AreaPlaced(r) /\ r.at = "insertAgain"
      /\ UNCHANGED <<areaIds, listings, referred>>
  BY <1>1, AreaInMemory, InsertAreaAgainIs
<1>3. r.at \in AreaSaving /\ r.at \in Zoning
  BY <1>2 DEF AreaSaving, Zoning
<1>4. r.id \in 1..areaIds' /\ r.rows \in SUBSET (1..listings) /\ r.mem \in Area
  BY <1>2, <1>3, AreaMemory DEF AreaPlaced
<1>5. CASE Answer(q) /\ UNCHANGED adata
  BY <1>5, AreaRowsSame, AreaAnswered
<1>6. CASE /\ areas' = Put(areas, r.id, r.mem) /\ listed' = Put(listed, r.id, r.rows)
           /\ AfterSave(q, r.id)
  <2>1. AreaRows' /\ areaIds' >= areaIds /\ listings' >= listings
    BY <1>2, <1>4, <1>6, PutRows
  <2>2. QED
    BY <1>1, <1>3, <1>4, <1>6, <2>1, AfterSaveTyped
<1>7. QED
  BY <1>1, <1>5, <1>6, InsertAreaAgainIs

\* The DELETE, and what there is to insert: nothing, or a listing.
LEMMA ClearListingIs ==
  ASSUME NEW q \in Requests, ClearListing(q)
  PROVE  /\ req[q].at = "clear" /\ UNCHANGED <<areas, areaIds, listings, referred, beside>>
         /\ listed' = [a \in Known |-> IF a = req[q].id THEN {} ELSE listed[a]]
         /\ \/ Answer(q) /\ bare' = bare \cup {req[q].id}
            \/ /\ Go(q, [at |-> "list", id |-> req[q].id, beside |-> Shared(q), n |-> req[q].n])
               /\ bare' = bare
BY DEF ClearListing, Cleared, At

LEMMA ClearListingTyped ==
  ASSUME AreasInv, NEW q \in Requests, ClearListing(q)
  PROVE  AreasInv'
<1>1. PICK r : r = req[q]
  OBVIOUS
<1>2. /\ r \in AreaStep /\ AreaPlaced(r) /\ r.at = "clear"
      /\ UNCHANGED <<areas, areaIds, listings, referred>>
      /\ listed' = [a \in Known |-> IF a = r.id THEN {} ELSE listed[a]]
  BY <1>1, AreaInMemory, ClearListingIs
<1>3. r.id \in 1..areaIds /\ r.id \in Nat /\ r.n \in Nat
  BY <1>2, AreaMemory DEF AreaPlaced, Zoning
<1>4. AreaRows' /\ areaIds' >= areaIds /\ listings' >= listings
  BY <1>2 DEF AreasInv, AreaRows, Known
<1>5. CASE Answer(q)
  BY <1>4, <1>5, AreaAnswered
<1>6. CASE Go(q, [at |-> "list", id |-> r.id, beside |-> Shared(q), n |-> r.n])
  <2>1. PICK s : s = [at |-> "list", id |-> r.id, beside |-> Shared(q), n |-> r.n]
    OBVIOUS
  <2>2. Shared(q) \in BOOLEAN
    BY DEF Shared
  <2>3. s \in AreaStep /\ s.at = "list" /\ s.id = r.id
    BY <1>3, <2>1, <2>2 DEF AreaStep
  <2>4. AreaPlaced(s)'
    BY <1>2, <1>3, <2>3 DEF AreaPlaced, AreaSaving
  <2>5. QED
    BY <1>4, <1>6, <2>1, <2>3, <2>4, AreaWent
<1>7. QED
  BY <1>1, <1>5, <1>6, ClearListingIs

LEMMA InsertListingIs ==
  ASSUME NEW q \in Requests, InsertListing(q)
  PROVE  /\ req[q].at = "list" /\ UNCHANGED <<areas, areaIds, referred>>
         /\ \/ req[q].id \notin Known /\ Answer(q) /\ UNCHANGED adata
            \/ /\ req[q].id \in Known /\ listings' = listings + 1
               /\ listed' = [listed EXCEPT ![req[q].id] = @ \cup {listings + 1}]
               /\ beside' = beside \cup (IF req[q].beside THEN {listings + 1} ELSE {})
               /\ bare' = bare \ {req[q].id}
               /\ \/ Answer(q)
                  \/ /\ req[q].n \in 1..Len(Codes) - 1
                     /\ Go(q, [at |-> "seed", n |-> req[q].n + 1])
BY DEF InsertListing, At, adata

LEMMA SeedComes ==
  ASSUME AreasAssumption, NEW n \in DOMAIN Codes
  PROVE  /\ [at |-> "seed", n |-> n] \in AreaStep
         /\ AreaPlaced([at |-> "seed", n |-> n]) /\ AreaPlaced([at |-> "seed", n |-> n])'
<1>1. PICK r : r = [at |-> "seed", n |-> n]
  OBVIOUS
<1>2. r.at = "seed" /\ r.n = n /\ n \in Nat
  BY <1>1, CodesAre
<1>3. r \in AreaStep
  BY <1>1, <1>2 DEF AreaStep
<1>4. AreaPlaced(r) /\ AreaPlaced(r)'
  BY <1>2 DEF AreaPlaced, AreaSaving, Zoning
<1>5. QED
  BY <1>1, <1>3, <1>4

LEMMA InsertListingTyped ==
  ASSUME AreasInv, AreasAssumption, NEW q \in Requests, InsertListing(q)
  PROVE  AreasInv'
<1>1. PICK r : r = req[q]
  OBVIOUS
<1>2. CASE Answer(q) /\ UNCHANGED adata
  BY <1>2, AreaRowsSame, AreaAnswered
<1>3. CASE /\ r.id \in Known /\ listings' = listings + 1 /\ UNCHANGED <<areas, areaIds, referred>>
           /\ listed' = [listed EXCEPT ![r.id] = @ \cup {listings + 1}]
           /\ \/ Answer(q)
              \/ r.n \in 1..Len(Codes) - 1 /\ Go(q, [at |-> "seed", n |-> r.n + 1])
  <2>1. AreaRows' /\ areaIds' >= areaIds /\ listings' >= listings
    <3>1. /\ areaIds \in Nat /\ listings \in Nat /\ Known' = Known
          /\ listed \in [Known -> SUBSET (1..listings)]
      BY <1>3 DEF AreasInv, AreaRows, Known
    <3>2. listings' \in Nat /\ listings + 1 \in 1..listings' /\ 1..listings \subseteq 1..listings'
          /\ listings' >= listings
      BY <1>3, <3>1
    <3>3. listed' \in [Known -> SUBSET (1..listings')]
      <4>1. SUBSET (1..listings) \subseteq SUBSET (1..listings')
        BY <3>2
      <4>2. listed[r.id] \cup {listings + 1} \in SUBSET (1..listings')
        BY <1>3, <3>1, <3>2
      <4>3. listed \in [Known -> SUBSET (1..listings')]
        BY <3>1, <4>1
      <4>4. PICK S, x : S = SUBSET (1..listings') /\ x = listed[r.id] \cup {listings + 1}
        OBVIOUS
      <4>5. [listed EXCEPT ![r.id] = x] \in [Known -> S]
        BY <1>3, <4>2, <4>3, <4>4
      <4>6. listed' = [listed EXCEPT ![r.id] = x]
        BY <1>3, <4>4
      <4>7. QED
        BY <4>4, <4>5, <4>6
    <3>4. QED
      BY <1>3, <3>1, <3>2, <3>3 DEF AreasInv, AreaRows
  <2>2. CASE Answer(q)
    BY <2>1, <2>2, AreaAnswered
  <2>3. CASE r.n \in 1..Len(Codes) - 1 /\ Go(q, [at |-> "seed", n |-> r.n + 1])
    <3>1. r.n + 1 \in DOMAIN Codes
      BY <2>3, CodesAre
    <3>2. QED
      BY <2>1, <2>3, <3>1, SeedComes, AreaWent
  <2>4. QED
    BY <1>3, <2>2, <2>3
<1>4. QED
  BY <1>1, <1>2, <1>3, InsertListingIs

\* The zones that are there by their code are areas.
LEMMA SeedZoneIs ==
  ASSUME AreasInv, AreasAssumption, NEW q \in Requests, SeedZone(q)
  PROVE  /\ req[q].at = "seed" /\ UNCHANGED adata
         /\ \E s \in AreaStep :
              /\ Go(q, s) /\ AreaPlaced(s) /\ s.at \in {"insert", "select"} /\ s.new = "some"
              /\ s.at = "select" => s.id \in Known /\ s.n # 0 /\ s.rows = {}
<1>1. PICK r : r = req[q]
  OBVIOUS
<1>2. r.at = "seed" /\ UNCHANGED adata /\ r \in AreaStep /\ r.n \in DOMAIN Codes
  BY <1>1, AreaInMemory DEF SeedZone, At, AreaPlaced
<1>3. r.n \in Nat /\ r.n # 0 /\ Codes[r.n] \in Code /\ {"insert", "select"} \subseteq AreaSaving
  BY <1>2, CodesAre DEF AreaSaving
<1>4. CASE Go(q, AreaSave("insert", 0, [code |-> Codes[r.n], active |-> TRUE], {}, "some", r.n))
  <2>1. PICK row, s : /\ row = [code |-> Codes[r.n], active |-> TRUE]
                      /\ s = AreaSave("insert", 0, row, {}, "some", r.n)
    OBVIOUS
  <2>2. row \in Area
    BY <1>3, <2>1 DEF Area
  <2>3. s \in AreaStep /\ s.at = "insert" /\ s.rows = {} /\ s.new = "some"
    BY <1>3, <2>1, <2>2 DEF AreaSave, AreaStep, Localities
  <2>4. AreaPlaced(s)
    BY <2>3 DEF AreaPlaced, Zoning
  <2>5. QED
    BY <1>1, <1>2, <1>4, <2>1, <2>3, <2>4
<1>5. ASSUME NEW a \in Known, Go(q, AreaSave("select", a, areas[a], {}, "some", r.n))
      PROVE  \E s \in AreaStep :
               /\ Go(q, s) /\ AreaPlaced(s) /\ s.at \in {"insert", "select"} /\ s.new = "some"
               /\ s.at = "select" => s.id \in Known /\ s.n # 0 /\ s.rows = {}
  <2>1. a \in 1..areaIds /\ a \in Nat /\ areas[a] \in Area
    BY DEF AreasInv, AreaRows
  <2>2. PICK s : s = AreaSave("select", a, areas[a], {}, "some", r.n)
    OBVIOUS
  <2>3. s \in AreaStep /\ s.at = "select" /\ s.id = a /\ s.rows = {} /\ s.new = "some" /\ s.n = r.n
    BY <1>3, <2>1, <2>2 DEF AreaSave, AreaStep, Localities
  <2>4. AreaPlaced(s)
    BY <2>1, <2>3 DEF AreaPlaced
  <2>5. QED
    BY <1>3, <1>5, <2>2, <2>3, <2>4
<1>6. \/ Go(q, AreaSave("insert", 0, [code |-> Codes[r.n], active |-> TRUE], {}, "some", r.n))
      \/ \E a \in Known : Go(q, AreaSave("select", a, areas[a], {}, "some", r.n))
  BY <1>1 DEF SeedZone
<1>7. QED
  BY <1>1, <1>2, <1>4, <1>5, <1>6

LEMMA CountReferencesIs ==
  ASSUME AreasInv, NEW q \in Requests, CountReferences(q)
  PROVE  /\ req[q].at = "uses" /\ UNCHANGED adata
         /\ \/ Answer(q)
            \/ \E s \in AreaStep :
                 /\ Go(q, s) /\ AreaPlaced(s) /\ s.at \in {"delete", "select"}
                 /\ s.id = req[q].id /\ s.rows = req[q].rows /\ s.n = req[q].n
<1>1. PICK r : r = req[q]
  OBVIOUS
<1>2. r.at = "uses" /\ UNCHANGED adata /\ r \in AreaStep /\ AreaPlaced(r)
  BY <1>1, AreaInMemory DEF CountReferences, At
<1>3. /\ r.at \in AreaSaving /\ r.at \in Zoning
      /\ "delete" \in AreaSaving /\ "select" \in AreaSaving
  BY <1>2 DEF AreaSaving, Zoning
<1>4. /\ r = AreaSave(r.at, r.id, r.mem, r.rows, r.new, r.n)
      /\ r.id \in Nat /\ r.mem \in Area /\ r.rows \in SUBSET Nat /\ r.new \in Localities
      /\ r.n \in Nat
  BY <1>2, <1>3, AreaMemory
<1>5. r.id \in 1..areaIds /\ r.rows \subseteq 1..listings
  BY <1>2, <1>3 DEF AreaPlaced
<1>6. CASE Go(q, [r EXCEPT !.at = "delete"])
  <2>1. PICK s : s = [r EXCEPT !.at = "delete"]
    OBVIOUS
  <2>2. s \in AreaStep /\ AreaPlaced(s)
    BY <1>2, <1>3, <1>5, <2>1, GoesOnAs, PlacedAs
  <2>3. s = AreaSave("delete", r.id, r.mem, r.rows, r.new, r.n)
    BY <1>2, <1>3, <2>1, GoesOnAs
  <2>4. s.at = "delete" /\ s.id = r.id /\ s.rows = r.rows /\ s.n = r.n
    BY <1>3, <1>4, <2>3, AreaSaveTyped
  <2>5. QED
    BY <1>1, <1>2, <1>6, <2>1, <2>2, <2>4
<1>7. CASE Go(q, [r EXCEPT !.at = "select", !.mem.active = FALSE])
  <2>1. PICK m, s : m = [r.mem EXCEPT !.active = FALSE] /\ s = [r EXCEPT !.at = "select", !.mem = m]
    OBVIOUS
  <2>2. m \in Area
    BY <1>4, <2>1 DEF Area
  <2>3. s = AreaSave("select", r.id, m, r.rows, r.new, r.n)
    <3>1. PICK a, i, mm, rows, p, n : /\ a = r.at /\ i = r.id /\ mm = r.mem /\ rows = r.rows
                                      /\ p = r.new /\ n = r.n
      OBVIOUS
    <3>2. r = [at |-> a, id |-> i, mem |-> mm, rows |-> rows, new |-> p, n |-> n]
      BY <1>4, <3>1 DEF AreaSave
    <3>3. s = [at |-> "select", id |-> i, mem |-> m, rows |-> rows, new |-> p, n |-> n]
      BY <2>1, <3>2
    <3>4. QED
      BY <3>1, <3>3 DEF AreaSave
  <2>4. s \in AreaStep /\ s.at = "select" /\ s.id = r.id /\ s.rows = r.rows /\ s.n = r.n
    BY <1>3, <1>4, <2>2, <2>3, AreaSaveTyped
  <2>5. AreaPlaced(s)
    BY <1>5, <2>4 DEF AreaPlaced
  <2>6. Go(q, s)
    BY <1>7, <2>1
  <2>7. QED
    BY <1>1, <1>2, <2>4, <2>5, <2>6
<1>8. \/ Go(q, [r EXCEPT !.at = "delete"]) \/ Answer(q)
      \/ Go(q, [r EXCEPT !.at = "select", !.mem.active = FALSE])
  BY <1>1 DEF CountReferences
<1>9. QED
  BY <1>1, <1>2, <1>6, <1>7, <1>8

LEMMA LookTyped ==
  ASSUME AreasInv, AreasAssumption, NEW q \in Requests, SeedZone(q) \/ CountReferences(q)
  PROVE  AreasInv'
<1>1. UNCHANGED adata
  BY SeedZoneIs, CountReferencesIs
<1>2. AreaRows' /\ areaIds' >= areaIds /\ listings' >= listings
  BY <1>1, AreaRowsSame
<1>3. ASSUME NEW s \in AreaStep, Go(q, s), AreaPlaced(s) PROVE AreasInv'
  <2>1. AreaPlaced(s)'
    BY <1>2, <1>3, PlacedStays DEF AreasInv
  <2>2. QED
    BY <1>2, <1>3, <2>1, AreaWent
<1>4. QED
  BY <1>2, <1>3, SeedZoneIs, CountReferencesIs, AreaAnswered

LEMMA DeleteAreaIs ==
  ASSUME NEW q \in Requests, DeleteArea(q)
  PROVE  /\ req[q].at = "delete" /\ Answer(q) /\ UNCHANGED <<areaIds, listings, referred>>
         /\ \/ UNCHANGED adata
            \/ /\ req[q].id \notin referred
               /\ areas' = Drop(areas, req[q].id) /\ listed' = Drop(listed, req[q].id)
BY DEF DeleteArea, At, adata

LEMMA DeleteAreaTyped ==
  ASSUME AreasInv, NEW q \in Requests, DeleteArea(q)
  PROVE  AreasInv'
<1>1. CASE UNCHANGED adata
  BY <1>1, DeleteAreaIs, AreaRowsSame, AreaAnswered
<1>2. CASE /\ req[q].id \notin referred
           /\ areas' = Drop(areas, req[q].id) /\ listed' = Drop(listed, req[q].id)
  <2>1. PICK i : i = req[q].id
    OBVIOUS
  <2>2. /\ areas' = Drop(areas, i) /\ listed' = Drop(listed, i) /\ i \notin referred
        /\ UNCHANGED <<areaIds, listings, referred>>
    BY <1>2, <2>1, DeleteAreaIs
  <2>3. /\ areaIds \in Nat /\ listings \in Nat
        /\ Known \subseteq 1..areaIds /\ referred \subseteq Known
        /\ areas \in [Known -> Area] /\ listed \in [Known -> SUBSET (1..listings)]
        /\ DOMAIN areas = Known /\ DOMAIN listed = Known /\ Known' = DOMAIN areas'
    BY DEF AreasInv, AreaRows, Known
  <2>4. Known' = Known \ {i}
    BY <2>2, <2>3 DEF Drop
  <2>5. areas' \in [Known' -> Area] /\ listed' \in [Known' -> SUBSET (1..listings)]
    BY <2>2, <2>3, <2>4 DEF Drop
  <2>6. AreaRows' /\ areaIds' >= areaIds /\ listings' >= listings
    BY <2>2, <2>3, <2>4, <2>5 DEF AreaRows
  <2>7. QED
    BY <2>6, DeleteAreaIs, AreaAnswered
<1>3. QED
  BY <1>1, <1>2, DeleteAreaIs

LEMMA AreaCrashTyped ==
  ASSUME AreasInv, NEW q \in Requests, AreaCrash(q)
  PROVE  AreasInv'
<1>1. Die(q) /\ UNCHANGED <<areas, listed, areaIds, listings, referred>>
  BY DEF AreaCrash
<1>2. ServerTyped(AreaStep)'
  BY <1>1, IdlePlaced, DieTyped DEF AreasInv
<1>3. AreaRows' /\ areaIds' >= areaIds /\ listings' >= listings /\ areaIds' = areaIds
      /\ listings' = listings
  BY <1>1 DEF AreasInv, AreaRows, Known
<1>4. \A p \in Requests : req'[p] = req[p] \/ req'[p] = Idle
  BY <1>1 DEF Die, AreasInv, ServerTyped
<1>5. \A p \in Requests : AreaPlaced(req[p])'
  BY <1>3, <1>4, IdlePlaced DEF AreaPlaced, AreasInv
<1>6. QED
  BY <1>2, <1>3, <1>5 DEF AreasInv

LEMMA AreaTypeStep ==
  ASSUME AreasInv, AreasAssumption, [AreasNext]_zvars
  PROVE  AreasInv'
<1>1. CASE UNCHANGED zvars
  BY <1>1 DEF zvars, server, adata, AreasInv, AreaRows, Known, ServerTyped, AreaPlaced
<1>2. CASE ReferToArea
  BY <1>2 DEF ReferToArea, server, AreasInv, AreaRows, Known, ServerTyped, AreaPlaced
<1>3. ASSUME NEW q \in Requests, AreaArrives(q) PROVE AreasInv'
  <2>1. PICK r : AreaComes(r) /\ Start(q, r) /\ UNCHANGED adata
    BY <1>3, AreaArrived
  <2>2. AreaRows' /\ areaIds' = areaIds /\ listings' = listings
    BY <2>1, AreaRowsSame DEF adata
  <2>3. r \in AreaStep /\ AreaPlaced(r)
    BY <2>1 DEF AreaComes
  <2>4. ServerTyped(AreaStep)'
    BY <2>1, <2>3, StartTyped DEF AreasInv
  <2>5. \A p \in Requests : req'[p] = IF p = q THEN r ELSE req[p]
    BY <2>1 DEF Start, AreasInv, ServerTyped
  <2>6. \A p \in Requests : AreaPlaced(req[p])'
    BY <2>2, <2>3, <2>5 DEF AreaPlaced, AreasInv
  <2>7. QED
    BY <2>2, <2>4, <2>6 DEF AreasInv
<1>4. ASSUME NEW q \in Requests, AreaGoes(q) PROVE AreasInv'
  BY <1>4, InsertAreaTyped, SelectAreaTyped, WriteAreaTyped, InsertAreaAgainTyped,
     ClearListingTyped, InsertListingTyped, LookTyped, DeleteAreaTyped, AreaCrashTyped
  DEF AreaGoes
<1>5. QED
  BY <1>1, <1>2, <1>3, <1>4, AreaStepIs

LEMMA AreaTypeInit ==
  ASSUME AreasInit
  PROVE  AreasInv
<1>1. /\ areas = <<>> /\ listed = <<>> /\ areaIds = 0 /\ listings = 0 /\ referred = {}
      /\ req = [q \in Requests |-> Idle] /\ overlaps = 0 /\ deaths = 0
  BY DEF AreasInit, ServerInit
<1>2. Known = {} /\ DOMAIN listed = {}
  BY <1>1 DEF Known
<1>3. AreaRows
  BY <1>1, <1>2 DEF AreaRows
<1>4. QED
  BY <1>1, <1>3, IdlePlaced DEF AreasInv, ServerTyped

\* The histories name listings and areas that have been given out.
Marked == beside \subseteq 1..listings /\ bare \subseteq 1..areaIds

LEMMA MarkedStep ==
  ASSUME AreasInv, AreasInv', AreasAssumption, Marked, [AreasNext]_zvars
  PROVE  Marked'
<1>1. areaIds \in Nat /\ listings \in Nat
  BY DEF AreasInv, AreaRows
<1>2. ASSUME beside' = beside, listings' = listings, areaIds' = areaIds \/ areaIds' = areaIds + 1,
             \A a \in bare' : a \in bare \/ a \in 1..areaIds
      PROVE  Marked'
  <2>1. \A a \in 1..areaIds : a \in 1..areaIds'
    BY <1>1, <1>2
  <2>2. bare' \subseteq 1..areaIds
    BY <1>2 DEF Marked
  <2>3. bare' \subseteq 1..areaIds' /\ beside' \subseteq 1..listings'
    BY <1>2, <2>1, <2>2 DEF Marked
  <2>4. QED
    BY <2>3 DEF Marked
<1>3. CASE UNCHANGED adata
  BY <1>2, <1>3 DEF adata
<1>4. ASSUME NEW q \in Requests, AreaGoes(q), ~UNCHANGED adata PROVE Marked'
  <2>1. PICK r : r = req[q]
    OBVIOUS
  <2>2. r \in AreaStep /\ AreaPlaced(r)
    BY <2>1, AreaInMemory
  <2>3. CASE InsertArea(q)
    <3>1. UNCHANGED <<listings, beside, bare>> /\ areaIds' = areaIds + 1
      BY <1>4, <2>3, InsertAreaIs
    <3>2. QED
      BY <1>2, <3>1
  <2>4. CASE WriteArea(q)
    <3>1. UNCHANGED <<areaIds, listings, beside, bare>>
      BY <2>4, WriteAreaIs
    <3>2. QED
      BY <1>2, <3>1
  <2>5. CASE InsertAreaAgain(q)
    <3>1. /\ UNCHANGED <<areaIds, listings, beside>>
          /\ r.at = "insertAgain" /\ \A a \in bare' : a \in bare \/ a = r.id
      BY <1>4, <2>1, <2>5, InsertAreaAgainIs
    <3>2. r.id \in 1..areaIds
      BY <2>2, <3>1 DEF AreaPlaced, Zoning, AreaSaving
    <3>3. \A a \in bare' : a \in bare \/ a \in 1..areaIds
      BY <3>1, <3>2
    <3>4. QED
      BY <1>2, <3>1, <3>3
  <2>6. CASE ClearListing(q)
    <3>1. /\ UNCHANGED <<areaIds, listings, beside>>
          /\ r.at = "clear" /\ (bare' = bare \/ bare' = bare \cup {r.id})
      BY <2>1, <2>6, ClearListingIs
    <3>2. r.id \in 1..areaIds
      BY <2>2, <3>1 DEF AreaPlaced, Zoning
    <3>3. \A a \in bare' : a \in bare \/ a \in 1..areaIds
      BY <3>1, <3>2
    <3>4. QED
      BY <1>2, <3>1, <3>3
  <2>7. CASE InsertListing(q)
    <3>1. /\ areaIds' = areaIds /\ listings' = listings + 1
          /\ \A x \in beside' : x \in beside \/ x = listings + 1
          /\ bare' \subseteq bare
      BY <1>4, <2>7, InsertListingIs
    <3>2. listings + 1 \in 1..listings' /\ \A x \in 1..listings : x \in 1..listings'
      BY <1>1, <3>1
    <3>3. bare' \subseteq 1..areaIds' /\ beside' \subseteq 1..listings'
      BY <3>1, <3>2 DEF Marked
    <3>4. QED
      BY <3>3 DEF Marked
  <2>8. CASE DeleteArea(q)
    <3>1. UNCHANGED <<areaIds, listings, beside, bare>>
      BY <2>8 DEF DeleteArea
    <3>2. QED
      BY <1>2, <3>1
  <2>9. CASE AreaCrash(q)
    <3>1. /\ UNCHANGED <<areaIds, listings, beside>>
          /\ \A a \in bare' : a \in bare \/ (r.at \in {"clear", "list"} /\ a = r.id)
      BY <2>1, <2>9 DEF AreaCrash
    <3>2. r.at \in {"clear", "list"} => r.id \in 1..areaIds
      BY <2>2 DEF AreaPlaced, Zoning
    <3>3. \A a \in bare' : a \in bare \/ a \in 1..areaIds
      BY <3>1, <3>2
    <3>4. QED
      BY <1>2, <3>1, <3>3
  <2>10. QED
    BY <1>4, <2>3, <2>4, <2>5, <2>6, <2>7, <2>8, <2>9, SelectAreaIs, SeedZoneIs, CountReferencesIs
    DEF AreaGoes
<1>5. CASE ReferToArea
  BY <1>2, <1>5 DEF ReferToArea
<1>6. ASSUME NEW q \in Requests, AreaArrives(q) PROVE UNCHANGED adata
  BY <1>6, AreaArrived
<1>7. CASE UNCHANGED zvars
  BY <1>3, <1>7 DEF zvars
<1>8. QED
  BY <1>3, <1>4, <1>5, <1>6, <1>7, AreaStepIs

\* Every reachable state of the areas is well typed, whatever is created, saved,
\* removed and seeded at once; an area a request is about was given its id, and
\* no area that bookings or prices refer to has gone.
THEOREM AreasTypeCorrect == AreasSpec => []AreasTypeOK
<1>1. AreasInit => AreasInv
  BY AreaTypeInit
<1>2. AreasInv /\ [AreasNext]_zvars => AreasInv'
  BY AreaTypeStep, AreasAssumption
<1>3. AreasInit => Marked
  BY DEF AreasInit, Marked
<1>4. AreasInv /\ AreasInv' /\ Marked /\ [AreasNext]_zvars => Marked'
  BY MarkedStep, AreasAssumption
<1>5. AreasInv /\ Marked => AreasTypeOK
  BY DEF AreasInv, AreaRows, Marked, AreasTypeOK, ServerTyped
<1>6. QED
  BY <1>1, <1>2, <1>3, <1>4, <1>5, PTL DEF AreasSpec

-----------------------------------------------------------------------------
(* One listing for each area.                                              *)

Listed(a) == IF a \in Known THEN listed[a] ELSE {}

\* The listings that a request may bring back, and those there are or may be.
Back(r, a) ==
  IF r.at \in {"select", "uses", "delete", "insertAgain"} /\ r.id = a THEN r.rows
  ELSE IF r.at = "update" /\ r.id = a THEN r.again ELSE {}

Alive(a) == Listed(a) \cup UNION {Back(req[q], a) : q \in Requests}

\* The requests about to insert a listing whose DELETE no other overlapped.
Sure(a) == {q \in Requests : req[q].at = "list" /\ req[q].id = a /\ ~req[q].beside}

\* Of what there is and what may be brought back one listing at most was
\* inserted with no other request about the area, and none while there is a
\* request about to insert such a one.
SoleAt(a) ==
  /\ \A x, y \in Alive(a) \ beside : x = y
  /\ Sure(a) # {} => Alive(a) \subseteq beside
  /\ \A p, q \in Sure(a) : p = q

SoleInv == \A a \in Nat \ {0} : SoleAt(a)

LEMMA SoleLess ==
  ASSUME NEW a, SoleAt(a), Alive(a)' \subseteq Alive(a), Sure(a)' \subseteq Sure(a),
         beside \subseteq beside'
  PROVE  SoleAt(a)'
BY DEF SoleAt

\* A step of q after which there is no more of area a than before.
LEMMA SoleStays ==
  ASSUME AreasInv, NEW q \in Requests, NEW r, Go(q, r), NEW a, SoleAt(a),
         r.at # "list" \/ r.id # a,
         Listed(a)' \subseteq Listed(a) \cup Back(req[q], a),
         Back(r, a) \subseteq Back(req[q], a), beside \subseteq beside'
  PROVE  SoleAt(a)'
<1>1. req'[q] = r /\ \A p \in Requests : p # q => req'[p] = req[p]
  BY DEF AreasInv, ServerTyped, Go
<1>2. \A p \in Requests : Back(req'[p], a) \subseteq Back(req[p], a)
  BY <1>1
<1>3. Alive(a)' \subseteq Alive(a)
  BY <1>2 DEF Alive
<1>4. Sure(a)' \subseteq Sure(a)
  BY <1>1 DEF Sure
<1>5. QED
  BY <1>3, <1>4, SoleLess

LEMMA IdleBack == \A a : Back(Idle, a) = {}
BY DEF Idle, Back

LEMMA AfterSaveBack ==
  ASSUME NEW q \in Requests, NEW i, AfterSave(q, i)
  PROVE  \E r : Go(q, r) /\ r.at # "list" /\ \A a : Back(r, a) = {}
<1>1. CASE Go(q, [at |-> "clear", id |-> i, new |-> req[q].new, n |-> req[q].n])
  <2>1. PICK r : r = [at |-> "clear", id |-> i, new |-> req[q].new, n |-> req[q].n]
    OBVIOUS
  <2>2. r.at = "clear"
    BY <2>1
  <2>3. QED
    BY <1>1, <2>1, <2>2 DEF Back
<1>2. CASE Answer(q)
  BY <1>2, IdleBack DEF Answer, Idle
<1>3. QED
  BY <1>1, <1>2, AfterSaveIs

\* A step of q puts back at most what q has in memory, and keeps no more.
Eases(q) ==
  \E r : /\ Go(q, r) /\ r.at # "list"
         /\ \A a \in Nat \ {0} : /\ Listed(a)' \subseteq Listed(a) \cup Back(req[q], a)
                                 /\ Back(r, a) \subseteq Back(req[q], a)

LEMMA AnswerEases ==
  ASSUME NEW q \in Requests, (\E i : AfterSave(q, i)) \/ Answer(q),
         \A a \in Nat \ {0} : Listed(a)' \subseteq Listed(a) \cup Back(req[q], a)
  PROVE  Eases(q)
<1>1. CASE Answer(q)
  BY <1>1, IdleBack DEF Answer, Idle, Eases
<1>2. CASE \E i : AfterSave(q, i)
  <2>1. PICK r : Go(q, r) /\ r.at # "list" /\ \A a : Back(r, a) = {}
    BY <1>2, AfterSaveBack
  <2>2. QED
    BY <2>1 DEF Eases
<1>3. QED
  BY <1>1, <1>2

LEMMA ListedSame ==
  ASSUME UNCHANGED adata
  PROVE  \A a : Listed(a)' = Listed(a)
BY DEF adata, Listed, Known

LEMMA PutListed ==
  ASSUME AreasInv, NEW i, NEW row, NEW rows, areas' = Put(areas, i, row),
         listed' = Put(listed, i, rows), NEW a
  PROVE  Listed(a)' = IF a = i THEN rows ELSE Listed(a)
<1>1. DOMAIN areas = Known /\ DOMAIN listed = Known /\ Known' = DOMAIN areas'
  BY DEF AreasInv, AreaRows, Known
<1>2. Known' = Known \cup {i}
  <2>1. DOMAIN areas' = DOMAIN areas \cup {i}
    BY PutIs
  <2>2. QED
    BY <1>1, <2>1
<1>3. a \in Known' => listed'[a] = IF a = i THEN rows ELSE listed[a]
  BY <1>1, <1>2 DEF Put
<1>4. QED
  BY <1>2, <1>3 DEF Listed

LEMMA StatementEases ==
  ASSUME AreasInv, AreasAssumption, NEW q \in Requests,
         \/ InsertArea(q) \/ SelectArea(q) \/ WriteArea(q) \/ InsertAreaAgain(q)
         \/ SeedZone(q) \/ CountReferences(q) \/ DeleteArea(q)
  PROVE  Eases(q)
<1>1. PICK r : r = req[q]
  OBVIOUS
<1>2. r \in AreaStep /\ AreaPlaced(r)
  BY <1>1, AreaInMemory
<1>3. CASE InsertArea(q)
  <2>2. CASE Answer(q) /\ UNCHANGED adata
    BY <2>2, ListedSame, AnswerEases
  <2>3. CASE /\ areas' = Put(areas, areaIds', req[q].mem) /\ listed' = Put(listed, areaIds', {})
             /\ AfterSave(q, areaIds')
    <3>1. \A a \in Nat \ {0} : Listed(a)' \subseteq Listed(a)
      BY <2>3, PutListed
    <3>2. QED
      BY <2>3, <3>1, AnswerEases
  <2>4. QED
    BY <1>3, <2>2, <2>3, InsertAreaIs
<1>4. CASE SelectArea(q)
  <2>1. r.at = "select" /\ UNCHANGED adata
    BY <1>1, <1>4, SelectAreaIs
  <2>2. CASE AfterSave(q, r.id)
    BY <2>1, <2>2, ListedSame, AnswerEases
  <2>3. CASE Go(q, AreaUpdate(r))
    <3>1. PICK s : s = AreaUpdate(r)
      OBVIOUS
    <3>2. s.at = "update" /\ s.id = r.id /\ s.again \subseteq r.rows
      BY <3>1 DEF AreaUpdate, AreaAgain
    <3>3. \A a : Back(s, a) \subseteq Back(r, a)
      BY <2>1, <3>2 DEF Back
    <3>4. QED
      BY <1>1, <2>1, <2>3, <3>1, <3>2, <3>3, ListedSame DEF Eases
  <2>4. CASE Go(q, [r EXCEPT !.at = "insertAgain"])
    <3>1. PICK s : s = [r EXCEPT !.at = "insertAgain"]
      OBVIOUS
    <3>2. r.at \in AreaSaving /\ "insertAgain" \in AreaSaving
      BY <2>1 DEF AreaSaving
    <3>3. /\ s = AreaSave("insertAgain", r.id, r.mem, r.rows, r.new, r.n)
          /\ r.id \in Nat /\ r.mem \in Area /\ r.rows \in SUBSET Nat /\ r.new \in Localities
          /\ r.n \in Nat
      BY <1>2, <3>1, <3>2, GoesOnAs, AreaMemory
    <3>4. s.at = "insertAgain" /\ s.id = r.id /\ s.rows = r.rows
      BY <3>2, <3>3, AreaSaveTyped
    <3>5. \A a : Back(s, a) \subseteq Back(r, a)
      BY <2>1, <3>4 DEF Back
    <3>6. Go(q, s)
      BY <2>4, <3>1
    <3>7. \A a : Listed(a)' = Listed(a)
      BY <2>1, ListedSame
    <3>8. QED
      BY <1>1, <3>4, <3>5, <3>6, <3>7 DEF Eases
  <2>5. QED
    BY <1>1, <1>4, <2>2, <2>3, <2>4, SelectAreaIs
<1>5. CASE WriteArea(q)
  <2>1. r.at = "update"
    BY <1>1, <1>5, WriteAreaIs
  <2>2. CASE UNCHANGED adata /\ (Answer(q) \/ AfterSave(q, r.id))
    BY <2>1, <2>2, ListedSame, AnswerEases
  <2>3. CASE /\ r.id \in Known /\ AfterSave(q, r.id)
             /\ areas' = Put(areas, r.id, AreaRow(r))
             /\ listed' = [listed EXCEPT ![r.id] = @ \cup r.again]
    <3>1. DOMAIN listed = Known /\ DOMAIN areas = Known /\ Known' = DOMAIN areas'
      BY DEF AreasInv, AreaRows, Known
    <3>2. Known' = Known
      <4>1. PICK i, row : i = r.id /\ row = AreaRow(r)
        OBVIOUS
      <4>2. areas' = Put(areas, i, row) /\ i \in Known
        BY <2>3, <4>1
      <4>3. DOMAIN areas' = DOMAIN areas \cup {i}
        BY <4>2, PutIs
      <4>4. QED
        BY <3>1, <4>2, <4>3
    <3>3. \A a \in Known : listed'[a] = IF a = r.id THEN listed[a] \cup r.again ELSE listed[a]
      BY <2>3, <3>1
    <3>4. \A a : a = r.id => Back(r, a) = r.again
      BY <2>1 DEF Back
    <3>5. \A a : Listed(a)' \subseteq Listed(a) \cup Back(r, a)
      BY <3>2, <3>3, <3>4 DEF Listed
    <3>6. QED
      BY <1>1, <2>1, <2>3, <3>5, AnswerEases
  <2>4. QED
    BY <1>1, <1>5, <2>2, <2>3, WriteAreaIs
<1>6. CASE InsertAreaAgain(q)
  <2>1. r.at = "insertAgain"
    BY <1>1, <1>6, InsertAreaAgainIs
  <2>2. CASE Answer(q) /\ UNCHANGED adata
    BY <2>1, <2>2, ListedSame, AnswerEases
  <2>3. CASE /\ areas' = Put(areas, r.id, r.mem) /\ listed' = Put(listed, r.id, r.rows)
             /\ AfterSave(q, r.id)
    <3>1. \A a : Listed(a)' = IF a = r.id THEN r.rows ELSE Listed(a)
      BY <2>3, PutListed
    <3>2. \A a : a = r.id => Back(r, a) = r.rows
      BY <2>1 DEF Back
    <3>3. \A a \in Nat \ {0} : Listed(a)' \subseteq Listed(a) \cup Back(r, a)
      BY <3>1, <3>2
    <3>4. QED
      BY <1>1, <2>1, <2>3, <3>3, AnswerEases
  <2>4. QED
    BY <1>1, <1>6, <2>2, <2>3, InsertAreaAgainIs
<1>7. CASE SeedZone(q)
  <2>1. UNCHANGED adata
    BY <1>7, SeedZoneIs
  <2>2. PICK s \in AreaStep : /\ Go(q, s) /\ s.at \in {"insert", "select"}
                              /\ s.at = "select" => s.rows = {}
    BY <1>7, SeedZoneIs
  <2>3. s.at # "list" /\ \A a : Back(s, a) = {}
    BY <2>2 DEF Back
  <2>4. \A a : Listed(a)' = Listed(a)
    BY <2>1, ListedSame
  <2>5. QED
    BY <2>2, <2>3, <2>4 DEF Eases
<1>8. CASE CountReferences(q)
  <2>1. r.at = "uses" /\ UNCHANGED adata
    BY <1>1, <1>8, CountReferencesIs
  <2>2. CASE Answer(q)
    BY <2>1, <2>2, ListedSame, AnswerEases
  <2>3. ASSUME NEW s \in AreaStep, Go(q, s), s.at \in {"delete", "select"}, s.id = r.id,
               s.rows = r.rows
        PROVE  Eases(q)
    <3>1. \A a : Back(s, a) = Back(r, a)
      BY <2>1, <2>3 DEF Back
    <3>2. QED
      BY <1>1, <2>1, <2>3, <3>1, ListedSame DEF Eases
  <2>4. QED
    BY <1>1, <1>8, <2>1, <2>2, <2>3, CountReferencesIs
<1>9. CASE DeleteArea(q)
  <2>1. Answer(q)
    BY <1>9, DeleteAreaIs
  <2>2. CASE UNCHANGED adata
    BY <2>1, <2>2, ListedSame, AnswerEases
  <2>3. CASE areas' = Drop(areas, r.id) /\ listed' = Drop(listed, r.id)
    <3>1. DOMAIN listed = Known /\ DOMAIN areas = Known /\ Known' = DOMAIN areas'
      BY DEF AreasInv, AreaRows, Known
    <3>2. \A a : Listed(a)' \subseteq Listed(a)
      BY <2>3, <3>1 DEF Drop, Listed
    <3>3. QED
      BY <2>1, <3>2, AnswerEases
  <2>4. QED
    BY <1>1, <1>9, <2>1, <2>2, <2>3, DeleteAreaIs
<1>10. QED
  BY <1>3, <1>4, <1>5, <1>6, <1>7, <1>8, <1>9

\* After the DELETE of a request that no other one overlaps there is nothing,
\* and nothing to be brought back.
LEMMA SoleClear ==
  ASSUME AreasInv, SoleInv, NEW q \in Requests, ClearListing(q)
  PROVE  SoleInv'
<1>1. PICK r : r = req[q]
  OBVIOUS
<1>2. /\ r.at = "clear" /\ UNCHANGED <<areas, beside>>
      /\ listed' = [a \in Known |-> IF a = r.id THEN {} ELSE listed[a]]
  BY <1>1, ClearListingIs
<1>3. \A a : Listed(a)' = IF a = r.id THEN {} ELSE Listed(a)
  BY <1>2 DEF Listed, Known
<1>4. \A a : Back(r, a) = {}
  BY <1>2 DEF Back
<1>5. ASSUME NEW a \in Nat \ {0}, NEW s, Go(q, s), s.at # "list" \/ s.id # a, Back(s, a) = {}
      PROVE  SoleAt(a)'
  <2>1. SoleAt(a) /\ beside \subseteq beside'
    BY <1>2 DEF SoleInv
  <2>2. Listed(a)' \subseteq Listed(a) \cup Back(req[q], a) /\ Back(s, a) \subseteq Back(req[q], a)
    BY <1>3, <1>5
  <2>3. QED
    BY <1>5, <2>1, <2>2, SoleStays
<1>6. CASE Answer(q)
  <2>1. Go(q, Idle) /\ Idle.at # "list"
    BY <1>6 DEF Answer, Idle
  <2>2. QED
    BY <1>5, <2>1, IdleBack DEF SoleInv
<1>7. CASE Go(q, [at |-> "list", id |-> r.id, beside |-> Shared(q), n |-> r.n])
  <2>1. PICK s : s = [at |-> "list", id |-> r.id, beside |-> Shared(q), n |-> r.n]
    OBVIOUS
  <2>2. Go(q, s) /\ s.at = "list" /\ s.id = r.id /\ s.beside = Shared(q)
    BY <1>7, <2>1
  <2>3. \A a : Back(s, a) = {}
    BY <2>2 DEF Back
  <2>4. req'[q] = s /\ \A p \in Requests : p # q => req'[p] = req[p]
    BY <2>2 DEF AreasInv, ServerTyped, Go
  <2>5. ASSUME NEW a \in Nat \ {0}, a # r.id PROVE SoleAt(a)'
    BY <1>5, <2>2, <2>3, <2>5
  <2>6. ASSUME NEW a \in Nat \ {0}, a = r.id, Shared(q) PROVE SoleAt(a)'
    <3>1. Sure(a)' \subseteq Sure(a)
      BY <2>2, <2>4, <2>6 DEF Sure
    <3>2. \A p \in Requests : Back(req'[p], a) \subseteq Back(req[p], a)
      BY <2>3, <2>4
    <3>3. Alive(a)' \subseteq Alive(a)
      BY <1>3, <3>2 DEF Alive
    <3>4. QED
      BY <1>2, <3>1, <3>3, SoleLess DEF SoleInv
  <2>7. ASSUME NEW a \in Nat \ {0}, a = r.id, ~Shared(q) PROVE SoleAt(a)'
    <3>1. ASSUME NEW p \in Requests, p # q PROVE Back(req[p], a) = {} /\ p \notin Sure(a)'
      <4>1. ~AboutArea(p, a)
        BY <1>1, <2>7, <3>1 DEF Shared
      <4>2. QED
        BY <2>4, <3>1, <4>1 DEF AboutArea, InFlight, Back, Sure
    <3>2. \A p \in Requests : Back(req'[p], a) = {}
      BY <2>3, <2>4, <3>1
    <3>3. Alive(a)' = {}
      BY <1>3, <2>7, <3>2 DEF Alive
    <3>4. \A p \in Sure(a)' : p = q
      BY <3>1 DEF Sure
    <3>5. QED
      BY <3>3, <3>4 DEF SoleAt
  <2>8. QED
    BY <2>5, <2>6, <2>7 DEF SoleInv
<1>8. QED
  BY <1>1, <1>6, <1>7, ClearListingIs

LEMMA SoleInsert ==
  ASSUME AreasInv, SoleInv, NEW q \in Requests, InsertListing(q)
  PROVE  SoleInv'
<1>1. PICK r, k : r = req[q] /\ k = listings + 1
  OBVIOUS
<1>2. r.at = "list" /\ UNCHANGED areas
  BY <1>1, InsertListingIs
<1>3. \A a : Back(r, a) = {}
  BY <1>2 DEF Back
<1>4. CASE Answer(q) /\ UNCHANGED adata
  <2>1. Go(q, Idle) /\ Idle.at # "list" /\ beside \subseteq beside'
    BY <1>4 DEF Answer, Idle, adata
  <2>2. \A a : Listed(a)' = Listed(a) /\ Back(Idle, a) = {}
    BY <1>4, ListedSame, IdleBack
  <2>3. \A a \in Nat \ {0} : SoleAt(a)'
    BY <2>1, <2>2, SoleStays DEF SoleInv
  <2>4. QED
    BY <2>3 DEF SoleInv
<1>5. CASE /\ r.id \in Known /\ listed' = [listed EXCEPT ![r.id] = @ \cup {k}]
           /\ beside' = beside \cup (IF r.beside THEN {k} ELSE {})
           /\ Answer(q) \/ Go(q, [at |-> "seed", n |-> r.n + 1])
  <2>1. PICK s : Go(q, s) /\ s.at \notin {"list", "select", "uses", "delete", "insertAgain", "update"}
    <3>1. CASE Answer(q)
      BY <3>1 DEF Answer, Idle
    <3>2. CASE Go(q, [at |-> "seed", n |-> r.n + 1])
      <4>1. PICK s : s = [at |-> "seed", n |-> r.n + 1]
        OBVIOUS
      <4>2. s.at = "seed" /\ Go(q, s)
        BY <3>2, <4>1
      <4>3. QED
        BY <4>2
    <3>3. QED
      BY <1>5, <3>1, <3>2
  <2>2. \A a : Back(s, a) = {}
    BY <2>1 DEF Back
  <2>3. DOMAIN listed = Known /\ Known' = Known
    BY <1>2 DEF AreasInv, AreaRows, Known
  <2>4. \A a : Listed(a)' = IF a = r.id THEN Listed(a) \cup {k} ELSE Listed(a)
    BY <1>5, <2>3 DEF Listed
  <2>5. beside \subseteq beside' /\ (r.beside => k \in beside')
    BY <1>5
  <2>6. ASSUME NEW a \in Nat \ {0}, a # r.id PROVE SoleAt(a)'
    <3>1. SoleAt(a) /\ s.at # "list"
      BY <2>1 DEF SoleInv
    <3>2. Listed(a)' \subseteq Listed(a) \cup Back(req[q], a) /\ Back(s, a) \subseteq Back(req[q], a)
      BY <2>2, <2>4, <2>6
    <3>3. QED
      BY <2>1, <2>5, <3>1, <3>2, SoleStays
  <2>7. ASSUME NEW a \in Nat \ {0}, a = r.id PROVE SoleAt(a)'
    <3>1. req'[q] = s /\ \A p \in Requests : p # q => req'[p] = req[p]
      BY <2>1 DEF AreasInv, ServerTyped, Go
    <3>2. \A p \in Requests : Back(req'[p], a) = Back(req[p], a)
      BY <1>1, <1>3, <2>2, <3>1
    <3>3. Alive(a)' \subseteq Alive(a) \cup {k}
      BY <2>4, <2>7, <3>2 DEF Alive
    <3>4. Sure(a)' \subseteq Sure(a) \ {q}
      BY <2>1, <3>1 DEF Sure
    <3>5. SoleAt(a)
      BY DEF SoleInv
    <3>6. CASE r.beside
      BY <2>5, <3>3, <3>4, <3>5, <3>6 DEF SoleAt
    <3>7. CASE ~r.beside
      <4>1. q \in Sure(a)
        BY <1>1, <1>2, <2>7, <3>7 DEF Sure
      <4>2. Alive(a) \subseteq beside /\ Sure(a)' = {}
        BY <3>4, <3>5, <4>1 DEF SoleAt
      <4>3. \A x \in Alive(a)' \ beside' : x = k
        BY <2>5, <3>3, <4>2
      <4>4. QED
        BY <4>2, <4>3 DEF SoleAt
    <3>8. QED
      BY <3>6, <3>7
  <2>8. QED
    BY <2>6, <2>7 DEF SoleInv
<1>6. QED
  BY <1>1, <1>4, <1>5, InsertListingIs

LEMMA SoleCrash ==
  ASSUME AreasInv, SoleInv, NEW q \in Requests, AreaCrash(q)
  PROVE  SoleInv'
<1>1. Die(q) /\ UNCHANGED <<Known, listed, beside>>
  BY DEF AreaCrash, Known
<1>2. \A p \in Requests : req'[p] = Idle \/ req'[p] = req[p]
  BY <1>1 DEF Die, AreasInv, ServerTyped
<1>3. ASSUME NEW a \in Nat \ {0} PROVE SoleAt(a)'
  <2>1. \A p \in Requests : Back(req'[p], a) \subseteq Back(req[p], a)
    BY <1>2, IdleBack
  <2>2. Listed(a)' = Listed(a)
    BY <1>1 DEF Listed
  <2>3. Alive(a)' \subseteq Alive(a)
    BY <2>1, <2>2 DEF Alive
  <2>4. Sure(a)' \subseteq Sure(a)
    BY <1>2 DEF Sure, Idle
  <2>5. QED
    BY <1>1, <2>3, <2>4, SoleLess DEF SoleInv
<1>4. QED
  BY <1>3 DEF SoleInv

LEMMA SoleArrives ==
  ASSUME AreasInv, SoleInv, NEW q \in Requests, NEW r, AreaComes(r), Start(q, r), UNCHANGED adata
  PROVE  SoleInv'
<1>1. req'[q] = r /\ \A p \in Requests : p # q => req'[p] = req[p]
  BY DEF Start, AreasInv, ServerTyped
<1>2. ASSUME NEW a \in Nat \ {0} PROVE SoleAt(a)'
  <2>1. Listed(a)' = Listed(a)
    BY ListedSame
  <2>2. Back(r, a) \subseteq Listed(a)
    BY DEF AreaComes, Back, Listed
  <2>3. Alive(a)' \subseteq Alive(a)
    BY <1>1, <2>1, <2>2 DEF Alive
  <2>4. Sure(a)' \subseteq Sure(a)
    BY <1>1 DEF Sure, AreaComes
  <2>5. beside \subseteq beside'
    BY DEF adata
  <2>6. QED
    BY <2>3, <2>4, <2>5, SoleLess DEF SoleInv
<1>3. QED
  BY <1>2 DEF SoleInv

LEMMA SoleStep ==
  ASSUME AreasInv, AreasAssumption, SoleInv, [AreasNext]_zvars
  PROVE  SoleInv'
<1>1. CASE UNCHANGED zvars \/ ReferToArea
  <2>1. UNCHANGED <<Known, listed, req, beside>>
    BY <1>1 DEF zvars, server, adata, ReferToArea, Known
  <2>2. QED
    BY <2>1 DEF SoleInv, SoleAt, Alive, Listed, Sure
<1>2. ASSUME NEW q \in Requests, AreaArrives(q) PROVE SoleInv'
  BY <1>2, AreaArrived, SoleArrives
<1>3. ASSUME NEW q \in Requests,
             \/ InsertArea(q) \/ SelectArea(q) \/ WriteArea(q) \/ InsertAreaAgain(q)
             \/ SeedZone(q) \/ CountReferences(q) \/ DeleteArea(q)
      PROVE  SoleInv'
  <2>1. PICK r : /\ Go(q, r) /\ r.at # "list"
                 /\ \A a \in Nat \ {0} : /\ Listed(a)' \subseteq Listed(a) \cup Back(req[q], a)
                                         /\ Back(r, a) \subseteq Back(req[q], a)
    BY <1>3, StatementEases DEF Eases
  <2>2. beside \subseteq beside'
    BY <1>3 DEF InsertArea, SelectArea, WriteArea, InsertAreaAgain, SeedZone, CountReferences,
                DeleteArea, adata
  <2>3. \A a \in Nat \ {0} : SoleAt(a)'
    BY <2>1, <2>2, SoleStays DEF SoleInv
  <2>4. QED
    BY <2>3 DEF SoleInv
<1>4. ASSUME NEW q \in Requests, AreaGoes(q) PROVE SoleInv'
  BY <1>3, <1>4, SoleClear, SoleInsert, SoleCrash DEF AreaGoes
<1>5. QED
  BY <1>1, <1>2, <1>4, AreaStepIs

LEMMA SoleBegins ==
  ASSUME AreasInit
  PROVE  SoleInv
<1>1. areas = <<>> /\ \A q \in Requests : req[q] = Idle
  BY DEF AreasInit, ServerInit
<1>2. ASSUME NEW a PROVE Alive(a) = {} /\ Sure(a) = {}
  BY <1>1, IdleBack DEF Alive, Listed, Known, Sure, Idle
<1>3. QED
  BY <1>2 DEF SoleInv, SoleAt

LEMMA SoleMeans ==
  ASSUME AreasInv, SoleInv
  PROVE  OneListing
<1>1. SUFFICES ASSUME NEW a \in Known, NEW x \in listed[a] \ beside, NEW y \in listed[a] \ beside
               PROVE  x = y
  BY DEF OneListing
<1>2. a \in Nat \ {0}
  BY DEF AreasInv, AreaRows
<1>3. x \in Alive(a) \ beside /\ y \in Alive(a) \ beside
  BY <1>1 DEF Alive, Listed
<1>4. QED
  BY <1>2, <1>3 DEF SoleInv, SoleAt

\* Of the listings of an area one at most was inserted while no other request
\* was about the area, however many requests are in flight, save the area whole
\* with the listings they loaded, and die (replaceZoneAreas deletes what there
\* is, a save that loaded it before may bring it back).
THEOREM ListingAlwaysOne == AreasSpec => []OneListing
<1>1. AreasInit => AreasInv /\ SoleInv
  BY AreaTypeInit, SoleBegins
<1>2. AreasInv /\ SoleInv /\ [AreasNext]_zvars => AreasInv' /\ SoleInv'
  BY AreaTypeStep, SoleStep, AreasAssumption
<1>3. AreasInv /\ SoleInv => OneListing
  BY SoleMeans
<1>4. QED
  BY <1>1, <1>2, <1>3, PTL DEF AreasSpec
-----------------------------------------------------------------------------
(* A listing for each area.                                                *)

\* A request is between the save of the area and the INSERT of its listing.
Relists(p, a) == req[p].at \in {"clear", "list"} /\ req[p].id = a

\* A new area is always listed; an area without a listing was left so, or a
\* request is about to list it.
KeptInv ==
  /\ \A q \in Requests : req[q].at = "insert" => req[q].new # "unchanged"
  /\ \A a \in Known : listed[a] = {} => a \in bare \/ \E p \in Requests : Relists(p, a)

\* An area that a step of q leaves without a listing was left so, is about to
\* be listed by q, or had none and q was not to list it.
LEMMA KeptWent ==
  ASSUME AreasInv, KeptInv, NEW q \in Requests, NEW r, Go(q, r),
         r.at = "insert" => r.new # "unchanged",
         \A a \in Known' : listed'[a] = {} =>
            \/ a \in bare' \/ (r.at \in {"clear", "list"} /\ r.id = a)
            \/ a \in Known /\ listed[a] = {} /\ (a \in bare => a \in bare') /\ ~Relists(q, a)
  PROVE  KeptInv'
<1>1. req'[q] = r /\ \A p \in Requests : p # q => req'[p] = req[p]
  BY DEF AreasInv, ServerTyped, Go
<1>2. \A p \in Requests : req'[p].at = "insert" => req'[p].new # "unchanged"
  BY <1>1 DEF KeptInv
<1>3. ASSUME NEW a \in Known', listed'[a] = {}, a \notin bare'
      PROVE  \E p \in Requests : Relists(p, a)'
  <2>1. CASE r.at \in {"clear", "list"} /\ r.id = a
    BY <1>1, <2>1 DEF Relists
  <2>2. CASE a \in Known /\ listed[a] = {} /\ a \notin bare /\ ~Relists(q, a)
    <3>1. PICK p \in Requests : Relists(p, a)
      BY <2>2 DEF KeptInv
    <3>2. p # q
      BY <2>2, <3>1
    <3>3. QED
      BY <1>1, <3>1, <3>2 DEF Relists
  <2>3. QED
    BY <1>3, <2>1, <2>2
<1>4. QED
  BY <1>2, <1>3 DEF KeptInv

\* No area loses a listing, and q was not to list any.
LEMMA KeptElse ==
  ASSUME AreasInv, KeptInv, NEW q \in Requests, NEW r, Go(q, r),
         r.at = "insert" => r.new # "unchanged", req[q].at \notin {"clear", "list"},
         \A a \in Known' : a \in Known /\ listed[a] \subseteq listed'[a], bare \subseteq bare'
  PROVE  KeptInv'
<1>1. \A a \in Known' : listed'[a] = {} =>
        a \in Known /\ listed[a] = {} /\ (a \in bare => a \in bare') /\ ~Relists(q, a)
  BY DEF Relists
<1>2. QED
  BY <1>1, KeptWent

LEMMA AfterSaveGoes ==
  ASSUME NEW q \in Requests, NEW i, AfterSave(q, i)
  PROVE  \E r : /\ Go(q, r) /\ r.at # "insert"
                /\ req[q].new # "unchanged" => r.at = "clear" /\ r.id = i
<1>1. CASE /\ req[q].new # "unchanged"
           /\ Go(q, [at |-> "clear", id |-> i, new |-> req[q].new, n |-> req[q].n])
  <2>1. PICK r : r = [at |-> "clear", id |-> i, new |-> req[q].new, n |-> req[q].n]
    OBVIOUS
  <2>2. Go(q, r) /\ r.at = "clear" /\ r.id = i
    BY <1>1, <2>1
  <2>3. QED
    BY <2>2
<1>2. CASE req[q].new = "unchanged" /\ Answer(q)
  BY <1>2 DEF Answer, Idle
<1>3. QED
  BY <1>1, <1>2, AfterSaveIs

LEMMA KeptAnswered ==
  ASSUME AreasInv, KeptInv, NEW q \in Requests, (\E i : AfterSave(q, i)) \/ Answer(q),
         req[q].at \notin {"clear", "list"},
         \A a \in Known' : a \in Known /\ listed[a] \subseteq listed'[a], bare \subseteq bare'
  PROVE  KeptInv'
<1>1. PICK r : Go(q, r) /\ r.at # "insert"
  BY AfterSaveGoes DEF Answer, Idle
<1>2. QED
  BY <1>1, KeptElse

LEMMA KeptSame ==
  ASSUME UNCHANGED adata
  PROVE  (\A a \in Known' : a \in Known /\ listed[a] \subseteq listed'[a]) /\ bare \subseteq bare'
BY DEF adata, Known

LEMMA KeptInsertArea ==
  ASSUME AreasInv, KeptInv, NEW q \in Requests, InsertArea(q)
  PROVE  KeptInv'
<1>1. req[q].at = "insert" /\ req[q].new # "unchanged" /\ bare' = bare
  BY InsertAreaIs DEF KeptInv
<1>2. CASE Answer(q) /\ UNCHANGED adata
  BY <1>1, <1>2, KeptSame, KeptAnswered
<1>3. CASE /\ areas' = Put(areas, areaIds', req[q].mem) /\ listed' = Put(listed, areaIds', {})
           /\ AfterSave(q, areaIds')
  <2>1. PICK i, row : i = areaIds' /\ row = req[q].mem
    OBVIOUS
  <2>2. /\ areas' = Put(areas, i, row) /\ listed' = Put(listed, i, {}) /\ AfterSave(q, i)
        /\ DOMAIN areas = Known /\ DOMAIN listed = Known /\ Known' = DOMAIN areas'
    BY <1>3, <2>1 DEF AreasInv, AreaRows, Known
  <2>3. \A a \in Known' : a # i => a \in Known /\ listed'[a] = listed[a]
    <3>1. Known' = Known \cup {i}
      BY <2>2, PutIs
    <3>2. \A a \in Known : a # i => listed'[a] = listed[a]
      BY <2>2 DEF Put
    <3>3. QED
      BY <3>1, <3>2
  <2>4. PICK r : Go(q, r) /\ r.at = "clear" /\ r.id = i
    BY <1>1, <2>2, AfterSaveGoes
  <2>5. \A a \in Known' : listed'[a] = {} =>
          \/ r.at \in {"clear", "list"} /\ r.id = a
          \/ a \in Known /\ listed[a] = {} /\ (a \in bare => a \in bare') /\ ~Relists(q, a)
    BY <1>1, <2>3, <2>4 DEF Relists
  <2>6. QED
    BY <2>4, <2>5, KeptWent
<1>4. QED
  BY <1>2, <1>3, InsertAreaIs

LEMMA KeptWriteArea ==
  ASSUME AreasInv, KeptInv, NEW q \in Requests, WriteArea(q)
  PROVE  KeptInv'
<1>1. req[q].at = "update" /\ bare' = bare
  BY WriteAreaIs
<1>2. CASE UNCHANGED adata /\ (Answer(q) \/ AfterSave(q, req[q].id))
  BY <1>1, <1>2, KeptSame, KeptAnswered
<1>3. CASE /\ req[q].id \in Known /\ AfterSave(q, req[q].id)
           /\ areas' = Put(areas, req[q].id, AreaRow(req[q]))
           /\ listed' = [listed EXCEPT ![req[q].id] = @ \cup req[q].again]
  <2>1. PICK i, row, more : i = req[q].id /\ row = AreaRow(req[q]) /\ more = req[q].again
    OBVIOUS
  <2>2. /\ areas' = Put(areas, i, row) /\ listed' = [listed EXCEPT ![i] = @ \cup more]
        /\ DOMAIN areas = Known /\ DOMAIN listed = Known /\ Known' = DOMAIN areas' /\ i \in Known
    BY <1>3, <2>1 DEF AreasInv, AreaRows, Known
  <2>3. Known' = Known
    <3>1. DOMAIN areas' = DOMAIN areas \cup {i}
      BY <2>2, PutIs
    <3>2. QED
      BY <2>2, <3>1
  <2>4. \A a \in Known : listed[a] \subseteq listed'[a]
    BY <2>2
  <2>5. QED
    BY <1>1, <1>3, <2>3, <2>4, KeptAnswered
<1>4. QED
  BY <1>2, <1>3, WriteAreaIs

LEMMA KeptInsertAgain ==
  ASSUME AreasInv, KeptInv, NEW q \in Requests, InsertAreaAgain(q)
  PROVE  KeptInv'
<1>1. req[q].at = "insertAgain"
  BY InsertAreaAgainIs
<1>2. CASE Answer(q) /\ UNCHANGED adata
  BY <1>1, <1>2, KeptSame, KeptAnswered
<1>3. CASE /\ areas' = Put(areas, req[q].id, req[q].mem)
           /\ listed' = Put(listed, req[q].id, req[q].rows) /\ AfterSave(q, req[q].id)
           /\ bare' = IF req[q].rows = {} THEN bare \cup {req[q].id} ELSE bare
  <2>1. PICK i, row, rows : i = req[q].id /\ row = req[q].mem /\ rows = req[q].rows
    OBVIOUS
  <2>2. /\ areas' = Put(areas, i, row) /\ listed' = Put(listed, i, rows) /\ AfterSave(q, i)
        /\ bare \subseteq bare' /\ (rows = {} => i \in bare')
        /\ DOMAIN areas = Known /\ DOMAIN listed = Known /\ Known' = DOMAIN areas'
    BY <1>3, <2>1 DEF AreasInv, AreaRows, Known
  <2>3. \A a \in Known' : IF a = i THEN listed'[a] = rows ELSE a \in Known /\ listed'[a] = listed[a]
    <3>1. Known' = Known \cup {i}
      BY <2>2, PutIs
    <3>2. listed'[i] = rows /\ \A a \in Known : a # i => listed'[a] = listed[a]
      BY <2>2 DEF Put
    <3>3. QED
      BY <3>1, <3>2
  <2>4. PICK r : Go(q, r) /\ r.at # "insert"
    BY <2>2, AfterSaveGoes
  <2>5. \A a \in Known' : listed'[a] = {} =>
          \/ a \in bare' \/ (r.at \in {"clear", "list"} /\ r.id = a)
          \/ a \in Known /\ listed[a] = {} /\ (a \in bare => a \in bare') /\ ~Relists(q, a)
    BY <1>1, <2>2, <2>3 DEF Relists
  <2>6. QED
    BY <2>4, <2>5, KeptWent
<1>4. QED
  BY <1>2, <1>3, InsertAreaAgainIs

LEMMA KeptDelete ==
  ASSUME AreasInv, KeptInv, NEW q \in Requests, DeleteArea(q)
  PROVE  KeptInv'
<1>1. req[q].at = "delete" /\ Answer(q) /\ bare' = bare
  BY DeleteAreaIs DEF DeleteArea
<1>2. CASE UNCHANGED adata
  BY <1>1, <1>2, KeptSame, KeptAnswered
<1>3. CASE areas' = Drop(areas, req[q].id) /\ listed' = Drop(listed, req[q].id)
  <2>1. DOMAIN areas = Known /\ DOMAIN listed = Known /\ Known' = DOMAIN areas'
    BY DEF AreasInv, AreaRows, Known
  <2>2. \A a \in Known' : a \in Known /\ listed'[a] = listed[a]
    BY <1>3, <2>1 DEF Drop
  <2>3. QED
    BY <1>1, <2>2, KeptAnswered
<1>4. QED
  BY <1>2, <1>3, DeleteAreaIs

\* What looks, and what goes on with what it has seen.
LEMMA KeptLook ==
  ASSUME AreasInv, AreasAssumption, KeptInv, NEW q \in Requests,
         SelectArea(q) \/ SeedZone(q) \/ CountReferences(q)
  PROVE  KeptInv'
<1>1. UNCHANGED adata
  BY SelectAreaIs, SeedZoneIs, CountReferencesIs
<1>2. req[q].at \notin {"clear", "list"}
  BY SelectAreaIs, SeedZoneIs, CountReferencesIs
<1>3. ASSUME NEW r, Go(q, r), r.at = "insert" => r.new # "unchanged" PROVE KeptInv'
  BY <1>1, <1>2, <1>3, KeptSame, KeptElse
<1>4. CASE SelectArea(q)
  <2>1. CASE \E i : AfterSave(q, i)
    BY <1>1, <1>2, <2>1, KeptSame, KeptAnswered
  <2>2. CASE Go(q, AreaUpdate(req[q]))
    <3>1. PICK s : s = AreaUpdate(req[q])
      OBVIOUS
    <3>2. s.at # "insert" /\ Go(q, s)
      BY <2>2, <3>1 DEF AreaUpdate
    <3>3. QED
      BY <1>3, <3>2
  <2>3. CASE Go(q, [req[q] EXCEPT !.at = "insertAgain"])
    <3>1. PICK r, s : r = req[q] /\ s = [r EXCEPT !.at = "insertAgain"]
      OBVIOUS
    <3>2. r \in AreaStep /\ r.at \in AreaSaving /\ "insertAgain" \in AreaSaving
      BY <1>4, <3>1, AreaInMemory, SelectAreaIs DEF AreaSaving
    <3>3. s = AreaSave("insertAgain", r.id, r.mem, r.rows, r.new, r.n)
      BY <3>1, <3>2, GoesOnAs
    <3>4. s.at = "insertAgain"
      BY <3>3 DEF AreaSave
    <3>5. Go(q, s)
      BY <2>3, <3>1
    <3>6. QED
      BY <1>3, <3>4, <3>5
  <2>4. QED
    BY <1>4, <2>1, <2>2, <2>3, SelectAreaIs
<1>5. CASE SeedZone(q)
  <2>1. PICK s \in AreaStep : Go(q, s) /\ s.new = "some"
    BY <1>5, SeedZoneIs
  <2>2. QED
    BY <1>3, <2>1
<1>6. CASE CountReferences(q)
  <2>1. CASE Answer(q)
    BY <1>1, <1>2, <2>1, KeptSame, KeptAnswered
  <2>2. ASSUME NEW s \in AreaStep, Go(q, s), s.at \in {"delete", "select"} PROVE KeptInv'
    BY <1>3, <2>2
  <2>3. QED
    BY <1>6, <2>1, <2>2, CountReferencesIs
<1>7. QED
  BY <1>4, <1>5, <1>6

LEMMA KeptListing ==
  ASSUME AreasInv, KeptInv, NEW q \in Requests, ClearListing(q) \/ InsertListing(q)
  PROVE  KeptInv'
<1>1. PICK r : r = req[q]
  OBVIOUS
<1>2. CASE ClearListing(q)
  <2>1. PICK s : /\ Go(q, s) /\ s.at \in {"idle", "list"}
                 /\ \/ bare' = bare \cup {r.id}
                    \/ bare' = bare /\ s.at = "list" /\ s.id = r.id
    <3>1. CASE Answer(q) /\ bare' = bare \cup {r.id}
      BY <3>1 DEF Answer, Idle
    <3>2. CASE /\ Go(q, [at |-> "list", id |-> r.id, beside |-> Shared(q), n |-> r.n])
               /\ bare' = bare
      <4>1. PICK s : s = [at |-> "list", id |-> r.id, beside |-> Shared(q), n |-> r.n]
        OBVIOUS
      <4>2. Go(q, s) /\ s.at = "list" /\ s.id = r.id
        BY <3>2, <4>1
      <4>3. QED
        BY <3>2, <4>2
    <3>3. QED
      BY <1>1, <1>2, <3>1, <3>2, ClearListingIs
  <2>2. Known' = Known /\ \A a \in Known : a # r.id => listed'[a] = listed[a]
    BY <1>1, <1>2, ClearListingIs DEF Known
  <2>3. \A a \in Known' : listed'[a] = {} =>
          \/ a \in bare' \/ (s.at \in {"clear", "list"} /\ s.id = a)
          \/ a \in Known /\ listed[a] = {} /\ (a \in bare => a \in bare') /\ ~Relists(q, a)
    BY <1>1, <2>1, <2>2 DEF Relists
  <2>4. QED
    BY <2>1, <2>3, KeptWent
<1>3. CASE InsertListing(q)
  <2>1. PICK s : Go(q, s) /\ s.at \in {"idle", "seed"}
    <3>1. CASE Answer(q)
      BY <3>1 DEF Answer, Idle
    <3>2. CASE Go(q, [at |-> "seed", n |-> r.n + 1])
      <4>1. PICK s : s = [at |-> "seed", n |-> r.n + 1]
        OBVIOUS
      <4>2. Go(q, s) /\ s.at = "seed"
        BY <3>2, <4>1
      <4>3. QED
        BY <4>2
    <3>3. QED
      BY <1>1, <1>3, <3>1, <3>2, InsertListingIs
  <2>2. DOMAIN listed = Known /\ Known' = Known
    BY <1>3, InsertListingIs DEF AreasInv, AreaRows, Known
  <2>3. \A a \in Known : a # r.id => listed'[a] = listed[a] /\ (a \in bare => a \in bare')
    BY <1>1, <1>3, <2>2, InsertListingIs DEF adata
  <2>4. r.id \in Known => listed'[r.id] # {}
    <3>1. PICK i, k : i = r.id /\ k = listings + 1
      OBVIOUS
    <3>2. i \in Known => listed' = [listed EXCEPT ![i] = @ \cup {k}]
      BY <1>1, <1>3, <3>1, InsertListingIs
    <3>3. QED
      BY <2>2, <3>1, <3>2
  <2>5. \A a \in Known' : listed'[a] = {} =>
          a \in Known /\ listed[a] = {} /\ (a \in bare => a \in bare') /\ ~Relists(q, a)
    BY <1>1, <2>2, <2>3, <2>4 DEF Relists
  <2>6. QED
    BY <2>1, <2>5, KeptWent
<1>4. QED
  BY <1>2, <1>3

LEMMA KeptCrash ==
  ASSUME AreasInv, KeptInv, NEW q \in Requests, AreaCrash(q)
  PROVE  KeptInv'
<1>1. /\ UNCHANGED <<Known, listed>> /\ bare \subseteq bare'
      /\ \A a : Relists(q, a) => a \in bare'
  BY DEF AreaCrash, Known, Relists
<1>2. req'[q] = Idle /\ \A p \in Requests : p # q => req'[p] = req[p]
  BY DEF AreaCrash, Die, AreasInv, ServerTyped
<1>3. \A p \in Requests : req'[p].at = "insert" => req'[p].new # "unchanged"
  BY <1>2 DEF KeptInv, Idle
<1>4. ASSUME NEW a \in Known', listed'[a] = {}, a \notin bare'
      PROVE  \E p \in Requests : Relists(p, a)'
  <2>1. PICK p \in Requests : Relists(p, a)
    BY <1>1, <1>4 DEF KeptInv
  <2>2. p # q
    BY <1>1, <1>4, <2>1
  <2>3. QED
    BY <1>2, <2>1, <2>2 DEF Relists
<1>5. QED
  BY <1>3, <1>4 DEF KeptInv

LEMMA KeptArrives ==
  ASSUME AreasInv, KeptInv, NEW q \in Requests, NEW r, AreaComes(r), Start(q, r), UNCHANGED adata
  PROVE  KeptInv'
<1>1. /\ req'[q] = r /\ req[q].at = "idle"
      /\ \A p \in Requests : p # q => req'[p] = req[p]
  BY DEF Start, InFlight, AreasInv, ServerTyped
<1>2. UNCHANGED <<Known, listed, bare>>
  BY DEF adata, Known
<1>3. \A p \in Requests : req'[p].at = "insert" => req'[p].new # "unchanged"
  BY <1>1 DEF KeptInv, AreaComes
<1>4. ASSUME NEW a, NEW p \in Requests, Relists(p, a) PROVE Relists(p, a)'
  BY <1>1, <1>4 DEF Relists
<1>5. QED
  BY <1>2, <1>3, <1>4 DEF KeptInv

LEMMA KeptStep ==
  ASSUME AreasInv, AreasAssumption, KeptInv, [AreasNext]_zvars
  PROVE  KeptInv'
<1>1. CASE UNCHANGED zvars \/ ReferToArea
  <2>1. UNCHANGED <<Known, listed, req, bare>>
    BY <1>1 DEF zvars, server, adata, ReferToArea, Known
  <2>2. QED
    BY <2>1 DEF KeptInv, Relists
<1>2. ASSUME NEW q \in Requests, AreaArrives(q) PROVE KeptInv'
  BY <1>2, AreaArrived, KeptArrives
<1>3. ASSUME NEW q \in Requests, AreaGoes(q) PROVE KeptInv'
  BY <1>3, KeptInsertArea, KeptWriteArea, KeptInsertAgain, KeptDelete, KeptLook, KeptListing,
     KeptCrash
  DEF AreaGoes
<1>4. QED
  BY <1>1, <1>2, <1>3, AreaStepIs

\* With no request in flight an area has no listing only if the last that was
\* asked for it was to have none, a request died between the DELETE and the
\* INSERT of replaceZoneAreas, or a save inserted the area again without any:
\* no interleaving of creates, updates, removals and boots loses the listing.
THEOREM ListingAlwaysKept == AreasSpec => []ListingKept
<1>1. AreasInit => AreasInv /\ KeptInv
  <2>1. AreasInit => AreasInv
    BY AreaTypeInit
  <2>2. AreasInit => KeptInv
    BY DEF AreasInit, ServerInit, KeptInv, Known, Idle
  <2>3. QED
    BY <2>1, <2>2
<1>2. AreasInv /\ KeptInv /\ [AreasNext]_zvars => AreasInv' /\ KeptInv'
  BY AreaTypeStep, KeptStep, AreasAssumption
<1>3. KeptInv => ListingKept
  BY DEF KeptInv, Relists, ListingKept, Quiet, InFlight
<1>4. QED
  BY <1>1, <1>2, <1>3, PTL DEF AreasSpec
=============================================================================
