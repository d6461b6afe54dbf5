--------------------------- MODULE Notifications ---------------------------
(***************************************************************************)
(* Who is told what, and on which phone.  Handlers write notifications and *)
(* then push them to the recipients' phones.  A phone's registration token *)
(* has one row, which moves from one user to the next who registers it; a  *)
(* user who removes a phone must not silence the next one.                 *)
(***************************************************************************)
EXTENDS Server, Sequences, FiniteSets

CONSTANTS
  Users,       \* customers and agents
  Phones,      \* registration tokens
  Nobody,
  MaxNotices   \* bound: notifications written

ASSUME NotificationsAssumption ==
  IsFiniteSet(Users) /\ IsFiniteSet(Phones) /\ Nobody \notin Users /\ MaxNotices \in Nat

VARIABLES
  devices,  \* device_tokens, by token
  holder,   \* who has registered each phone last and not removed it since
  blocked,  \* users who are not active
  inbox,    \* notifications, oldest first
  strays,   \* broadcasts written for a user blocked since they were addressed
  missent   \* pushes to a phone that has moved to another user

ndata == <<devices, holder, blocked, inbox, strays, missent>>
nvars == <<server, ndata>>

Device == [user: Users, active: BOOLEAN]
Notice == [user: Users, read: BOOLEAN]

Installed == DOMAIN devices

\* A request's step and memory.
NoticeStep ==
  {Idle}
    \cup [at: {"notify", "devices"}, to: SUBSET Users, all: BOOLEAN]
    \cup [at: {"push"}, to: SUBSET Users, phones: SUBSET Phones]
    \cup [at: {"read"}, i: Nat]
    \cup [at: {"block", "unblock"}, user: Users]
    \cup [at: {"insertDevice", "selectDevice", "remove"}, phone: Phones, user: Users]
    \cup [at: {"updateDevice"}, phone: Phones, user: Users,
          dirty: SUBSET {"user", "active"}]

NotificationsTypeOK ==
  /\ Installed \subseteq Phones /\ devices \in [Installed -> Device]
  /\ holder \in [Phones -> Users \cup {Nobody}]
  /\ blocked \subseteq Users /\ inbox \in Seq(Notice)
  /\ strays \in Nat /\ missent \in Nat
  /\ req \in [Requests -> NoticeStep] /\ overlaps \in Nat /\ deaths \in Nat

NotificationsInit ==
  /\ ServerInit
  /\ devices = [p \in {} |-> 0] /\ holder = [p \in Phones |-> Nobody]
  /\ blocked = {} /\ inbox = <<>> /\ strays = 0 /\ missent = 0

-----------------------------------------------------------------------------
(* Phones.                                                                 *)

\* registerDevice looks for the token.
RegisterDevice(q) ==
  /\ \E p \in Phones, u \in Users \ blocked :
       Start(q, [at |-> IF p \in Installed THEN "selectDevice" ELSE "insertDevice",
                 phone |-> p, user |-> u])
  /\ UNCHANGED ndata

\* The insert is refused if the token has come in meanwhile.
InsertDevice(q) ==
  /\ At(q, "insertDevice")
  /\ LET p == req[q].phone  u == req[q].user IN
     IF p \in Installed THEN UNCHANGED <<devices, holder>>
     ELSE /\ devices' = [d \in Installed \cup {p} |->
                           IF d = p THEN [user |-> u, active |-> TRUE] ELSE devices[d]]
          /\ holder' = [holder EXCEPT ![p] = u]
  /\ Answer(q)
  /\ UNCHANGED <<blocked, inbox, strays, missent>>

Registered(u) == [user |-> u, active |-> TRUE]

\* TypeORM's save of the row it has found: SELECT and compare ...
SelectDevice(q) ==
  /\ At(q, "selectDevice")
  /\ LET p    == req[q].phone
         u    == req[q].user
         diff == {c \in {"user", "active"} : devices[p][c] # Registered(u)[c]}
     IN  IF diff = {} THEN Answer(q) /\ holder' = [holder EXCEPT ![p] = u]
         ELSE /\ Go(q, [at |-> "updateDevice", phone |-> p, user |-> u, dirty |-> diff])
              /\ UNCHANGED holder
  /\ UNCHANGED <<devices, blocked, inbox, strays, missent>>

\* ... and UPDATE what differs.
UpdateDevice(q) ==
  /\ At(q, "updateDevice")
  /\ LET r == req[q] IN
     /\ devices' = [devices EXCEPT ![r.phone] =
          [c \in {"user", "active"} |-> IF c \in r.dirty THEN Registered(r.user)[c] ELSE @[c]]]
     /\ holder' = [holder EXCEPT ![r.phone] = r.user]
  /\ Answer(q)
  /\ UNCHANGED <<blocked, inbox, strays, missent>>

RemoveDevice(q) ==
  /\ \E p \in Phones, u \in Users \ blocked :
       Start(q, [at |-> "remove", phone |-> p, user |-> u])
  /\ UNCHANGED ndata

Released(p, u) == [holder EXCEPT ![p] = IF @ = u THEN Nobody ELSE @]

\* Mutant: whosever it is by now.
SilenceDevice(q) ==
  /\ At(q, "remove")
  /\ LET p == req[q].phone IN
     /\ devices' = [d \in Installed |-> IF d = p THEN [devices[d] EXCEPT !.active = FALSE]
                                                 ELSE devices[d]]
     /\ holder' = Released(p, req[q].user)
  /\ Answer(q)
  /\ UNCHANGED <<blocked, inbox, strays, missent>>

\* deactivateDevice: one UPDATE, of the row if it is the user's.
DeactivateDevice(q) ==
  /\ At(q, "remove")
  /\ LET p == req[q].phone  u == req[q].user IN
     /\ devices' = [d \in Installed |-> IF d = p /\ devices[d].user = u
                                        THEN [devices[d] EXCEPT !.active = FALSE]
                                        ELSE devices[d]]
     /\ holder' = Released(p, u)
  /\ Answer(q)
  /\ UNCHANGED <<blocked, inbox, strays, missent>>

-----------------------------------------------------------------------------
(* Notifications.                                                          *)

\* resolveRecipients: customers, agents, both or some of them, who are active.
Recipients == SUBSET (Users \ blocked) \ {{}}

\* send, to an audience with an active user.
Broadcast(q) ==
  /\ \E to \in Recipients :
       Start(q, [at |-> "notify", to |-> to, all |-> TRUE])
  /\ UNCHANGED ndata

\* toUser, at the end of other handlers, whoever it is.
NotifyUser(q) ==
  /\ \E u \in Users : Start(q, [at |-> "notify", to |-> {u}, all |-> FALSE])
  /\ UNCHANGED ndata

\* toUsers inserts one row for each, in one transaction; their order means nothing.
InsertNotices(q) ==
  /\ At(q, "notify")
  /\ LET to == req[q].to IN
     /\ Len(inbox) + Cardinality(to) <= MaxNotices
     /\ \E s \in [1..Cardinality(to) -> [user: to, read: {FALSE}]] :
          /\ \A u \in to : \E n \in DOMAIN s : s[n].user = u
          /\ inbox' = inbox \o s
     /\ strays' = IF req[q].all /\ to \cap blocked # {} THEN strays + 1 ELSE strays
  /\ Go(q, [req[q] EXCEPT !.at = "devices"])
  /\ UNCHANGED <<devices, holder, blocked, missent>>

\* The recipients' active phones are looked up ...
FindDevices(q) ==
  /\ At(q, "devices")
  /\ LET to == req[q].to IN
     Go(q, [at |-> "push", to |-> to,
            phones |-> {p \in Installed : devices[p].user \in to /\ devices[p].active}])
  /\ UNCHANGED ndata

\* ... and sent to.
Push(q) ==
  /\ At(q, "push")
  /\ missent' = IF \E p \in req[q].phones : devices[p].user \notin req[q].to
                THEN missent + 1 ELSE missent
  /\ Answer(q)
  /\ UNCHANGED <<devices, holder, blocked, inbox, strays>>

\* markRead loads the notification and saves it.
MarkRead(q) ==
  /\ \E i \in DOMAIN inbox : Start(q, [at |-> "read", i |-> i])
  /\ UNCHANGED ndata

SaveRead(q) ==
  /\ At(q, "read")
  /\ inbox' = [inbox EXCEPT ![req[q].i].read = TRUE]
  /\ Answer(q)
  /\ UNCHANGED <<devices, holder, blocked, strays, missent>>

MarkAllRead ==
  /\ \E u \in Users :
       inbox' = [i \in DOMAIN inbox |-> [inbox[i] EXCEPT !.read = @ \/ inbox[i].user = u]]
  /\ UNCHANGED <<server, devices, holder, blocked, strays, missent>>

\* block and unblock of the user; Accounts has their statements.
Block(q) ==
  /\ \E u \in Users : Start(q, [at |-> IF u \in blocked THEN "unblock" ELSE "block",
                                user |-> u])
  /\ UNCHANGED ndata

SaveBlock(q) ==
  /\ At(q, "block") \/ At(q, "unblock")
  /\ blocked' = IF At(q, "block") THEN blocked \cup {req[q].user}
                                  ELSE blocked \ {req[q].user}
  /\ Answer(q)
  /\ UNCHANGED <<devices, holder, inbox, strays, missent>>

NoticeCrash(q) == Die(q) /\ UNCHANGED ndata

-----------------------------------------------------------------------------
\* The routes of both apps' notification controllers, but for MarkAllRead.
PhoneRoutes(q) == RegisterDevice(q) \/ RemoveDevice(q)
InboxRoutes(q) == MarkRead(q)

DeviceStatement(q) ==
  InsertDevice(q) \/ SelectDevice(q) \/ UpdateDevice(q) \/ DeactivateDevice(q)

Dispatch(q) ==
  \/ Broadcast(q) \/ NotifyUser(q) \/ InsertNotices(q) \/ FindDevices(q) \/ Push(q)
  \/ SaveRead(q)

NotificationsNext ==
  \/ MarkAllRead
  \/ \E q \in Requests :
       \/ PhoneRoutes(q) \/ InboxRoutes(q) \/ DeviceStatement(q) \/ Dispatch(q)
       \/ Block(q) \/ SaveBlock(q) \/ NoticeCrash(q)

NotificationsSpec == NotificationsInit /\ [][NotificationsNext]_nvars

-----------------------------------------------------------------------------
(* Properties.                                                             *)

\* The row of a phone says who holds it and that it is active, or that it is not.
Placed(p) ==
  IF holder[p] = Nobody THEN p \in Installed => ~devices[p].active
                        ELSE p \in Installed /\ devices[p] = Registered(holder[p])

\* A phone gets the notifications of the user who has registered it last, and
\* no others, whoever had it before; and "blocked users are never notified,
\* whatever the audience" of a broadcast.  Only an overlap breaks one of these,
\* and each one for one phone, one push or one broadcast: a registration that
\* compares the row before the former user removes the phone, one between the
\* look for the phones and the push, a block between the look and the insert.
NoticesFollowUsers ==
  /\ Cardinality({p \in Phones : ~Placed(p)}) + missent <= overlaps
  /\ strays <= overlaps
=============================================================================
