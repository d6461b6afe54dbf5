--------------------------- MODULE ProfilesProofs ----------------------------
(***************************************************************************)
(* Theorems about the modules that MCProfiles composes: the agents and     *)
(* their calendars, then the customers' addresses and their zones.         *)
(***************************************************************************)
EXTENDS Agents, Addresses, ServerProofs, WellFoundedInduction

\* What a request has in its memory, by the steps it may be at.
AgentSaves == SaveOf("agents", Agent, Row, {"touch", "status", "approval"})
PaperSaves == SaveOf("documents", 1..MaxRows, Document, {"upload", "verify"})
JobSaves   == SaveOf("bookings", Bookings, Booking, {"move", "assign"})
Looks      == [at: {"ping", "papers", "count"}, key: Agent, mem: Row]
Inserts    == [at: {"insertDocument", "insertBank", "insertAttendance",
                    "insertAvailability"}]
Marks      == [at: {"remove", "checkOut"}, i: 1..MaxRows]
Calls      == [at: {"claim", "begin", "finish", "giveUp"}, a: Agent, b: Bookings]
Rereads    == [at: {"reread"}, b: Bookings]
Choices    == [at: {"candidate", "clash"}, a: Agent, b: Bookings, mem: Booking]

LEMMA StepSplit ==
  Step = {Idle} \cup AgentSaves \cup PaperSaves \cup JobSaves \cup Looks \cup Inserts
           \cup Marks \cup Calls \cup Rereads \cup Choices
BY DEF Step, AgentSaves, PaperSaves, JobSaves, Looks, Inserts, Marks, Calls, Rereads,
       Choices

SavesTo(r, table) == r.at \in {"select", "update"} /\ r.table = table

\* The rows a request is about are there, a job is offered to the agent it
\* will be given to, and who sends a ping was at work.
There(r) ==
  /\ SavesTo(r, "documents") => r.key \in DOMAIN documents
  /\ r.at = "remove" => r.i \in DOMAIN documents
  /\ r.at = "checkOut" => r.i \in DOMAIN attendance
  /\ r.at \in {"candidate", "clash"} => r.mem.agent = r.a /\ r.mem.status # "ongoing"
  /\ r.at = "ping" => r.mem.status # "SUSPENDED"

RowsTyped ==
  /\ part \in {"desk", "jobs"}
  /\ agents \in [Agent -> Row]
  /\ documents \in Seq(Document) /\ Len(documents) <= MaxRows
  /\ attendance \in Seq({"in", "out"}) /\ Len(attendance) <= MaxRows
  /\ banks \in {0, 1} /\ availability \in 0..MaxRows
  /\ bookings \in [Bookings -> Booking]
  /\ lost \in Nat

TypeInv == RowsTyped /\ ServerTyped(Step) /\ \A q \in Requests : There(req[q])

LEMMA TypeSplit == TypeInv <=> TypeOK /\ \A q \in Requests : There(req[q])
BY DEF TypeInv, TypeOK, RowsTyped, ServerTyped

LEMMA Memory ==
  ASSUME TypeInv, NEW q \in Requests
  PROVE  /\ At(q, "idle") => req[q] = Idle
         /\ SavesTo(req[q], "agents") => req[q] \in AgentSaves
         /\ SavesTo(req[q], "documents") =>
              req[q] \in PaperSaves /\ req[q].key \in DOMAIN documents
         /\ SavesTo(req[q], "bookings") => req[q] \in JobSaves
         /\ req[q].at \in {"select", "update"} =>
              req[q].table \in {"agents", "documents", "bookings"}
         /\ req[q].at \in {"ping", "papers", "count"} => req[q] \in Looks
         /\ req[q].at \in {"remove", "checkOut"} => req[q] \in Marks
         /\ req[q].at \in {"claim", "begin", "finish", "giveUp"} => req[q] \in Calls
         /\ At(q, "reread") => req[q] \in Rereads
         /\ req[q].at \in {"candidate", "clash"} =>
              req[q] \in Choices /\ req[q].mem.agent = req[q].a
                /\ req[q].mem.status # "ongoing"
<1>1. req[q] \in Step /\ There(req[q])
  BY DEF TypeInv, ServerTyped
<1>2. Idle.at = "idle"
  BY DEF Idle
<1>3. CASE req[q] \in {Idle} \cup Inserts
  BY <1>2, <1>3 DEF Inserts, SavesTo, At
<1>4. CASE req[q] \in AgentSaves
  BY <1>4 DEF AgentSaves, SaveOf, SavesTo, At
<1>5. CASE req[q] \in PaperSaves
  BY <1>1, <1>5 DEF PaperSaves, SaveOf, SavesTo, At, There
<1>6. CASE req[q] \in JobSaves
  BY <1>6 DEF JobSaves, SaveOf, SavesTo, At
<1>7. CASE req[q] \in Looks \cup Marks \cup Calls
  BY <1>7 DEF Looks, Marks, Calls, SavesTo, At
<1>8. CASE req[q] \in Rereads \cup Choices
  BY <1>1, <1>8 DEF Rereads, Choices, SavesTo, At, There
<1>9. QED
  BY <1>1, <1>3, <1>4, <1>5, <1>6, <1>7, <1>8, StepSplit

\* Rows are changed in place and appended, never taken back.
RowsKept == DOMAIN documents \subseteq DOMAIN documents' /\ DOMAIN attendance \subseteq DOMAIN attendance'

LEMMA OneMoves ==
  ASSUME TypeInv, RowsTyped', RowsKept, ServerTyped(Step)', NEW q \in Requests,
         There(req[q])', \A p \in Requests \ {q} : req'[p] = req[p]
  PROVE  TypeInv'
<1>1. ASSUME NEW p \in Requests PROVE There(req[p])'
  <2>1. CASE p = q
    BY <2>1
  <2>2. CASE p # q
    <3>1. req'[p] = req[p] /\ There(req[p])
      BY <2>2 DEF TypeInv
    <3>2. QED
      BY <3>1 DEF There, RowsKept, SavesTo
  <2>3. QED
    BY <2>1, <2>2
<1>2. QED
  BY <1>1 DEF TypeInv

LEMMA DataKept ==
  ASSUME TypeInv, UNCHANGED adata
  PROVE  RowsTyped' /\ RowsKept
BY DEF TypeInv, RowsTyped, RowsKept, adata, desk

\* A handler has looked something up and changed no row.
LEMMA LookTyped ==
  ASSUME TypeInv, NEW q \in Requests, NEW r \in Step, There(r), UNCHANGED adata,
         Start(q, r) \/ Go(q, r)
  PROVE  TypeInv'
<1>1. ServerTyped(Step)'
  BY StartTyped, GoTyped DEF TypeInv
<1>2. req'[q] = r /\ \A p \in Requests \ {q} : req'[p] = req[p]
  BY DEF Start, Go, TypeInv, ServerTyped
<1>3. There(req[q])'
  BY <1>2 DEF There, SavesTo, adata, desk
<1>4. QED
  BY <1>1, <1>2, <1>3, DataKept, OneMoves

LEMMA IdleThere == Idle \in Step /\ There(Idle)
BY StepSplit DEF Idle, There, SavesTo

-----------------------------------------------------------------------------
(* What a handler has after its first step.                                *)

EditsAgent(r) ==
  \E a \in Agent, mem \in Row :
    \/ /\ r = Save("agents", a, mem, "touch")
       /\ mem.status = agents[a].status /\ mem.approval = agents[a].approval
    \/ r = Save("agents", a, mem, "approval") /\ mem.status = "PENDING"
    \/ /\ r = Save("agents", a, mem, "status")
       /\ mem.status = "ACTIVE" /\ mem.approval = agents[a].approval

LooksUp(r) ==
  \E a \in Agent, at \in {"ping", "papers", "count"} :
    /\ r = [at |-> at, key |-> a, mem |-> agents[a]]
    /\ at = "ping" => Working(a)

Files(r) ==
  \E i \in Kept :
    \/ \E mem \in Document, op \in {"upload", "verify"} :
         /\ r = Save("documents", i, mem, op) /\ mem.status # "REMOVED"
         /\ op = "upload" => documents[i].status # "VERIFIED"
    \/ r = [at |-> "remove", i |-> i] /\ documents[i].status # "VERIFIED"

Adds(r) ==
  \/ r = [at |-> "insertDocument"] /\ Kept = {}
  \/ r = [at |-> "insertBank"] /\ banks = 0
  \/ r = [at |-> "insertAttendance"] /\ attendance = <<>>
  \/ r = [at |-> "insertAvailability"] /\ availability = 0

ChecksOut(r) == \E i \in DOMAIN attendance : r = [at |-> "checkOut", i |-> i]

CallsJob(r) ==
  \E a \in Agent, b \in Bookings, at \in {"claim", "begin", "finish", "giveUp"} :
    r = [at |-> at, a |-> a, b |-> b] /\ Working(a)

MovesJob(r) ==
  \E b \in Bookings, mem \in Booking :
    /\ r = Save("bookings", b, mem, "move")
    /\ mem.agent = bookings[b].agent /\ mem.status # "ongoing"

OffersJob(r) ==
  \E a \in Agent, b \in Bookings, mem \in Booking :
    /\ r = [at |-> "candidate", a |-> a, b |-> b, mem |-> mem]
    /\ mem.agent = a /\ mem.status # "ongoing" /\ mem.start = bookings[b].start

Arrives(r) ==
  \/ EditsAgent(r) \/ LooksUp(r) \/ Files(r) \/ Adds(r) \/ ChecksOut(r)
  \/ CallsJob(r) \/ MovesJob(r) \/ OffersJob(r)

LEMMA ArrivesIs ==
  ASSUME NEW r, Arrives(r)
  PROVE  /\ SavesTo(r, "agents") => EditsAgent(r)
         /\ r.at \in {"ping", "papers", "count"} => LooksUp(r)
         /\ SavesTo(r, "documents") \/ r.at = "remove" => Files(r)
         /\ SavesTo(r, "documents") => r.key \in Kept
         /\ r.at \in {"insertDocument", "insertBank", "insertAttendance",
                      "insertAvailability"} => Adds(r)
         /\ r.at \in {"claim", "begin", "finish", "giveUp"} => CallsJob(r)
         /\ SavesTo(r, "bookings") => MovesJob(r)
         /\ r.at \in {"candidate", "clash"} => OffersJob(r)
         /\ r.at \in {"ping", "papers", "count", "remove", "checkOut", "claim", "begin",
                      "finish", "giveUp", "candidate", "select"} \cup
                    {"insertDocument", "insertBank", "insertAttendance",
                     "insertAvailability"}
<1>1. CASE EditsAgent(r)
  <2>1. r.at = "select" /\ r.table = "agents"
    BY <1>1 DEF EditsAgent, Save
  <2>2. QED
    BY <1>1, <2>1 DEF SavesTo
<1>2. CASE LooksUp(r)
  <2>1. r.at \in {"ping", "papers", "count"}
    BY <1>2 DEF LooksUp
  <2>2. QED
    BY <1>2, <2>1 DEF SavesTo
<1>3. CASE Files(r)
  <2>1. \/ r.at = "select" /\ r.table = "documents" /\ r.key \in Kept
        \/ r.at = "remove"
    BY <1>3 DEF Files, Save
  <2>2. QED
    BY <1>3, <2>1 DEF SavesTo
<1>4. CASE Adds(r)
  <2>1. r.at \in {"insertDocument", "insertBank", "insertAttendance", "insertAvailability"}
    BY <1>4 DEF Adds
  <2>2. QED
    BY <1>4, <2>1 DEF SavesTo
<1>5. CASE ChecksOut(r)
  <2>1. r.at = "checkOut"
    BY <1>5 DEF ChecksOut
  <2>2. QED
    BY <2>1 DEF SavesTo
<1>6. CASE CallsJob(r)
  <2>1. r.at \in {"claim", "begin", "finish", "giveUp"}
    BY <1>6 DEF CallsJob
  <2>2. QED
    BY <1>6, <2>1 DEF SavesTo
<1>7. CASE MovesJob(r)
  <2>1. r.at = "select" /\ r.table = "bookings"
    BY <1>7 DEF MovesJob, Save
  <2>2. QED
    BY <1>7, <2>1 DEF SavesTo
<1>8. CASE OffersJob(r)
  <2>1. r.at = "candidate"
    BY <1>8 DEF OffersJob
  <2>2. QED
    BY <1>8, <2>1 DEF SavesTo
<1>9. QED
  BY <1>1, <1>2, <1>3, <1>4, <1>5, <1>6, <1>7, <1>8 DEF Arrives

\* A request of a handler whose first step r is.
Begun(q) ==
  UNCHANGED adata /\ \E r \in Step : There(r) /\ Arrives(r) /\ Start(q, r)

LEMMA EditsBegin ==
  ASSUME TypeInv, NEW q \in Requests, NEW a \in Agent,
         \/ Register(q, a) \/ EditProfile(q, a) \/ SetBoost(q, a) \/ BackfillAgent(q, a)
         \/ AssignZones(q, a) \/ Reject(q, a) \/ Activate(q, a)
  PROVE  Begun(q)
<1>1. agents[a] \in Row
  BY DEF TypeInv, RowsTyped
<1>2. ASSUME NEW mem \in Row, NEW op \in {"touch", "status", "approval"},
             Start(q, Save("agents", a, mem, op)), UNCHANGED adata,
             EditsAgent(Save("agents", a, mem, op))
      PROVE  Begun(q)
  <2>1. Save("agents", a, mem, op) \in AgentSaves
    BY DEF Save, AgentSaves, SaveOf
  <2>2. There(Save("agents", a, mem, op))
    BY DEF Save, There, SavesTo
  <2>3. QED
    BY <1>2, <2>1, <2>2, StepSplit DEF Begun, Arrives
<1>3. CASE Register(q, a)
  <2> DEFINE mem == [agents[a] EXCEPT !.named = TRUE]
  <2>1. mem \in Row /\ mem.status = agents[a].status /\ mem.approval = agents[a].approval
    BY <1>1 DEF Row
  <2> HIDE DEF mem
  <2>2. EditsAgent(Save("agents", a, mem, "touch"))
    BY <2>1 DEF EditsAgent
  <2>3. QED
    BY <1>2, <1>3, <2>1, <2>2 DEF Register, mem
<1>4. CASE \/ EditProfile(q, a) \/ SetBoost(q, a) \/ BackfillAgent(q, a)
           \/ AssignZones(q, a)
  <2>1. EditsAgent(Save("agents", a, agents[a], "touch"))
    BY <1>1 DEF EditsAgent
  <2>2. QED
    BY <1>1, <1>2, <1>4, <2>1 DEF EditProfile, SetBoost, BackfillAgent, AssignZones
<1>5. CASE Reject(q, a)
  <2> DEFINE mem == [agents[a] EXCEPT !.approval = "REJECTED", !.status = "PENDING"]
  <2>1. mem \in Row /\ mem.status = "PENDING"
    BY <1>1 DEF Row
  <2> HIDE DEF mem
  <2>2. EditsAgent(Save("agents", a, mem, "approval"))
    BY <2>1 DEF EditsAgent
  <2>3. QED
    BY <1>2, <1>5, <2>1, <2>2 DEF Reject, mem
<1>6. CASE Activate(q, a)
  <2> DEFINE mem == [agents[a] EXCEPT !.status = "ACTIVE"]
  <2>1. mem \in Row /\ mem.status = "ACTIVE" /\ mem.approval = agents[a].approval
    BY <1>1 DEF Row
  <2> HIDE DEF mem
  <2>2. EditsAgent(Save("agents", a, mem, "status"))
    BY <2>1 DEF EditsAgent
  <2>3. QED
    BY <1>2, <1>6, <2>1, <2>2 DEF Activate, mem
<1>7. QED
  BY <1>3, <1>4, <1>5, <1>6

LEMMA LooksBegin ==
  ASSUME TypeInv, NEW q \in Requests, NEW a \in Agent,
         Ping(q, a) \/ Approve(q, a) \/ Suspend(q, a)
  PROVE  Begun(q)
<1>1. PICK at \in {"ping", "papers", "count"} :
        /\ Start(q, [at |-> at, key |-> a, mem |-> agents[a]]) /\ UNCHANGED adata
        /\ at = "ping" => Working(a)
  BY DEF Ping, Approve, Suspend
<1> DEFINE r == [at |-> at, key |-> a, mem |-> agents[a]]
<1>2. r \in Looks
  BY DEF Looks, TypeInv, RowsTyped
<1>3. There(r) /\ LooksUp(r)
  BY <1>1 DEF There, SavesTo, LooksUp, Working
<1>4. QED
  BY <1>1, <1>2, <1>3, StepSplit DEF Begun, Arrives
LEMMA KeptThere ==
  ASSUME TypeInv, AgentsAssumption
  PROVE  Kept \subseteq DOMAIN documents /\ DOMAIN documents \subseteq 1..MaxRows
<1>1. DOMAIN documents = 1..Len(documents) /\ Len(documents) \in Nat
      /\ Len(documents) <= MaxRows /\ MaxRows \in Nat
  BY DEF TypeInv, RowsTyped, AgentsAssumption
<1>2. QED
  BY <1>1 DEF Kept

LEMMA FilesBegin ==
  ASSUME TypeInv, AgentsAssumption, NEW q \in Requests,
         ReplaceDocument(q) \/ VerifyDocument(q) \/ RemoveDocument(q)
  PROVE  Begun(q)
<1>1. ASSUME NEW i \in Kept, NEW mem \in Document, NEW op \in {"upload", "verify"},
             mem.status # "REMOVED", op = "upload" => documents[i].status # "VERIFIED",
             Start(q, Save("documents", i, mem, op)), UNCHANGED adata
      PROVE  Begun(q)
  <2>1. i \in DOMAIN documents /\ i \in 1..MaxRows
    BY KeptThere
  <2>2. Save("documents", i, mem, op) \in PaperSaves
    BY <2>1 DEF Save, PaperSaves, SaveOf
  <2>3. There(Save("documents", i, mem, op))
    BY <2>1 DEF Save, There, SavesTo
  <2>4. Files(Save("documents", i, mem, op))
    BY <1>1 DEF Files
  <2>5. QED
    BY <1>1, <2>2, <2>3, <2>4, StepSplit DEF Begun, Arrives
<1>2. \A status \in {"PENDING", "VERIFIED", "REJECTED"} : [status |-> status] \in Document
  BY DEF Document
<1>3. CASE ReplaceDocument(q)
  <2>1. PICK i \in Kept : /\ documents[i].status # "VERIFIED"
                          /\ Start(q, Save("documents", i, [status |-> "PENDING"], "upload"))
    BY <1>3 DEF ReplaceDocument
  <2>2. UNCHANGED adata
    BY <1>3 DEF ReplaceDocument
  <2> DEFINE mem == [status |-> "PENDING"]
  <2>3. mem \in Document /\ mem.status # "REMOVED"
    BY <1>2
  <2> HIDE DEF mem
  <2>4. QED
    BY <1>1, <2>1, <2>2, <2>3 DEF mem
<1>4. CASE VerifyDocument(q)
  <2>1. PICK i \in Kept, status \in {"VERIFIED", "REJECTED"} :
          Start(q, Save("documents", i, [status |-> status], "verify"))
    BY <1>4 DEF VerifyDocument
  <2>2. UNCHANGED adata
    BY <1>4 DEF VerifyDocument
  <2> DEFINE mem == [status |-> status]
  <2>3. mem \in Document /\ mem.status # "REMOVED"
    BY <1>2
  <2> HIDE DEF mem
  <2>4. QED
    BY <1>1, <2>1, <2>2, <2>3 DEF mem
<1>5. CASE RemoveDocument(q)
  <2>1. PICK i \in Kept : /\ documents[i].status # "VERIFIED"
                          /\ Start(q, [at |-> "remove", i |-> i])
    BY <1>5 DEF RemoveDocument
  <2> DEFINE r == [at |-> "remove", i |-> i]
  <2>2. i \in DOMAIN documents /\ i \in 1..MaxRows
    BY KeptThere
  <2>3. r \in Marks /\ There(r)
    BY <2>2 DEF Marks, There, SavesTo
  <2>4. Files(r)
    BY <2>1 DEF Files
  <2>5. QED
    BY <1>5, <2>1, <2>3, <2>4, StepSplit DEF Begun, Arrives, RemoveDocument
<1>6. QED
  BY <1>3, <1>4, <1>5

LEMMA AddsBegin ==
  ASSUME TypeInv, NEW q \in Requests,
         UploadDocument(q) \/ SaveBank(q) \/ CheckIn(q) \/ UpdateAvailability(q)
  PROVE  Begun(q)
<1>1. PICK at \in {"insertDocument", "insertBank", "insertAttendance",
                   "insertAvailability"} :
        Start(q, [at |-> at]) /\ UNCHANGED adata /\ Adds([at |-> at])
  <2>1. banks \in Nat /\ availability \in Nat
    BY DEF TypeInv, RowsTyped
  <2>2. QED
    BY <2>1 DEF UploadDocument, SaveBank, CheckIn, UpdateAvailability, Inserting, Adds
<1> DEFINE r == [at |-> at]
<1>2. r \in Inserts /\ There(r)
  BY DEF Inserts, There, SavesTo
<1>3. QED
  BY <1>1, <1>2, StepSplit DEF Begun, Arrives

LEMMA CheckOutBegins ==
  ASSUME TypeInv, AgentsAssumption, NEW q \in Requests, CheckOut(q)
  PROVE  Begun(q)
<1>1. PICK i \in DOMAIN attendance : Start(q, [at |-> "checkOut", i |-> i])
  BY DEF CheckOut
<1> DEFINE r == [at |-> "checkOut", i |-> i]
<1>2. DOMAIN attendance = 1..Len(attendance) /\ Len(attendance) \in Nat
  BY DEF TypeInv, RowsTyped
<1>3. i \in 1..MaxRows
  BY <1>2 DEF TypeInv, RowsTyped, AgentsAssumption
<1>4. r \in Marks /\ There(r)
  BY <1>3 DEF Marks, There, SavesTo
<1>5. ChecksOut(r)
  BY DEF ChecksOut
<1>6. QED
  BY <1>1, <1>4, <1>5, StepSplit DEF Begun, Arrives, CheckOut

LEMMA JobIs ==
  ASSUME TypeInv, NEW b \in Bookings
  PROVE  /\ bookings[b] \in Booking
         /\ \A to \in Status : [bookings[b] EXCEPT !.status = to] \in Booking
         /\ \A start \in Starts : [bookings[b] EXCEPT !.start = start] \in Booking
         /\ \A a \in Agent \cup {None} : [bookings[b] EXCEPT !.agent = a] \in Booking
         /\ \A a \in Agent \cup {None}, to \in Status :
              [bookings[b] EXCEPT !.agent = a, !.status = to] \in Booking
BY DEF TypeInv, RowsTyped, Booking

LEMMA MoveBegins ==
  ASSUME TypeInv, NEW q \in Requests, NEW b \in Bookings, NEW mem \in Booking,
         Start(q, Save("bookings", b, mem, "move")), UNCHANGED adata,
         mem.agent = bookings[b].agent, mem.status # "ongoing"
  PROVE  Begun(q)
<1>1. Save("bookings", b, mem, "move") \in JobSaves
  BY DEF Save, JobSaves, SaveOf
<1>2. There(Save("bookings", b, mem, "move"))
  BY DEF Save, There, SavesTo
<1>3. MovesJob(Save("bookings", b, mem, "move"))
  BY DEF MovesJob
<1>4. QED
  BY <1>1, <1>2, <1>3, StepSplit DEF Begun, Arrives

LEMMA JobsBegin ==
  ASSUME TypeInv, NEW q \in Requests, NEW b \in Bookings,
         Pay(q, b) \/ Cancel(q, b) \/ Reschedule(q, b)
  PROVE  Begun(q)
<1>1. bookings[b] \in Booking
  BY JobIs
<1>2. ASSUME NEW to \in {"paid", "cancelled"}, UNCHANGED adata,
             Start(q, Save("bookings", b, [bookings[b] EXCEPT !.status = to], "move"))
      PROVE  Begun(q)
  <2> DEFINE mem == [bookings[b] EXCEPT !.status = to]
  <2>1. mem \in Booking /\ mem.agent = bookings[b].agent /\ mem.status # "ongoing"
    BY <1>1 DEF Booking, Status
  <2> HIDE DEF mem
  <2>2. QED
    BY <1>2, <2>1, MoveBegins DEF mem
<1>3. CASE Reschedule(q, b)
  <2>1. PICK start \in Starts :
          Start(q, Save("bookings", b, [bookings[b] EXCEPT !.start = start], "move"))
    BY <1>3 DEF Reschedule
  <2> DEFINE mem == [bookings[b] EXCEPT !.start = start]
  <2>2. mem \in Booking /\ mem.agent = bookings[b].agent /\ mem.status # "ongoing"
    BY <1>1, <1>3, JobIs DEF Booking, Reschedule, Reschedulable
  <2> HIDE DEF mem
  <2>3. UNCHANGED adata
    BY <1>3 DEF Reschedule
  <2>4. QED
    BY <2>1, <2>2, <2>3, MoveBegins DEF mem
<1>4. QED
  BY <1>2, <1>3 DEF Pay, Cancel

LEMMA OffersBegin ==
  ASSUME TypeInv, NEW q \in Requests, NEW b \in Bookings, NEW a \in Agent,
         Assign(q, b, a) \/ Reassign(q, b, a)
  PROVE  Begun(q)
<1>1. bookings[b] \in Booking
  BY JobIs
<1>2. ASSUME NEW mem \in Booking, mem.agent = a, mem.status # "ongoing",
             mem.start = bookings[b].start, Assigning(q, b, mem)
      PROVE  Begun(q)
  <2> DEFINE r == [at |-> "candidate", a |-> mem.agent, b |-> b, mem |-> mem]
  <2>1. r \in Choices /\ There(r)
    BY <1>2 DEF Choices, There, SavesTo
  <2>2. OffersJob(r)
    BY <1>2 DEF OffersJob
  <2>3. QED
    BY <1>2, <2>1, <2>2, StepSplit DEF Begun, Arrives, Assigning
<1>3. CASE Assign(q, b, a)
  <2> DEFINE to  == IF bookings[b].status = "paid" THEN "accepted" ELSE bookings[b].status
             mem == [bookings[b] EXCEPT !.agent = a, !.status = to]
  <2>1. to \in Status /\ to # "ongoing"
    BY <1>1, <1>3 DEF Assign, Assignable, Booking, Status
  <2>2. Assigning(q, b, mem)
    BY <1>3 DEF Assign
  <2> HIDE DEF to
  <2>3. mem \in Booking /\ mem.agent = a /\ mem.status # "ongoing"
        /\ mem.start = bookings[b].start
    BY <1>1, <2>1 DEF Booking
  <2> HIDE DEF mem
  <2>4. QED
    BY <1>2, <2>2, <2>3
<1>4. CASE Reassign(q, b, a)
  <2> DEFINE mem == [bookings[b] EXCEPT !.agent = a]
  <2>1. Assigning(q, b, mem)
    BY <1>4 DEF Reassign
  <2>2. mem \in Booking /\ mem.agent = a /\ mem.status # "ongoing"
        /\ mem.start = bookings[b].start
    BY <1>1, <1>4 DEF Booking, Reassign, PastRelease
  <2> HIDE DEF mem
  <2>3. QED
    BY <1>2, <2>1, <2>2
<1>5. QED
  BY <1>3, <1>4

LEMMA CallBegins ==
  ASSUME TypeInv, NEW q \in Requests, NEW a \in Agent, NEW b \in Bookings,
         NEW at \in {"claim", "giveUp", "begin", "finish"}, AsAgent(q, a, b, at)
  PROVE  Begun(q)
<1> DEFINE r == [at |-> at, a |-> a, b |-> b]
<1>1. r \in Calls /\ There(r)
  BY DEF Calls, There, SavesTo
<1>2. CallsJob(r)
  BY DEF CallsJob, AsAgent
<1>3. QED
  BY <1>1, <1>2, StepSplit DEF Begun, Arrives, AsAgent

Routes(q) ==
  \/ RegistrationRoutes(q) \/ ProfileRoutes(q) \/ SkillRoutes(q) \/ LocationRoutes(q)
  \/ DocumentRoutes(q) \/ BankRoutes(q) \/ AttendanceRoutes(q) \/ AvailabilityRoutes(q)
  \/ AgentRoutes(q) \/ JobRoutes(q) \/ \E a \in Followed : BackfillAgent(q, a)

LEMMA RoutesBegin ==
  ASSUME TypeInv, AgentsAssumption, NEW q \in Requests, Routes(q)
  PROVE  Begun(q)
<1>1. Followed \subseteq Agent
  BY DEF AgentsAssumption
<1>2. CASE RegistrationRoutes(q) \/ ProfileRoutes(q) \/ SkillRoutes(q)
           \/ \E a \in Followed : BackfillAgent(q, a)
  BY <1>1, <1>2, EditsBegin DEF RegistrationRoutes, ProfileRoutes, SkillRoutes
<1>3. CASE LocationRoutes(q)
  BY <1>1, <1>3, LooksBegin DEF LocationRoutes
<1>4. CASE DocumentRoutes(q)
  BY <1>4, FilesBegin, AddsBegin DEF DocumentRoutes
<1>5. CASE BankRoutes(q) \/ AttendanceRoutes(q) \/ AvailabilityRoutes(q)
  BY <1>5, AddsBegin, CheckOutBegins DEF BankRoutes, AttendanceRoutes, AvailabilityRoutes
<1>6. CASE AgentRoutes(q)
  BY <1>1, <1>6, FilesBegin, EditsBegin, LooksBegin DEF AgentRoutes
<1>7. CASE JobRoutes(q)
  BY <1>7, CallBegins, JobsBegin, OffersBegin DEF JobRoutes
<1>8. QED
  BY <1>2, <1>3, <1>4, <1>5, <1>6, <1>7 DEF Routes
-----------------------------------------------------------------------------
(* What a handler has after a later step that writes no row.               *)

\* What the row that a save is about has in it.
Target(r) == Table(r.table)[r.key]

Selects(r, n) ==
  /\ r.at = "select" /\ n.at = "update"
  /\ n.table = r.table /\ n.key = r.key /\ n.mem = r.mem /\ n.op = r.op
  /\ n.dirty = {c \in DOMAIN Target(r) : Target(r)[c] # r.mem[c]}

DecidesOn(r, n) ==
  \E mem \in Row :
    \/ r.at = "ping" /\ mem = r.mem /\ n = Save("agents", r.key, mem, "touch")
    \/ /\ r.at = "papers" /\ n = Save("agents", r.key, mem, "approval")
       /\ mem.status = "ACTIVE"
    \/ /\ r.at = "count" /\ n = Save("agents", r.key, mem, "status")
       /\ Ongoing(r.key) = {} /\ mem.approval = r.mem.approval

TakesJobOn(r, n) ==
  \E mem \in Booking :
    /\ n = Save("bookings", r.b, mem, "move")
    /\ \/ /\ r.at \in {"reread", "finish"}
          /\ mem.agent = bookings[r.b].agent /\ mem.status \in {"accepted", "completed"}
       \/ r.at = "giveUp" /\ mem.agent = None /\ mem.status = "paid"
       \/ /\ r.at = "begin" /\ mem.agent = r.a /\ bookings[r.b].agent = r.a
          /\ mem.status = "ongoing"

FitsJobIn(r, n) ==
  \/ /\ r.at = "candidate" /\ Working(r.a)
     /\ n = [at |-> "clash", a |-> r.a, b |-> r.b, mem |-> r.mem]
  \/ /\ r.at = "clash" /\ Clash(r.b, r.mem, r.a) = {}
     /\ n = Save("bookings", r.b, r.mem, "assign")

Proceeds(r, n) ==
  n = Idle \/ Selects(r, n) \/ DecidesOn(r, n) \/ TakesJobOn(r, n) \/ FitsJobIn(r, n)

LEMMA ProceedsIs ==
  ASSUME NEW r, NEW n, Proceeds(r, n)
  PROVE  /\ n = Idle \/ n.at \in {"update", "select", "clash"}
         /\ n.at = "update" => Selects(r, n)
         /\ SavesTo(n, "documents") => Selects(r, n)
         /\ SavesTo(n, "agents") => Selects(r, n) \/ DecidesOn(r, n)
         /\ SavesTo(n, "bookings") => Selects(r, n) \/ TakesJobOn(r, n) \/ FitsJobIn(r, n)
         /\ n.at = "clash" => FitsJobIn(r, n)
<1>1. CASE n = Idle
  BY <1>1 DEF Idle, SavesTo
<1>2. CASE Selects(r, n)
  BY <1>2 DEF Selects, SavesTo
<1>3. CASE DecidesOn(r, n)
  <2>1. n.at = "select" /\ n.table = "agents"
    BY <1>3 DEF DecidesOn, Save
  <2>2. QED
    BY <1>3, <2>1 DEF SavesTo
<1>4. CASE TakesJobOn(r, n)
  <2>1. n.at = "select" /\ n.table = "bookings"
    BY <1>4 DEF TakesJobOn, Save
  <2>2. QED
    BY <1>4, <2>1 DEF SavesTo
<1>5. CASE FitsJobIn(r, n)
  <2>1. n.at = "clash" \/ (n.at = "select" /\ n.table = "bookings")
    BY <1>5 DEF FitsJobIn, Save
  <2>2. QED
    BY <1>5, <2>1 DEF SavesTo
<1>6. QED
  BY <1>1, <1>2, <1>3, <1>4, <1>5 DEF Proceeds

Looked(q) ==
  /\ InFlight(q) /\ UNCHANGED adata
  /\ \E n \in Step : There(n) /\ Proceeds(req[q], n) /\ Go(q, n)

LEMMA Answered ==
  ASSUME NEW q \in Requests, InFlight(q), Answer(q), UNCHANGED adata
  PROVE  Looked(q)
BY IdleThere DEF Looked, Answer, Proceeds

LEMMA TargetTyped ==
  ASSUME TypeInv, NEW q \in Requests, req[q].at \in {"select", "update"}
  PROVE  /\ SavesTo(req[q], "agents") => Target(req[q]) \in Row
         /\ SavesTo(req[q], "documents") => Target(req[q]) \in Document
         /\ SavesTo(req[q], "bookings") => Target(req[q]) \in Booking
         /\ DOMAIN Target(req[q]) \subseteq Column
<1>1. SavesTo(req[q], "agents") => Target(req[q]) \in Row
  <2>1. SavesTo(req[q], "agents") => req[q].key \in Agent
    BY Memory DEF AgentSaves, SaveOf
  <2>2. QED
    BY <2>1 DEF Target, Table, SavesTo, TypeInv, RowsTyped
<1>2. SavesTo(req[q], "documents") => Target(req[q]) \in Document
  <2>1. SavesTo(req[q], "documents") => req[q].key \in DOMAIN documents
    BY Memory
  <2>2. QED
    BY <2>1 DEF Target, Table, SavesTo, TypeInv, RowsTyped
<1>3. SavesTo(req[q], "bookings") => Target(req[q]) \in Booking
  <2>1. SavesTo(req[q], "bookings") => req[q].key \in Bookings
    BY Memory DEF JobSaves, SaveOf
  <2>2. QED
    BY <2>1 DEF Target, Table, SavesTo, TypeInv, RowsTyped
<1>4. SavesTo(req[q], "agents") \/ SavesTo(req[q], "documents") \/ SavesTo(req[q], "bookings")
  BY Memory DEF SavesTo
<1>5. /\ \A row \in Row : DOMAIN row \subseteq Column
      /\ \A row \in Document : DOMAIN row \subseteq Column
      /\ \A row \in Booking : DOMAIN row \subseteq Column
  BY DEF Row, Document, Booking, Column
<1>6. QED
  BY <1>1, <1>2, <1>3, <1>4, <1>5

LEMMA SelectLooks ==
  ASSUME TypeInv, NEW q \in Requests, SelectRow(q)
  PROVE  Looked(q)
<1> DEFINE r    == req[q]
           diff == {c \in DOMAIN Target(r) : Target(r)[c] # r.mem[c]}
<1>1. r.at = "select" /\ InFlight(q)
  BY DEF SelectRow, At, InFlight
<1>2. CASE Answer(q)
  BY <1>1, <1>2, Answered DEF SelectRow
<1>3. CASE Go(q, [r EXCEPT !.at = "update", !.dirty = diff])
  <2> DEFINE n == [r EXCEPT !.at = "update", !.dirty = diff]
  <2>1. diff \in SUBSET Column
    BY <1>1, TargetTyped
  <2>2. r \in AgentSaves \cup PaperSaves \cup JobSaves /\ There(r)
    BY <1>1, Memory DEF SavesTo, TypeInv
  <2> HIDE DEF diff
  <2>3. /\ n \in AgentSaves \cup PaperSaves \cup JobSaves
        /\ n.at = "update" /\ n.table = r.table /\ n.key = r.key /\ n.mem = r.mem
        /\ n.op = r.op /\ n.dirty = diff
    BY <2>1, <2>2 DEF AgentSaves, PaperSaves, JobSaves, SaveOf
  <2> HIDE DEF n
  <2>4. There(n)
    BY <1>1, <2>2, <2>3 DEF There, SavesTo
  <2>5. Selects(r, n)
    BY <1>1, <2>3 DEF Selects, diff
  <2>6. QED
    BY <1>1, <1>3, <2>3, <2>4, <2>5, StepSplit DEF Looked, Proceeds, SelectRow, n
<1>4. QED
  BY <1>2, <1>3 DEF SelectRow, Target

LEMMA DecidesLooks ==
  ASSUME TypeInv, NEW q \in Requests, InsertPing(q) \/ CheckPapers(q) \/ CountOngoing(q)
  PROVE  Looked(q)
<1> DEFINE r == req[q]
<1>1. r \in Looks /\ InFlight(q) /\ r.key \in Agent /\ r.mem \in Row
  BY Memory DEF InsertPing, CheckPapers, CountOngoing, At, InFlight, Looks
<1>2. ASSUME NEW mem \in Row, NEW op \in {"touch", "status", "approval"},
             Go(q, Save("agents", r.key, mem, op)), UNCHANGED adata,
             DecidesOn(r, Save("agents", r.key, mem, op))
      PROVE  Looked(q)
  <2>1. Save("agents", r.key, mem, op) \in AgentSaves
    BY <1>1 DEF Save, AgentSaves, SaveOf
  <2>2. There(Save("agents", r.key, mem, op))
    BY DEF Save, There, SavesTo
  <2>3. QED
    BY <1>1, <1>2, <2>1, <2>2, StepSplit DEF Looked, Proceeds
<1>3. CASE InsertPing(q)
  <2>1. DecidesOn(r, Save("agents", r.key, r.mem, "touch"))
    BY <1>1, <1>3 DEF DecidesOn, InsertPing, At
  <2>2. QED
    BY <1>1, <1>2, <1>3, <2>1 DEF InsertPing
<1>4. CASE CheckPapers(q) /\ ~Answer(q)
  <2> DEFINE mem == [r.mem EXCEPT !.approval = "APPROVED", !.status = "ACTIVE"]
  <2>1. Go(q, Save("agents", r.key, mem, "approval")) /\ UNCHANGED adata /\ r.at = "papers"
    BY <1>4 DEF CheckPapers, At
  <2>2. mem \in Row /\ mem.status = "ACTIVE"
    BY <1>1 DEF Row
  <2> HIDE DEF mem
  <2>3. DecidesOn(r, Save("agents", r.key, mem, "approval"))
    BY <2>1, <2>2 DEF DecidesOn
  <2>4. QED
    BY <1>2, <2>1, <2>2, <2>3
<1>5. CASE CountOngoing(q) /\ ~Answer(q)
  <2> DEFINE mem == [r.mem EXCEPT !.status = "SUSPENDED"]
  <2>1. /\ Go(q, Save("agents", r.key, mem, "status")) /\ UNCHANGED adata
        /\ r.at = "count" /\ Ongoing(r.key) = {}
    BY <1>5 DEF CountOngoing, At
  <2>2. mem \in Row /\ mem.approval = r.mem.approval
    BY <1>1 DEF Row
  <2> HIDE DEF mem
  <2>3. DecidesOn(r, Save("agents", r.key, mem, "status"))
    BY <2>1, <2>2 DEF DecidesOn
  <2>4. QED
    BY <1>2, <2>1, <2>2, <2>3
<1>6. CASE Answer(q)
  BY <1>1, <1>6, Answered DEF InsertPing, CheckPapers, CountOngoing
<1>7. QED
  BY <1>3, <1>4, <1>5, <1>6

LEMMA JobsLook ==
  ASSUME TypeInv, NEW q \in Requests,
         AcceptJob(q) \/ ReleaseJob(q) \/ StartJob(q) \/ CompleteJob(q)
  PROVE  Looked(q)
<1> DEFINE r   == req[q]
           row == bookings[r.b]
<1>1. r.b \in Bookings /\ row \in Booking /\ InFlight(q)
  BY Memory, JobIs DEF AcceptJob, ReleaseJob, StartJob, CompleteJob, Mine, At, InFlight,
     Calls, Rereads
<1>2. ASSUME NEW mem \in Booking, Go(q, Save("bookings", r.b, mem, "move")),
             UNCHANGED adata, TakesJobOn(r, Save("bookings", r.b, mem, "move"))
      PROVE  Looked(q)
  <2>1. Save("bookings", r.b, mem, "move") \in JobSaves
    BY <1>1 DEF Save, JobSaves, SaveOf
  <2>2. There(Save("bookings", r.b, mem, "move"))
    BY DEF Save, There, SavesTo
  <2>3. QED
    BY <1>1, <1>2, <2>1, <2>2, StepSplit DEF Looked, Proceeds
<1>3. CASE AcceptJob(q) /\ ~Answer(q)
  <2> DEFINE mem == [row EXCEPT !.status = "accepted"]
  <2>1. Go(q, Save("bookings", r.b, mem, "move")) /\ UNCHANGED adata /\ r.at = "reread"
    BY <1>3 DEF AcceptJob, Move, At
  <2>2. mem \in Booking /\ mem.status = "accepted" /\ mem.agent = row.agent
    BY <1>1 DEF Booking, Status
  <2> HIDE DEF mem
  <2>3. TakesJobOn(r, Save("bookings", r.b, mem, "move"))
    BY <2>1, <2>2 DEF TakesJobOn
  <2>4. QED
    BY <1>2, <2>1, <2>2, <2>3
<1>4. CASE ReleaseJob(q) /\ ~Answer(q)
  <2> DEFINE mem == [row EXCEPT !.agent = None, !.status = "paid"]
  <2>1. Go(q, Save("bookings", r.b, mem, "move")) /\ UNCHANGED adata /\ r.at = "giveUp"
    BY <1>4 DEF ReleaseJob, Mine, At
  <2>2. mem \in Booking /\ mem.status = "paid" /\ mem.agent = None
    BY <1>1 DEF Booking, Status
  <2> HIDE DEF mem
  <2>3. TakesJobOn(r, Save("bookings", r.b, mem, "move"))
    BY <2>1, <2>2 DEF TakesJobOn
  <2>4. QED
    BY <1>2, <2>1, <2>2, <2>3
<1>5. CASE StartJob(q) /\ ~Answer(q)
  <2> DEFINE mem == [row EXCEPT !.status = "ongoing"]
  <2>1. /\ Go(q, Save("bookings", r.b, mem, "move")) /\ UNCHANGED adata
        /\ r.at = "begin" /\ row.agent = r.a
    BY <1>5 DEF StartJob, Mine, At
  <2>2. mem \in Booking /\ mem.status = "ongoing" /\ mem.agent = row.agent
    BY <1>1 DEF Booking, Status
  <2> HIDE DEF mem
  <2>3. TakesJobOn(r, Save("bookings", r.b, mem, "move"))
    BY <2>1, <2>2 DEF TakesJobOn
  <2>4. QED
    BY <1>2, <2>1, <2>2, <2>3
<1>6. CASE CompleteJob(q) /\ ~Answer(q)
  <2> DEFINE mem == [row EXCEPT !.status = "completed"]
  <2>1. Go(q, Save("bookings", r.b, mem, "move")) /\ UNCHANGED adata /\ r.at = "finish"
    BY <1>6 DEF CompleteJob, Mine, At
  <2>2. mem \in Booking /\ mem.status = "completed" /\ mem.agent = row.agent
    BY <1>1 DEF Booking, Status
  <2> HIDE DEF mem
  <2>3. TakesJobOn(r, Save("bookings", r.b, mem, "move"))
    BY <2>1, <2>2 DEF TakesJobOn
  <2>4. QED
    BY <1>2, <2>1, <2>2, <2>3
<1>7. CASE Answer(q)
  BY <1>1, <1>7, Answered DEF AcceptJob, ReleaseJob, StartJob, CompleteJob, Mine
<1>8. QED
  BY <1>3, <1>4, <1>5, <1>6, <1>7

LEMMA OffersLook ==
  ASSUME TypeInv, NEW q \in Requests, CheckCandidate(q) \/ CheckClash(q)
  PROVE  Looked(q)
<1> DEFINE r == req[q]
<1>1. r \in Choices /\ InFlight(q) /\ r.mem.agent = r.a /\ r.mem.status # "ongoing"
  BY Memory DEF CheckCandidate, CheckClash, At, InFlight
<1>2. CASE CheckCandidate(q) /\ ~Answer(q)
  <2> DEFINE n == [at |-> "clash", a |-> r.a, b |-> r.b, mem |-> r.mem]
  <2>1. [r EXCEPT !.at = "clash"] = n
    BY <1>1 DEF Choices
  <2>2. Go(q, n) /\ UNCHANGED adata /\ r.at = "candidate" /\ Working(r.a)
    BY <1>2, <2>1 DEF CheckCandidate, At
  <2>3. n \in Choices /\ There(n)
    BY <1>1 DEF Choices, There, SavesTo
  <2>4. FitsJobIn(r, n)
    BY <2>2 DEF FitsJobIn
  <2>5. QED
    BY <1>1, <2>2, <2>3, <2>4, StepSplit DEF Looked, Proceeds
<1>3. CASE CheckClash(q) /\ ~Answer(q)
  <2> DEFINE n == Save("bookings", r.b, r.mem, "assign")
  <2>1. Go(q, n) /\ UNCHANGED adata /\ r.at = "clash" /\ Clash(r.b, r.mem, r.a) = {}
    BY <1>3 DEF CheckClash, At
  <2>2. n \in JobSaves /\ There(n)
    BY <1>1 DEF Choices, JobSaves, SaveOf, Save, There, SavesTo
  <2>3. FitsJobIn(r, n)
    BY <2>1 DEF FitsJobIn
  <2>4. QED
    BY <1>1, <2>1, <2>2, <2>3, StepSplit DEF Looked, Proceeds
<1>4. CASE Answer(q)
  BY <1>1, <1>4, Answered DEF CheckCandidate, CheckClash
<1>5. QED
  BY <1>2, <1>3, <1>4

LEMMA StatementLooks ==
  ASSUME TypeInv, NEW q \in Requests, Statement(q)
  PROVE  \/ Looked(q)
         \/ InsertDocument(q) \/ DeleteDocument(q) \/ InsertBank(q)
         \/ InsertAttendance(q) \/ CloseAttendance(q) \/ InsertAvailability(q)
         \/ UpdateRow(q) \/ ClaimJob(q)
BY SelectLooks, DecidesLooks, JobsLook, OffersLook DEF Statement

-----------------------------------------------------------------------------
(* The statements that write a row.                                        *)

Writes(q) ==
  \/ InsertDocument(q) \/ DeleteDocument(q) \/ InsertBank(q) \/ InsertAttendance(q)
  \/ CloseAttendance(q) \/ InsertAvailability(q) \/ UpdateRow(q) \/ ClaimJob(q)

\* A step is one of a handler that has read, or of one that writes.
LEMMA StepIs ==
  ASSUME TypeInv, AgentsAssumption, Next
  PROVE  \E q \in Requests : Begun(q) \/ Looked(q) \/ Writes(q) \/ Crash(q)
<1>1. PICK q \in Requests : Routes(q) \/ Statement(q) \/ Crash(q)
  BY DEF Next, Routes
<1>2. QED
  BY <1>1, RoutesBegin, StatementLooks DEF Writes

\* A save changes its own row, and only the columns that it found to differ.
LEMMA UpdateIs ==
  ASSUME TypeInv, NEW q \in Requests, UpdateRow(q)
  PROVE  LET r   == req[q]
             new == Overwrite(Target(r), r.mem, r.dirty)
         IN  /\ agents' = IF r.table = "agents" THEN [agents EXCEPT ![r.key] = new]
                                                ELSE agents
             /\ documents' = IF r.table = "documents"
                               THEN [documents EXCEPT ![r.key] = new] ELSE documents
             /\ bookings' = IF r.table = "bookings" THEN [bookings EXCEPT ![r.key] = new]
                                                    ELSE bookings
             /\ lost' = IF Loses(r, Target(r), new) THEN lost + 1 ELSE lost
             /\ r.at = "update" /\ r.table \in {"agents", "documents", "bookings"}
             /\ Answer(q)
             /\ UNCHANGED <<part, banks, attendance, availability>>
<1>1. req[q].at = "update" /\ req[q].table \in {"agents", "documents", "bookings"}
  BY Memory DEF UpdateRow, At
<1>2. QED
  BY <1>1 DEF UpdateRow, Table, Target

LEMMA OverwriteRow ==
  ASSUME NEW row \in Row, NEW mem \in Row, NEW cols
  PROVE  LET new == Overwrite(row, mem, cols)
         IN  /\ new \in Row
             /\ new.approval = IF "approval" \in cols THEN mem.approval ELSE row.approval
             /\ new.status = IF "status" \in cols THEN mem.status ELSE row.status
BY DEF Overwrite, Row

LEMMA OverwriteDocument ==
  ASSUME NEW row \in Document, NEW mem \in Document, NEW cols
  PROVE  LET new == Overwrite(row, mem, cols)
         IN  /\ new \in Document
             /\ new.status = IF "status" \in cols THEN mem.status ELSE row.status
BY DEF Overwrite, Document

LEMMA OverwriteBooking ==
  ASSUME NEW row \in Booking, NEW mem \in Booking, NEW cols
  PROVE  LET new == Overwrite(row, mem, cols)
         IN  /\ new \in Booking
             /\ new.status = IF "status" \in cols THEN mem.status ELSE row.status
             /\ new.agent = IF "agent" \in cols THEN mem.agent ELSE row.agent
             /\ new.start = IF "start" \in cols THEN mem.start ELSE row.start
BY DEF Overwrite, Booking

\* The row that a save leaves behind.
Left(r) == Overwrite(Target(r), r.mem, r.dirty)

LEMMA LeftIs ==
  ASSUME TypeInv, NEW q \in Requests, At(q, "update")
  PROVE  LET r == req[q]
         IN  /\ r.table = "agents" =>
                  /\ r.key \in Agent /\ r.mem \in Row /\ r.op \in {"touch", "status", "approval"}
                  /\ Target(r) = agents[r.key] /\ Left(r) \in Row
                  /\ Left(r).approval = IF "approval" \in r.dirty
                                          THEN r.mem.approval ELSE agents[r.key].approval
                  /\ Left(r).status = IF "status" \in r.dirty
                                        THEN r.mem.status ELSE agents[r.key].status
             /\ r.table = "documents" =>
                  /\ r.key \in DOMAIN documents /\ r.mem \in Document
                  /\ r.op \in {"upload", "verify"}
                  /\ Target(r) = documents[r.key] /\ Left(r) \in Document
                  /\ Left(r).status = IF "status" \in r.dirty
                                        THEN r.mem.status ELSE documents[r.key].status
             /\ r.table = "bookings" =>
                  /\ r.key \in Bookings /\ r.mem \in Booking /\ r.op \in {"move", "assign"}
                  /\ Target(r) = bookings[r.key] /\ Left(r) \in Booking
                  /\ Left(r).status = IF "status" \in r.dirty
                                        THEN r.mem.status ELSE bookings[r.key].status
                  /\ Left(r).agent = IF "agent" \in r.dirty
                                       THEN r.mem.agent ELSE bookings[r.key].agent
                  /\ Left(r).start = IF "start" \in r.dirty
                                       THEN r.mem.start ELSE bookings[r.key].start
<1> DEFINE r == req[q]
<1>1. r.at = "update"
  BY DEF At
<1>2. ASSUME r.table = "agents"
      PROVE  /\ r.key \in Agent /\ r.mem \in Row /\ r.op \in {"touch", "status", "approval"}
             /\ Target(r) = agents[r.key]
  BY <1>1, <1>2, Memory DEF SavesTo, AgentSaves, SaveOf, Target, Table
<1>3. ASSUME r.table = "documents"
      PROVE  /\ r.key \in DOMAIN documents /\ r.mem \in Document
             /\ r.op \in {"upload", "verify"} /\ Target(r) = documents[r.key]
  BY <1>1, <1>3, Memory DEF SavesTo, PaperSaves, SaveOf, Target, Table
<1>4. ASSUME r.table = "bookings"
      PROVE  /\ r.key \in Bookings /\ r.mem \in Booking /\ r.op \in {"move", "assign"}
             /\ Target(r) = bookings[r.key]
  BY <1>1, <1>4, Memory DEF SavesTo, JobSaves, SaveOf, Target, Table
<1>5. /\ r.table = "agents" => Target(r) \in Row
      /\ r.table = "documents" => Target(r) \in Document
      /\ r.table = "bookings" => Target(r) \in Booking
  BY <1>1, TargetTyped DEF SavesTo
<1> DEFINE row == Target(r)  mem == r.mem  cols == r.dirty
<1>6. r.table = "agents" =>
        /\ Left(r) \in Row
        /\ Left(r).approval = IF "approval" \in r.dirty THEN r.mem.approval ELSE row.approval
        /\ Left(r).status = IF "status" \in r.dirty THEN r.mem.status ELSE row.status
  <2> HIDE DEF row, r
  <2>1. QED
    BY <1>2, <1>5, OverwriteRow DEF Left, row
<1>7. r.table = "documents" =>
        /\ Left(r) \in Document
        /\ Left(r).status = IF "status" \in r.dirty THEN r.mem.status ELSE row.status
  <2> HIDE DEF row, r
  <2>1. QED
    BY <1>3, <1>5, OverwriteDocument DEF Left, row
<1>8. r.table = "bookings" =>
        /\ Left(r) \in Booking
        /\ Left(r).status = IF "status" \in r.dirty THEN r.mem.status ELSE row.status
        /\ Left(r).agent = IF "agent" \in r.dirty THEN r.mem.agent ELSE row.agent
        /\ Left(r).start = IF "start" \in r.dirty THEN r.mem.start ELSE row.start
  <2> HIDE DEF row, r
  <2>1. QED
    BY <1>4, <1>5, OverwriteBooking DEF Left, row
<1>9. QED
  BY <1>2, <1>3, <1>4, <1>6, <1>7, <1>8

\* After a request's last step only its rows can be out of type.
LEMMA AnswerKeeps ==
  ASSUME TypeInv, NEW q \in Requests, Answer(q), RowsTyped', RowsKept
  PROVE  TypeInv'
<1>1. ServerTyped(Step)'
  BY IdleThere, AnswerTyped DEF TypeInv
<1>2. req'[q] = Idle /\ \A p \in Requests \ {q} : req'[p] = req[p]
  BY DEF Answer, Go, TypeInv, ServerTyped
<1>3. There(req[q])'
  BY <1>2 DEF There, SavesTo, Idle
<1>4. QED
  BY <1>1, <1>2, <1>3, OneMoves

LEMMA UpdateTyped ==
  ASSUME TypeInv, NEW q \in Requests, UpdateRow(q)
  PROVE  TypeInv'
<1> DEFINE r == req[q]
<1>1. /\ agents' = IF r.table = "agents" THEN [agents EXCEPT ![r.key] = Left(r)]
                                         ELSE agents
      /\ documents' = IF r.table = "documents"
                        THEN [documents EXCEPT ![r.key] = Left(r)] ELSE documents
      /\ bookings' = IF r.table = "bookings" THEN [bookings EXCEPT ![r.key] = Left(r)]
                                             ELSE bookings
      /\ lost' \in {lost, lost + 1}
      /\ Answer(q)
      /\ UNCHANGED <<part, banks, attendance, availability>>
  BY UpdateIs DEF Left
<1>2. /\ r.table = "agents" => Left(r) \in Row
      /\ r.table = "documents" => Left(r) \in Document /\ r.key \in DOMAIN documents
      /\ r.table = "bookings" => Left(r) \in Booking
  BY LeftIs DEF UpdateRow
<1> HIDE DEF r
<1>3. agents' \in [Agent -> Row] /\ bookings' \in [Bookings -> Booking] /\ lost' \in Nat
  <2>1. agents' \in [Agent -> Row]
    BY <1>1, <1>2 DEF TypeInv, RowsTyped
  <2>2. bookings' \in [Bookings -> Booking]
    BY <1>1, <1>2 DEF TypeInv, RowsTyped
  <2>3. lost' \in Nat
    BY <1>1 DEF TypeInv, RowsTyped
  <2>4. QED
    BY <2>1, <2>2, <2>3
<1>4. documents' \in Seq(Document) /\ Len(documents') = Len(documents)
  BY <1>1, <1>2 DEF TypeInv, RowsTyped
<1>5. RowsTyped' /\ RowsKept
  BY <1>1, <1>3, <1>4 DEF TypeInv, RowsTyped, RowsKept
<1>6. QED
  BY <1>1, <1>5, AnswerKeeps

LEMMA ClaimTyped ==
  ASSUME TypeInv, NEW q \in Requests, ClaimJob(q)
  PROVE  TypeInv'
<1> DEFINE r == req[q]
<1>1. r.b \in Bookings /\ r.a \in Agent
  BY Memory DEF ClaimJob, At, Calls
<1>2. CASE Answer(q) /\ UNCHANGED bookings
  <2>1. UNCHANGED adata
    BY <1>2 DEF ClaimJob, adata
  <2>2. QED
    BY <1>2, <2>1, DataKept, AnswerKeeps
<1>3. CASE ~(Answer(q) /\ UNCHANGED bookings)
  <2> DEFINE n == [at |-> "reread", b |-> r.b]
  <2>1. bookings' = [bookings EXCEPT ![r.b].agent = r.a] /\ Go(q, n)
        /\ UNCHANGED <<part, agents, desk, lost>>
    BY <1>3 DEF ClaimJob
  <2>2. [bookings[r.b] EXCEPT !.agent = r.a] \in Booking
    BY <1>1, JobIs
  <2>3. bookings' \in [Bookings -> Booking]
    BY <1>1, <2>1, <2>2 DEF TypeInv, RowsTyped
  <2>4. RowsTyped' /\ RowsKept
    BY <2>1, <2>3 DEF TypeInv, RowsTyped, RowsKept, desk
  <2>5. n \in Rereads
    BY <1>1 DEF Rereads
  <2>6. n \in Step
    BY <2>5, StepSplit
  <2>7. req'[q] = n /\ \A p \in Requests \ {q} : req'[p] = req[p]
    BY <2>1 DEF Go, TypeInv, ServerTyped
  <2>8. There(req[q])'
    BY <2>7 DEF There, SavesTo
  <2>9. ServerTyped(Step)'
    BY <2>1, <2>6, GoTyped DEF TypeInv
  <2>10. QED
    BY <2>4, <2>7, <2>8, <2>9, OneMoves
<1>4. QED
  BY <1>2, <1>3

LEMMA DeskTyped ==
  ASSUME TypeInv, AgentsAssumption, NEW q \in Requests,
         \/ InsertDocument(q) \/ DeleteDocument(q) \/ InsertBank(q)
         \/ InsertAttendance(q) \/ CloseAttendance(q) \/ InsertAvailability(q)
  PROVE  TypeInv'
<1>1. /\ documents \in Seq(Document) /\ Len(documents) <= MaxRows
      /\ attendance \in Seq({"in", "out"}) /\ Len(attendance) <= MaxRows
      /\ MaxRows \in Nat /\ lost \in Nat
      /\ banks \in {0, 1} /\ availability \in 0..MaxRows
  BY DEF TypeInv, RowsTyped, AgentsAssumption
<1>2. CASE InsertDocument(q)
  <2>1. [status |-> "PENDING"] \in Document
    BY DEF Document
  <2>2. /\ documents' \in Seq(Document) /\ Len(documents') = Len(documents) + 1
        /\ DOMAIN documents \subseteq DOMAIN documents'
    BY <1>1, <1>2, <2>1 DEF InsertDocument
  <2>3. RowsTyped' /\ RowsKept
    BY <1>1, <1>2, <2>2 DEF TypeInv, RowsTyped, RowsKept, InsertDocument
  <2>4. QED
    BY <1>2, <2>3, AnswerKeeps DEF InsertDocument
<1>3. CASE DeleteDocument(q)
  <2> DEFINE i   == req[q].i
             new == [documents[i] EXCEPT !.status = "REMOVED"]
  <2>1. i \in DOMAIN documents
    BY <1>3 DEF DeleteDocument, At, TypeInv, There
  <2>2. new \in Document
    <3>1. documents[i] \in Document
      BY <1>1, <2>1
    <3> HIDE DEF i
    <3>2. QED
      BY <3>1 DEF Document
  <2>3. documents' = [documents EXCEPT ![i] = new]
    BY <1>1, <1>3 DEF DeleteDocument
  <2>4. lost' \in Nat
    BY <1>1, <1>3 DEF DeleteDocument
  <2> HIDE DEF i, new
  <2>5. documents' \in Seq(Document) /\ Len(documents') = Len(documents)
    BY <1>1, <2>1, <2>2, <2>3
  <2>6. RowsTyped' /\ RowsKept
    BY <1>1, <1>3, <2>4, <2>5 DEF TypeInv, RowsTyped, RowsKept, DeleteDocument
  <2>7. QED
    BY <1>3, <2>6, AnswerKeeps DEF DeleteDocument
<1>4. CASE InsertAttendance(q)
  <2>1. /\ attendance' \in Seq({"in", "out"}) /\ Len(attendance') = Len(attendance) + 1
        /\ DOMAIN attendance \subseteq DOMAIN attendance'
    BY <1>1, <1>4 DEF InsertAttendance
  <2>2. RowsTyped' /\ RowsKept
    BY <1>1, <1>4, <2>1 DEF TypeInv, RowsTyped, RowsKept, InsertAttendance
  <2>3. QED
    BY <1>4, <2>2, AnswerKeeps DEF InsertAttendance
<1>5. CASE CloseAttendance(q)
  <2>1. req[q].i \in DOMAIN attendance
    BY <1>5 DEF CloseAttendance, At, TypeInv, There
  <2>2. attendance' \in Seq({"in", "out"}) /\ Len(attendance') = Len(attendance)
    BY <1>1, <1>5, <2>1 DEF CloseAttendance
  <2>3. RowsTyped' /\ RowsKept
    BY <1>1, <1>5, <2>2 DEF TypeInv, RowsTyped, RowsKept, CloseAttendance
  <2>4. QED
    BY <1>5, <2>3, AnswerKeeps DEF CloseAttendance
<1>6. CASE InsertBank(q)
  <2>1. RowsTyped' /\ RowsKept
    BY <1>1, <1>6 DEF TypeInv, RowsTyped, RowsKept, InsertBank
  <2>2. QED
    BY <1>6, <2>1, AnswerKeeps DEF InsertBank
<1>7. CASE InsertAvailability(q)
  <2>1. RowsTyped' /\ RowsKept
    BY <1>1, <1>7 DEF TypeInv, RowsTyped, RowsKept, InsertAvailability
  <2>2. QED
    BY <1>7, <2>1, AnswerKeeps DEF InsertAvailability
<1>8. QED
  BY <1>2, <1>3, <1>4, <1>5, <1>6, <1>7

LEMMA CrashTyped ==
  ASSUME TypeInv, NEW q \in Requests, Crash(q)
  PROVE  TypeInv'
<1>1. ServerTyped(Step)'
  BY IdleThere, DieTyped DEF TypeInv, Crash
<1>2. req'[q] = Idle /\ \A p \in Requests \ {q} : req'[p] = req[p]
  BY DEF Crash, Die, TypeInv, ServerTyped
<1>3. There(req[q])'
  BY <1>2 DEF There, SavesTo, Idle
<1>4. QED
  BY <1>1, <1>2, <1>3, DataKept, OneMoves DEF Crash

LEMMA TypeStep ==
  ASSUME TypeInv, AgentsAssumption, [Next]_vars
  PROVE  TypeInv'
<1>1. CASE Next
  <2>1. PICK q \in Requests : Begun(q) \/ Looked(q) \/ Writes(q) \/ Crash(q)
    BY <1>1, StepIs
  <2>2. CASE Begun(q) \/ Looked(q)
    BY <2>2, LookTyped DEF Begun, Looked
  <2>3. CASE Writes(q)
    BY <2>3, UpdateTyped, ClaimTyped, DeskTyped DEF Writes
  <2>4. QED
    BY <2>1, <2>2, <2>3, CrashTyped
<1>2. CASE UNCHANGED vars
  BY <1>2 DEF vars, adata, desk, server, TypeInv, RowsTyped, ServerTyped, There, SavesTo
<1>3. QED
  BY <1>1, <1>2

LEMMA TypeInit ==
  ASSUME Init, AgentsAssumption
  PROVE  TypeInv
<1>1. New \in Row /\ Approved \in Row
  BY DEF New, Approved, Row
<1>2. agents \in [Agent -> Row] /\ bookings \in [Bookings -> Booking]
  BY <1>1 DEF Init, Booking, Status
<1>3. [status |-> "VERIFIED"] \in Document
  BY DEF Document
<1>4. documents \in Seq(Document) /\ Len(documents) <= MaxRows
  BY <1>3 DEF Init, AgentsAssumption
<1>5. RowsTyped
  BY <1>2, <1>4 DEF Init, RowsTyped, AgentsAssumption
<1>6. \A q \in Requests : req[q] = Idle
  BY DEF Init, ServerInit
<1>7. \A q \in Requests : There(req[q])
  BY <1>6, IdleThere DEF There, SavesTo, Idle
<1>8. ServerTyped(Step)
  BY IdleThere DEF Init, ServerInit, ServerTyped
<1>9. QED
  BY <1>5, <1>7, <1>8 DEF TypeInv

\* Whatever the requests do, in whatever order, and wherever they die, the
\* rows and what the handlers have of them in memory keep their types.
THEOREM AgentTypeCorrect == Spec => []TypeOK
<1>1. Init => TypeInv
  BY AgentsAssumption, TypeInit
<1>2. TypeInv /\ [Next]_vars => TypeInv'
  BY AgentsAssumption, TypeStep
<1>3. TypeInv => TypeOK
  BY TypeSplit
<1>4. QED
  BY <1>1, <1>2, <1>3, PTL DEF Spec

-----------------------------------------------------------------------------
(* The requests in flight.                                                 *)

Others(q) == \A p \in Requests \ {q} : req'[p] = req[p]

LEMMA BegunIs ==
  ASSUME TypeInv, BusyInv, NEW q \in Requests, Begun(q)
  PROVE  /\ UNCHANGED adata /\ UNCHANGED deaths /\ Others(q) /\ ~InFlight(q)
         /\ There(req[q])' /\ req'[q] \in Step /\ Arrives(req'[q])
         /\ overlaps' = IF Busy = {} THEN overlaps ELSE overlaps + 1
         /\ overlaps \in Nat /\ overlaps' \in Nat
         /\ Busy' \in SUBSET (Busy \cup {q}) /\ BusyInv'
<1>1. PICK r \in Step : There(r) /\ Arrives(r) /\ Start(q, r)
  BY DEF Begun
<1>2. req'[q] = r /\ Others(q)
  BY <1>1 DEF Start, TypeInv, ServerTyped, Others
<1>3. UNCHANGED adata
  BY DEF Begun
<1>4. Quiet <=> Busy = {}
  BY DEF Quiet, Busy
<1>5. BusyInv' /\ overlaps' \in Nat /\ overlaps \in Nat
  BY <1>1, StartBusy DEF TypeInv, ServerTyped
<1>6. There(req[q])'
  BY <1>1, <1>2, <1>3 DEF There, SavesTo, adata, desk
<1>7. Busy' \in SUBSET (Busy \cup {q})
  BY <1>2 DEF Others, Busy, InFlight
<1>8. QED
  BY <1>1, <1>2, <1>3, <1>4, <1>5, <1>6, <1>7 DEF Start

\* A request in flight goes on, or is lost.
GoesOn(q) ==
  /\ InFlight(q) /\ Others(q) /\ overlaps' = overlaps /\ overlaps \in Nat
  /\ q \in Busy /\ Busy' \in SUBSET Busy /\ BusyInv'
  /\ req'[q] = Idle => q \notin Busy'

LEMMA GoIs ==
  ASSUME TypeInv, BusyInv, NEW q \in Requests, InFlight(q), NEW n, Go(q, n) \/ (Die(q) /\ n = Idle)
  PROVE  GoesOn(q) /\ req'[q] = n
<1>1. req'[q] = n /\ Others(q) /\ overlaps' = overlaps /\ overlaps \in Nat
  BY DEF Go, Die, TypeInv, ServerTyped, Others
<1>2. BusyInv'
  BY <1>1, StepBusy DEF Others
<1>3. q \in Busy /\ Busy' \in SUBSET Busy
  BY <1>1 DEF Busy, InFlight, Others
<1>4. req'[q] = Idle => q \notin Busy'
  BY DEF Busy, InFlight, Idle
<1>5. QED
  BY <1>1, <1>2, <1>3, <1>4 DEF GoesOn

LEMMA LookedIs ==
  ASSUME TypeInv, BusyInv, NEW q \in Requests, Looked(q)
  PROVE  /\ GoesOn(q) /\ UNCHANGED adata /\ UNCHANGED deaths
         /\ req'[q] \in Step /\ Proceeds(req[q], req'[q])
<1>1. PICK n \in Step : Proceeds(req[q], n) /\ Go(q, n)
  BY DEF Looked
<1>2. QED
  BY <1>1, GoIs DEF Looked, Go

LEMMA WritesIs ==
  ASSUME TypeInv, BusyInv, NEW q \in Requests, Writes(q)
  PROVE  /\ GoesOn(q) /\ UNCHANGED deaths
         /\ ~ClaimJob(q) => req'[q] = Idle /\ Answer(q)
<1>1. InFlight(q)
  BY DEF Writes, InsertDocument, DeleteDocument, InsertBank, InsertAttendance,
     CloseAttendance, InsertAvailability, UpdateRow, ClaimJob, At, InFlight
<1>2. ASSUME ~ClaimJob(q)
      PROVE  Answer(q)
  BY <1>2 DEF Writes, InsertDocument, DeleteDocument, InsertBank, InsertAttendance,
     CloseAttendance, InsertAvailability, UpdateRow
<1>3. \E n : Go(q, n)
  BY <1>2 DEF ClaimJob, Answer
<1>4. QED
  BY <1>1, <1>2, <1>3, GoIs DEF Answer, Go

LEMMA CrashIs ==
  ASSUME TypeInv, BusyInv, NEW q \in Requests, Crash(q)
  PROVE  GoesOn(q) /\ UNCHANGED adata /\ req'[q] = Idle
<1>1. InFlight(q)
  BY DEF Crash, Die
<1>2. QED
  BY <1>1, GoIs DEF Crash

LEMMA BusyStarts == ASSUME Init PROVE BusyInv
<1>1. Busy = {} /\ overlaps = 0
  BY DEF Init, ServerInit, Idle, Busy, InFlight
<1>2. QED
  BY <1>1, FS_EmptySet DEF BusyInv

LEMMA BusyKept ==
  ASSUME TypeInv, BusyInv, [Next]_vars, AgentsAssumption
  PROVE  BusyInv'
<1>1. CASE Next
  <2>1. PICK q \in Requests : Begun(q) \/ Looked(q) \/ Writes(q) \/ Crash(q)
    BY <1>1, StepIs
  <2>2. QED
    BY <2>1, BegunIs, LookedIs, WritesIs, CrashIs DEF GoesOn
<1>2. CASE UNCHANGED vars
  BY <1>2 DEF vars, server, BusyInv, Busy, InFlight
<1>3. QED
  BY <1>1, <1>2

-----------------------------------------------------------------------------
(* The desk rows.                                                          *)

InsertSteps == {"insertDocument", "insertBank", "insertAttendance", "insertAvailability"}

\* The documents that are kept or that a save may bring back.
Saving == {q \in Requests : SavesTo(req[q], "documents")}
Pinned == Kept \cup {req[q].key : q \in Saving}

\* The rows a table has, and the requests about to insert another one.
Rows(at) ==
  CASE at = "insertDocument"     -> Cardinality(Pinned)
    [] at = "insertBank"         -> banks
    [] at = "insertAttendance"   -> Len(attendance)
    [] at = "insertAvailability" -> availability

Adding(at) == {q \in Requests : At(q, at)}

\* Each row and each request that is about to insert one, except the first,
\* has been paid for by an overlap.
RowsInv ==
  \A at \in InsertSteps : Rows(at) + Cardinality(Adding(at)) <= 1 + overlaps

LEMMA AddingFinite ==
  ASSUME BusyInv, NEW at \in InsertSteps
  PROVE  /\ IsFiniteSet(Adding(at)) /\ Cardinality(Adding(at)) \in Nat
         /\ Busy = {} => Adding(at) = {}
<1>1. Adding(at) \in SUBSET Busy
  BY DEF Adding, Busy, At, InFlight, InsertSteps
<1>2. QED
  BY <1>1, Fewer DEF BusyInv

LEMMA PinnedThere ==
  ASSUME TypeInv
  PROVE  /\ Pinned \in SUBSET (1..Len(documents))
         /\ IsFiniteSet(Pinned) /\ Cardinality(Pinned) \in Nat
<1>1. DOMAIN documents = 1..Len(documents) /\ Len(documents) \in Nat
  BY DEF TypeInv, RowsTyped
<1>2. \A q \in Saving : req[q].key \in DOMAIN documents
  BY DEF Saving, TypeInv, There
<1>3. Pinned \in SUBSET (1..Len(documents))
  BY <1>1, <1>2 DEF Pinned, Kept
<1>4. IsFiniteSet(1..Len(documents))
  BY <1>1, FS_Interval
<1>5. QED
  BY <1>3, <1>4, Fewer

LEMMA RowsNat == TypeInv => \A at \in InsertSteps : Rows(at) \in Nat
<1> SUFFICES ASSUME TypeInv, NEW at \in InsertSteps PROVE Rows(at) \in Nat
  OBVIOUS
<1>1. banks \in Nat /\ availability \in Nat /\ Len(attendance) \in Nat
  BY DEF TypeInv, RowsTyped
<1>2. QED
  BY <1>1, PinnedThere DEF Rows, InsertSteps

LEMMA RowsNatNext == TypeInv' => (\A at \in InsertSteps : Rows(at) \in Nat)'
BY RowsNat, PTL

\* What may become of n rows and the requests of A, when o is what has
\* overlapped: nothing new; one more request; or one that has inserted.
RowsMay(n, A, o, nn, AA, oo) ==
  \/ nn <= n /\ AA \subseteq A /\ oo >= o
  \/ nn = 0 /\ A = {} /\ \E x : AA \subseteq A \cup {x}
  \/ nn <= n /\ (\E x : AA \subseteq A \cup {x}) /\ oo = o + 1
  \/ nn <= n + 1 /\ (\E x \in A : AA \subseteq A \ {x}) /\ oo = o

LEMMA RowsCount ==
  ASSUME NEW n \in Nat, NEW A, IsFiniteSet(A), NEW o \in Nat, n + Cardinality(A) <= 1 + o,
         NEW nn \in Nat, NEW AA, NEW oo \in Nat, RowsMay(n, A, o, nn, AA, oo)
  PROVE  nn + Cardinality(AA) <= 1 + oo
<1>1. CASE nn <= n /\ AA \subseteq A /\ oo >= o
  <2>1. Cardinality(AA) \in Nat /\ Cardinality(A) \in Nat /\ Cardinality(AA) <= Cardinality(A)
    BY <1>1, Fewer
  <2>2. QED
    BY <1>1, <2>1
<1>2. ASSUME NEW x, AA \subseteq A \cup {x}
      PROVE  /\ Cardinality(AA) \in Nat /\ Cardinality(A) \in Nat
             /\ Cardinality(AA) <= Cardinality(A) + 1
  BY <1>2, OneMore
<1>3. CASE nn = 0 /\ A = {} /\ \E x : AA \subseteq A \cup {x}
  BY <1>2, <1>3, FS_EmptySet
<1>4. CASE nn <= n /\ (\E x : AA \subseteq A \cup {x}) /\ oo = o + 1
  BY <1>2, <1>4
<1>5. CASE nn <= n + 1 /\ (\E x \in A : AA \subseteq A \ {x}) /\ oo = o
  <2>1. PICK x \in A : AA \subseteq A \ {x}
    BY <1>5
  <2>2. /\ Cardinality(AA) \in Nat /\ Cardinality(A) \in Nat
        /\ Cardinality(AA) + 1 <= Cardinality(A)
    BY <2>1, OneLess
  <2>3. QED
    BY <1>5, <2>2
<1>6. QED
  BY <1>1, <1>3, <1>4, <1>5 DEF RowsMay

\* A step of q that pins no other document, or appends one.
LEMMA PinnedStays ==
  ASSUME TypeInv, TypeInv', NEW q \in Requests, Others(q), Kept' \subseteq Pinned,
         SavesTo(req'[q], "documents") => req'[q].key \in Pinned
  PROVE  Rows("insertDocument")' <= Rows("insertDocument")
<1>1. \A p \in Saving' : req'[p].key \in Pinned
  BY DEF Saving, Pinned, Others
<1>2. Pinned' \subseteq Pinned
  BY <1>1 DEF Pinned
<1>3. Cardinality(Pinned') <= Cardinality(Pinned)
  BY <1>2, PinnedThere, Fewer
<1>4. QED
  BY <1>3 DEF Rows

LEMMA RowsBegin ==
  ASSUME TypeInv, TypeInv', BusyInv, RowsInv, NEW q \in Requests, Begun(q)
  PROVE  RowsInv'
<1> SUFFICES ASSUME NEW at \in InsertSteps
             PROVE  (Rows(at) + Cardinality(Adding(at)) <= 1 + overlaps)'
  BY DEF RowsInv
<1>1. /\ UNCHANGED adata /\ Others(q) /\ Arrives(req'[q]) /\ There(req[q])'
      /\ overlaps' = IF Busy = {} THEN overlaps ELSE overlaps + 1
      /\ overlaps \in Nat /\ overlaps' \in Nat
  BY BegunIs
<1>2. Rows(at) \in Nat /\ Rows(at)' \in Nat
  BY RowsNat, RowsNatNext
<1>3. SavesTo(req'[q], "documents") => req'[q].key \in Kept
  BY <1>1, ArrivesIs
<1>4. Rows(at)' <= Rows(at)
  <2>1. Kept' = Kept
    BY <1>1 DEF Kept, adata, desk
  <2>2. Rows("insertDocument")' <= Rows("insertDocument")
    BY <1>1, <1>3, <2>1, PinnedStays DEF Pinned
  <2>3. at # "insertDocument" => Rows(at)' = Rows(at)
    BY <1>1 DEF Rows, InsertSteps, adata, desk
  <2>4. QED
    BY <1>2, <2>2, <2>3
<1>5. Adding(at)' \subseteq Adding(at) \cup {q}
  BY <1>1 DEF Adding, At, Others
<1>6. req'[q].at # at => Adding(at)' \subseteq Adding(at)
  BY <1>1 DEF Adding, At, Others
<1>7. CASE Busy = {} /\ req'[q].at = at
  <2>1. Adds(req'[q])
    BY <1>1, <1>7, ArrivesIs DEF InsertSteps
  <2>2. Saving = {}
    BY <1>7 DEF Saving, SavesTo, Busy, InFlight
  <2>3. at = "insertDocument" => Pinned = {}
    BY <1>7, <2>1, <2>2 DEF Adds, Pinned
  <2>4. Rows(at) = 0
    BY <1>7, <2>1, <2>3, FS_EmptySet DEF Adds, Rows, InsertSteps
  <2>5. Adding(at) = {}
    BY <1>7, AddingFinite
  <2>6. Rows(at)' = 0
    BY <1>2, <1>4, <2>4
  <2>7. RowsMay(Rows(at), Adding(at), overlaps, Rows(at)', Adding(at)', overlaps')
    BY <1>5, <2>5, <2>6 DEF RowsMay
  <2>8. QED
    BY <1>1, <1>2, <2>7, AddingFinite, RowsCount DEF RowsInv
<1>8. CASE ~(Busy = {} /\ req'[q].at = at)
  <2>1. RowsMay(Rows(at), Adding(at), overlaps, Rows(at)', Adding(at)', overlaps')
    <3>1. CASE Busy = {}
      BY <1>1, <1>4, <1>6, <1>8, <3>1 DEF RowsMay
    <3>2. CASE Busy # {}
      BY <1>1, <1>4, <1>5, <3>2 DEF RowsMay
    <3>3. QED
      BY <3>1, <3>2
  <2>2. QED
    BY <1>1, <1>2, <2>1, AddingFinite, RowsCount DEF RowsInv
<1>9. QED
  BY <1>7, <1>8

\* A request that goes on to no insertion, and whose documents stay pinned.
LEMMA RowsStill ==
  ASSUME TypeInv, TypeInv', BusyInv, RowsInv, NEW q \in Requests, GoesOn(q),
         req'[q].at \notin InsertSteps, Kept' \subseteq Pinned,
         SavesTo(req'[q], "documents") => req'[q].key \in Pinned,
         banks' = banks \/ (banks' = 1 /\ At(q, "insertBank")),
         \/ Len(attendance') = Len(attendance)
         \/ Len(attendance') = Len(attendance) + 1 /\ At(q, "insertAttendance"),
         \/ availability' = availability
         \/ availability' = availability + 1 /\ At(q, "insertAvailability")
  PROVE  RowsInv'
<1> SUFFICES ASSUME NEW at \in InsertSteps
             PROVE  (Rows(at) + Cardinality(Adding(at)) <= 1 + overlaps)'
  BY DEF RowsInv
<1>1. Others(q) /\ overlaps' = overlaps /\ overlaps \in Nat
  BY DEF GoesOn
<1>2. Rows(at) \in Nat /\ Rows(at)' \in Nat
  BY RowsNat, RowsNatNext
<1>3. Rows("insertDocument")' <= Rows("insertDocument")
  BY <1>1, PinnedStays
<1>4. Rows(at)' <= Rows(at) \/ (Rows(at)' <= Rows(at) + 1 /\ At(q, at))
  <2>1. CASE at = "insertDocument"
    BY <1>3, <2>1
  <2>2. CASE at = "insertBank"
    BY <1>2, <2>2 DEF Rows
  <2>3. CASE at = "insertAttendance"
    BY <1>2, <2>3 DEF Rows
  <2>4. CASE at = "insertAvailability"
    BY <1>2, <2>4 DEF Rows
  <2>5. QED
    BY <2>1, <2>2, <2>3, <2>4 DEF InsertSteps
<1>5. Adding(at)' \subseteq Adding(at) \ {q} /\ (At(q, at) => q \in Adding(at))
  BY <1>1 DEF Adding, At, Others
<1>6. RowsMay(Rows(at), Adding(at), overlaps, Rows(at)', Adding(at)', overlaps')
  BY <1>1, <1>4, <1>5 DEF RowsMay
<1>7. QED
  BY <1>1, <1>2, <1>6, AddingFinite, RowsCount DEF RowsInv

LEMMA RowsLook ==
  ASSUME TypeInv, TypeInv', BusyInv, RowsInv, NEW q \in Requests, Looked(q) \/ Crash(q)
  PROVE  RowsInv'
<1>1. /\ GoesOn(q) /\ UNCHANGED adata
      /\ req'[q] = Idle \/ Proceeds(req[q], req'[q])
  BY LookedIs, CrashIs
<1>2. req'[q].at \notin InsertSteps
  BY <1>1, ProceedsIs DEF InsertSteps, Idle
<1>3. SavesTo(req'[q], "documents") => req'[q].key \in Pinned
  <2>1. SavesTo(req'[q], "documents") => Selects(req[q], req'[q])
    BY <1>1, ProceedsIs DEF Idle, SavesTo
  <2>2. SavesTo(req'[q], "documents") => q \in Saving /\ req'[q].key = req[q].key
    BY <2>1 DEF Selects, SavesTo, Saving
  <2>3. QED
    BY <2>2 DEF Pinned
<1>4. Kept' \subseteq Pinned
  BY <1>1 DEF Kept, Pinned, adata, desk
<1>5. QED
  BY <1>1, <1>2, <1>3, <1>4, RowsStill DEF adata, desk

\* The insertion of a document takes its place among those that are pinned.
LEMMA RowsDocument ==
  ASSUME TypeInv, TypeInv', BusyInv, RowsInv, NEW q \in Requests, InsertDocument(q)
  PROVE  RowsInv'
<1> SUFFICES ASSUME NEW at \in InsertSteps
             PROVE  (Rows(at) + Cardinality(Adding(at)) <= 1 + overlaps)'
  BY DEF RowsInv
<1>1. /\ Others(q) /\ overlaps' = overlaps /\ overlaps \in Nat /\ req'[q] = Idle
      /\ ~ClaimJob(q)
  <2>1. ~ClaimJob(q)
    BY DEF InsertDocument, ClaimJob, At
  <2>2. QED
    BY <2>1, WritesIs DEF Writes, GoesOn
<1>2. Rows(at) \in Nat /\ Rows(at)' \in Nat
  BY RowsNat, RowsNatNext
<1>3. Adding(at)' \subseteq Adding(at) \ {q} /\ (At(q, at) => q \in Adding(at))
  BY <1>1 DEF Adding, At, Others, Idle, InsertSteps
<1>4. Rows("insertDocument")' <= Rows("insertDocument") + 1
  <2>1. documents' = Append(documents, [status |-> "PENDING"]) /\ Len(documents) \in Nat
        /\ documents \in Seq(Document)
    BY DEF InsertDocument, TypeInv, RowsTyped
  <2>2. Kept' \subseteq Kept \cup {Len(documents) + 1}
    BY <2>1 DEF Kept
  <2>3. \A p \in Saving' : p \in Saving /\ req'[p].key = req[p].key
    BY <1>1 DEF Saving, SavesTo, Others, Idle
  <2>4. Pinned' \subseteq Pinned \cup {Len(documents) + 1}
    BY <2>2, <2>3 DEF Pinned
  <2>5. QED
    BY <2>4, PinnedThere, OneMore DEF Rows
<1>5. Rows(at)' <= Rows(at) \/ (Rows(at)' <= Rows(at) + 1 /\ At(q, at))
  <2>1. CASE at = "insertDocument"
    BY <1>4, <2>1 DEF InsertDocument
  <2>2. CASE at # "insertDocument"
    <3>1. Rows(at)' = Rows(at)
      BY <2>2 DEF Rows, InsertSteps, InsertDocument
    <3>2. QED
      BY <1>2, <3>1
  <2>3. QED
    BY <2>1, <2>2
<1>6. RowsMay(Rows(at), Adding(at), overlaps, Rows(at)', Adding(at)', overlaps')
  BY <1>1, <1>3, <1>5 DEF RowsMay
<1>7. QED
  BY <1>1, <1>2, <1>6, AddingFinite, RowsCount DEF RowsInv

LEMMA RowsWrite ==
  ASSUME TypeInv, TypeInv', BusyInv, RowsInv, NEW q \in Requests, Writes(q)
  PROVE  RowsInv'
<1>1. GoesOn(q) /\ (~ClaimJob(q) => req'[q] = Idle)
  BY WritesIs
<1>2. ClaimJob(q) => req'[q].at \in {"idle", "reread"}
  <2>1. q \in Requests /\ req \in [Requests -> Step]
    BY DEF TypeInv, ServerTyped
  <2>2. QED
    BY <2>1 DEF ClaimJob, Go, Answer, Idle
<1>3. /\ req'[q].at \notin InsertSteps
      /\ SavesTo(req'[q], "documents") => req'[q].key \in Pinned
  BY <1>1, <1>2 DEF InsertSteps, SavesTo, Idle
<1>4. /\ documents \in Seq(Document) /\ attendance \in Seq({"in", "out"})
  BY DEF TypeInv, RowsTyped
<1>5. CASE ClaimJob(q)
  <2>1. Kept' \subseteq Pinned
    BY <1>5 DEF ClaimJob, desk, Kept, Pinned
  <2>2. QED
    BY <1>1, <1>3, <1>5, <2>1, RowsStill DEF ClaimJob, desk
<1>6. CASE UpdateRow(q)
  <2>1. documents' = documents \/ SavesTo(req[q], "documents")
    BY <1>6, UpdateIs DEF SavesTo
  <2>2. \A i \in DOMAIN documents' : documents'[i] = documents[i] \/ i = req[q].key
    BY <1>4, <1>6, UpdateIs
  <2>3. DOMAIN documents' = DOMAIN documents
    BY <1>4, <1>6, UpdateIs
  <2>4. Kept' \subseteq Pinned
    BY <2>1, <2>2, <2>3 DEF Kept, Pinned, Saving
  <2>5. QED
    BY <1>1, <1>3, <1>6, <2>4, RowsStill DEF UpdateRow
<1>7. CASE DeleteDocument(q)
  <2>1. documents' = [documents EXCEPT ![req[q].i].status = "REMOVED"]
    BY <1>7 DEF DeleteDocument
  <2>2. /\ DOMAIN documents' = DOMAIN documents
        /\ \A i \in DOMAIN documents : i # req[q].i => documents'[i] = documents[i]
    BY <2>1
  <2>3. req[q].i \in DOMAIN documents => documents'[req[q].i].status = "REMOVED"
    <3>1. req[q].i \in DOMAIN documents => documents[req[q].i] \in Document
      BY <1>4
    <3>2. QED
      BY <2>1, <3>1 DEF Document
  <2>4. Kept' \subseteq Pinned
    BY <2>2, <2>3 DEF Kept, Pinned
  <2>5. QED
    BY <1>1, <1>3, <1>7, <2>4, RowsStill DEF DeleteDocument
<1>8. CASE InsertBank(q) \/ InsertAvailability(q)
  <2>1. Kept' \subseteq Pinned
    BY <1>8 DEF InsertBank, InsertAvailability, Kept, Pinned
  <2>2. QED
    BY <1>1, <1>3, <1>8, <2>1, RowsStill DEF InsertBank, InsertAvailability
<1>9. CASE InsertAttendance(q) \/ CloseAttendance(q)
  <2>1. Kept' \subseteq Pinned
    BY <1>9 DEF InsertAttendance, CloseAttendance, Kept, Pinned
  <2>2. \/ Len(attendance') = Len(attendance)
        \/ Len(attendance') = Len(attendance) + 1 /\ At(q, "insertAttendance")
    BY <1>4, <1>9 DEF InsertAttendance, CloseAttendance
  <2>3. QED
    BY <1>1, <1>3, <1>9, <2>1, <2>2, RowsStill DEF InsertAttendance, CloseAttendance
<1>10. QED
  BY <1>5, <1>6, <1>7, <1>8, <1>9, RowsDocument DEF Writes

LEMMA RowsInit ==
  ASSUME Init, TypeInv
  PROVE  RowsInv
<1>1. /\ overlaps = 0 /\ \A q \in Requests : req[q] = Idle
      /\ banks \in {0, 1} /\ attendance = <<>> /\ availability = 0
      /\ DOMAIN documents \subseteq {1}
  BY DEF Init, ServerInit
<1>2. \A at \in InsertSteps : Adding(at) = {}
  BY <1>1 DEF Adding, At, Idle, InsertSteps
<1>3. Pinned \subseteq {1}
  BY <1>1 DEF Pinned, Kept, Saving, SavesTo, Idle
<1>4. Cardinality(Pinned) <= 1 /\ Cardinality(Pinned) \in Nat
  <2>1. IsFiniteSet({1}) /\ Cardinality({1}) = 1
    BY FS_Singleton
  <2>2. QED
    BY <1>3, <2>1, Fewer
<1>5. \A at \in InsertSteps : Rows(at) <= 1
  BY <1>1, <1>4 DEF Rows, InsertSteps
<1>6. \A at \in InsertSteps : Rows(at) \in Nat /\ Cardinality(Adding(at)) = 0
  BY <1>2, RowsNat, FS_EmptySet
<1>7. QED
  BY <1>1, <1>5, <1>6 DEF RowsInv

LEMMA RowsStep ==
  ASSUME TypeInv, BusyInv, RowsInv, [Next]_vars, AgentsAssumption
  PROVE  RowsInv'
<1>1. TypeInv'
  BY TypeStep
<1>2. CASE Next
  <2>1. PICK q \in Requests : Begun(q) \/ Looked(q) \/ Writes(q) \/ Crash(q)
    BY <1>2, StepIs
  <2>2. QED
    BY <1>1, <2>1, RowsBegin, RowsLook, RowsWrite
<1>3. CASE UNCHANGED vars
  <2>1. Pinned' = Pinned
    BY <1>3 DEF vars, adata, desk, server, Pinned, Kept, Saving, SavesTo
  <2>2. \A at \in InsertSteps : Rows(at)' = Rows(at) /\ Adding(at)' = Adding(at)
    BY <1>3, <2>1 DEF vars, adata, desk, server, Rows, Adding, At
  <2>3. overlaps' = overlaps
    BY <1>3 DEF vars, server
  <2>4. QED
    BY <2>2, <2>3 DEF RowsInv
<1>4. QED
  BY <1>2, <1>3

\* The desk tables have one row for what the agent handed in, and at most one
\* more for every overlap, though nothing but a look beforehand keeps a second
\* one out: for any number of requests, rows and overlaps.
THEOREM OneRowEachAlways == Spec => []OneRowEach
<1> DEFINE Inv == TypeInv /\ BusyInv /\ RowsInv
<1>1. Init => Inv
  BY AgentsAssumption, TypeInit, BusyStarts, RowsInit
<1>2. Inv /\ [Next]_vars => Inv'
  BY AgentsAssumption, TypeStep, BusyKept, RowsStep
<1>3. Inv => OneRowEach
  <2> SUFFICES ASSUME Inv PROVE OneRowEach
    OBVIOUS
  <2>1. overlaps \in Nat
    BY DEF TypeInv, ServerTyped
  <2>2. \A at \in InsertSteps : Rows(at) <= 1 + overlaps
    BY <2>1, RowsNat, AddingFinite DEF RowsInv
  <2>3. Cardinality(Kept) <= Cardinality(Pinned)
    BY PinnedThere, Fewer DEF Pinned
  <2>4. Rows("insertDocument") <= 1 + overlaps /\ Rows("insertBank") <= 1 + overlaps
        /\ Rows("insertAttendance") <= 1 + overlaps
        /\ Rows("insertAvailability") <= 1 + overlaps
    BY <2>2 DEF InsertSteps
  <2>5. Cardinality(Kept) \in Nat /\ Cardinality(Pinned) \in Nat
    BY PinnedThere, Fewer DEF Pinned
  <2>6. QED
    BY <2>1, <2>3, <2>4, <2>5 DEF OneRowEach, Rows
<1> HIDE DEF Inv
<1>4. QED
  BY <1>1, <1>2, <1>3, PTL DEF Spec

-----------------------------------------------------------------------------
(* The admins' decisions.                                                  *)

SameApproval(r) == r.mem.approval = agents[r.key].approval
SameDecision(r) == SameApproval(r) /\ r.mem.status = agents[r.key].status

\* What a request remembers of a decision that it is not to change is what
\* has been decided.
Faithful(r) ==
  /\ r.at = "ping" => SameDecision(r)
  /\ r.at = "count" => SameApproval(r)
  /\ SavesTo(r, "agents") => /\ r.op # "approval" => SameApproval(r)
                             /\ r.op = "touch" => SameDecision(r)
  /\ SavesTo(r, "documents") =>
       (r.op = "upload" => documents[r.key].status # "VERIFIED")
  /\ r.at = "remove" => documents[r.i].status # "VERIFIED"

\* An admin has decided since one of the requests in flight has looked.
Overtaken == \E q \in Requests : ~Faithful(req[q])

\* A lost decision is one that an overlap has paid for, and so is every request
\* in flight but one; if a request may lose a decision, then that one too.
AtRisk       == IF Overtaken THEN 1 ELSE 0
DecisionsInv == Owes(Busy, overlaps, lost, AtRisk)

LEMMA ArrivesFaithful ==
  ASSUME NEW r, Arrives(r)
  PROVE  Faithful(r)
<1>1. r.at \in {"ping", "count"} => SameDecision(r)
  <2>1. r.at \in {"ping", "count"} => LooksUp(r)
    BY ArrivesIs
  <2>2. QED
    BY <2>1 DEF LooksUp, SameDecision, SameApproval
<1>2. SavesTo(r, "agents") => /\ r.op # "approval" => SameApproval(r)
                              /\ r.op = "touch" => SameDecision(r)
  <2>1. SavesTo(r, "agents") => EditsAgent(r)
    BY ArrivesIs
  <2>2. EditsAgent(r) => /\ r.op # "approval" => SameApproval(r)
                         /\ r.op = "touch" => SameDecision(r)
    BY DEF EditsAgent, Save, SameDecision, SameApproval
  <2>3. QED
    BY <2>1, <2>2
<1>3. Files(r) => /\ SavesTo(r, "documents") =>
                       (r.op = "upload" => documents[r.key].status # "VERIFIED")
                  /\ r.at = "remove" => documents[r.i].status # "VERIFIED"
  BY DEF Files, Save, SavesTo
<1>4. SavesTo(r, "documents") \/ r.at = "remove" => Files(r)
  BY ArrivesIs
<1>5. QED
  BY <1>1, <1>2, <1>3, <1>4 DEF Faithful, SameDecision

LEMMA ProceedsFaithful ==
  ASSUME NEW r, NEW n, Faithful(r), Proceeds(r, n)
  PROVE  Faithful(n)
<1>1. Selects(r, n) => Faithful(n)
  BY DEF Selects, Faithful, SavesTo, SameDecision, SameApproval
<1>2. DecidesOn(r, n) => Faithful(n)
  <2> SUFFICES ASSUME DecidesOn(r, n) PROVE Faithful(n)
    OBVIOUS
  <2>1. PICK mem \in Row :
          \/ r.at = "ping" /\ mem = r.mem /\ n = Save("agents", r.key, mem, "touch")
          \/ r.at = "papers" /\ n = Save("agents", r.key, mem, "approval")
          \/ /\ r.at = "count" /\ n = Save("agents", r.key, mem, "status")
             /\ mem.approval = r.mem.approval
    BY DEF DecidesOn
  <2>2. /\ n.at = "select" /\ n.table = "agents" /\ n.key = r.key /\ n.mem = mem
        /\ \/ r.at = "ping" /\ mem = r.mem /\ n.op = "touch"
           \/ r.at = "papers" /\ n.op = "approval"
           \/ r.at = "count" /\ n.op = "status" /\ mem.approval = r.mem.approval
    BY <2>1 DEF Save
  <2>3. QED
    BY <2>2 DEF Faithful, SavesTo, SameDecision, SameApproval
<1>3. /\ n.at \notin {"ping", "count", "remove"}
      /\ ~(SavesTo(n, "agents") \/ SavesTo(n, "documents")) => Faithful(n)
  <2>1. n.at \notin {"ping", "count", "remove"}
    BY ProceedsIs DEF Idle
  <2>2. QED
    BY <2>1 DEF Faithful
<1>4. QED
  BY <1>1, <1>2, <1>3, ProceedsIs

\* With the rows as they were a request is as faithful as before.
LEMMA FaithfulStays ==
  ASSUME NEW p \in Requests, req'[p] = req[p], UNCHANGED agents, UNCHANGED documents
  PROVE  Faithful(req[p]) <=> Faithful(req[p])'
BY DEF Faithful, SavesTo, SameDecision, SameApproval

LEMMA OvertakenStays ==
  ASSUME NEW q \in Requests, Others(q), UNCHANGED agents, UNCHANGED documents,
         NEW n, req'[q] = n, Overtaken \/ Faithful(n)
  PROVE  AtRisk' <= AtRisk
<1> SUFFICES ASSUME NEW p \in Requests, ~Faithful(req[p])', ~Overtaken
             PROVE  FALSE
  <2>1. (Overtaken' => Overtaken) => AtRisk' <= AtRisk
    BY DEF AtRisk
  <2>2. QED
    BY <2>1 DEF Overtaken
<1>1. CASE p = q
  <2>1. Faithful(n) => Faithful(req[q])'
    BY DEF Faithful, SavesTo, SameDecision, SameApproval
  <2>2. QED
    BY <1>1, <2>1
<1>2. CASE p # q
  BY <1>2, FaithfulStays DEF Others, Overtaken
<1>3. QED
  BY <1>1, <1>2

\* Only a request that was overtaken changes what an admin has decided.
LEMMA LosesOvertaken ==
  ASSUME TypeInv, NEW q \in Requests, Writes(q), lost' # lost
  PROVE  lost' = lost + 1 /\ Overtaken
<1>1. CASE UpdateRow(q)
  <2> DEFINE r == req[q]
  <2>1. Loses(r, Target(r), Left(r)) /\ lost' = lost + 1 /\ r.at = "update"
    BY <1>1, UpdateIs DEF Left
  <2>2. /\ r.table = "agents" =>
             /\ Target(r) = agents[r.key]
             /\ Left(r).approval \in {r.mem.approval, agents[r.key].approval}
             /\ Left(r).status \in {r.mem.status, agents[r.key].status}
        /\ r.table = "documents" => Target(r) = documents[r.key]
    BY <2>1, LeftIs DEF At
  <2> HIDE DEF r
  <2>3. r.table = "agents" => ~Faithful(r)
    BY <2>1, <2>2 DEF Loses, Faithful, SavesTo, SameDecision, SameApproval
  <2>4. r.table = "documents" => ~Faithful(r)
    BY <2>1, <2>2 DEF Loses, Faithful, SavesTo
  <2>5. r.table \in {"agents", "documents"}
    BY <2>1 DEF Loses
  <2>6. ~Faithful(r)
    BY <2>3, <2>4, <2>5
  <2>7. QED
    BY <2>1, <2>6 DEF Overtaken, r
<1>2. CASE DeleteDocument(q)
  BY <1>2 DEF DeleteDocument, At, Overtaken, Faithful
<1>3. QED
  BY <1>1, <1>2 DEF Writes, InsertDocument, InsertBank, InsertAttendance, CloseAttendance,
     InsertAvailability, ClaimJob

LEMMA DecisionsTyped ==
  TypeInv /\ BusyInv =>
    lost \in Nat /\ overlaps \in Nat /\ AtRisk \in {0, 1} /\ IsFiniteSet(Busy)
BY DEF TypeInv, RowsTyped, ServerTyped, AtRisk, BusyInv

LEMMA DecisionsTypedNext ==
  TypeInv' /\ BusyInv' =>
    (lost \in Nat /\ overlaps \in Nat /\ AtRisk \in {0, 1} /\ IsFiniteSet(Busy))'
BY DecisionsTyped, PTL

LEMMA DecisionsBegin ==
  ASSUME TypeInv, TypeInv', BusyInv, DecisionsInv, NEW q \in Requests, Begun(q)
  PROVE  DecisionsInv'
<1>1. /\ UNCHANGED adata /\ Others(q) /\ ~InFlight(q) /\ Arrives(req'[q])
      /\ overlaps' = IF Busy = {} THEN overlaps ELSE overlaps + 1
      /\ overlaps' \in Nat /\ Busy' \in SUBSET (Busy \cup {q}) /\ BusyInv'
  BY BegunIs
<1>2. /\ lost \in Nat /\ overlaps \in Nat /\ AtRisk \in {0, 1} /\ IsFiniteSet(Busy)
      /\ AtRisk' \in {0, 1}
  BY <1>1, DecisionsTyped, DecisionsTypedNext
<1>3. Faithful(req'[q])
  BY <1>1, ArrivesFaithful
<1>4. AtRisk' <= AtRisk
  BY <1>1, <1>3, OvertakenStays DEF adata, desk
<1>5. Busy = {} => AtRisk' = 0
  <2>1. Busy = {} => ~Overtaken
    BY DEF Busy, InFlight, Overtaken, Faithful, SavesTo
  <2>2. Busy = {} => AtRisk = 0
    BY <2>1 DEF AtRisk
  <2>3. QED
    BY <1>2, <1>4, <2>2
<1> DEFINE BB == Busy'  oo == overlaps'  kk == AtRisk'
<1>6. /\ BB \in SUBSET (Busy \cup {q}) /\ oo \in Nat /\ kk \in {0, 1}
      /\ Joins(Busy, overlaps, AtRisk, oo, kk)
  BY <1>1, <1>2, <1>4, <1>5 DEF Joins
<1> HIDE DEF BB, oo, kk
<1>7. Owes(BB, oo, lost, kk)
  BY <1>2, <1>6, OwesMore DEF DecisionsInv
<1>8. QED
  BY <1>1, <1>7 DEF DecisionsInv, adata, BB, oo, kk

LEMMA DecisionsGoOn ==
  ASSUME TypeInv, TypeInv', BusyInv, DecisionsInv, NEW q \in Requests, GoesOn(q),
         Pays(q, Busy', lost, AtRisk, lost', AtRisk')
  PROVE  DecisionsInv'
<1>1. q \in Busy /\ Busy' \in SUBSET Busy /\ overlaps' = overlaps /\ BusyInv'
  BY DEF GoesOn
<1>2. /\ lost \in Nat /\ overlaps \in Nat /\ AtRisk \in {0, 1} /\ IsFiniteSet(Busy)
      /\ AtRisk' \in {0, 1} /\ lost' \in Nat
  BY <1>1, DecisionsTyped, DecisionsTypedNext
<1> DEFINE BB == Busy'  nn == lost'  kk == AtRisk'
<1>3. /\ BB \in SUBSET Busy /\ nn \in Nat /\ kk \in {0, 1}
      /\ Pays(q, BB, lost, AtRisk, nn, kk)
  BY <1>1, <1>2
<1> HIDE DEF BB, nn, kk
<1>4. Owes(BB, overlaps, nn, kk)
  BY <1>1, <1>2, <1>3, OwesStill DEF DecisionsInv
<1>5. QED
  BY <1>1, <1>4 DEF DecisionsInv, BB, nn, kk

LEMMA DecisionsLook ==
  ASSUME TypeInv, TypeInv', BusyInv, DecisionsInv, NEW q \in Requests, Looked(q)
  PROVE  DecisionsInv'
<1>1. GoesOn(q) /\ UNCHANGED adata /\ Proceeds(req[q], req'[q])
  BY LookedIs
<1>2. Overtaken \/ Faithful(req'[q])
  BY <1>1, ProceedsFaithful DEF Overtaken
<1>3. AtRisk' <= AtRisk
  BY <1>1, <1>2, OvertakenStays DEF adata, desk, GoesOn
<1>4. lost' = lost /\ lost \in Nat
  BY <1>1, DecisionsTyped DEF adata
<1>5. Pays(q, Busy', lost, AtRisk, lost', AtRisk')
  BY <1>3, <1>4 DEF Pays
<1>6. QED
  BY <1>1, <1>5, DecisionsGoOn

LEMMA DecisionsCrash ==
  ASSUME TypeInv, TypeInv', BusyInv, DecisionsInv, NEW q \in Requests, Crash(q)
  PROVE  DecisionsInv'
<1>1. GoesOn(q) /\ lost' = lost /\ q \notin Busy' /\ lost \in Nat
  BY CrashIs, DecisionsTyped DEF adata, GoesOn
<1>2. Pays(q, Busy', lost, AtRisk, lost', AtRisk')
  BY <1>1 DEF Pays
<1>3. QED
  BY <1>1, <1>2, DecisionsGoOn

LEMMA DecisionsWrite ==
  ASSUME TypeInv, TypeInv', BusyInv, DecisionsInv, NEW q \in Requests, Writes(q)
  PROVE  DecisionsInv'
<1>1. GoesOn(q) /\ (~ClaimJob(q) => q \notin Busy') /\ lost \in Nat
  BY WritesIs, DecisionsTyped DEF GoesOn
<1>2. CASE ClaimJob(q)
  <2>1. req'[q].at \in {"idle", "reread"}
    BY <1>2 DEF ClaimJob, Go, Answer, Idle, TypeInv, ServerTyped
  <2>2. Faithful(req'[q])
    BY <2>1 DEF Faithful, SavesTo
  <2>3. AtRisk' <= AtRisk
    BY <1>1, <1>2, <2>2, OvertakenStays DEF ClaimJob, desk, GoesOn
  <2>4. lost' = lost
    BY <1>2 DEF ClaimJob
  <2>5. Pays(q, Busy', lost, AtRisk, lost', AtRisk')
    BY <1>1, <2>3, <2>4 DEF Pays
  <2>6. QED
    BY <1>1, <2>5, DecisionsGoOn
<1>3. CASE ~ClaimJob(q)
  <2>1. lost' = lost \/ (lost' = lost + 1 /\ AtRisk = 1)
    BY LosesOvertaken DEF AtRisk
  <2>2. Pays(q, Busy', lost, AtRisk, lost', AtRisk')
    BY <1>1, <1>3, <2>1 DEF Pays
  <2>3. QED
    BY <1>1, <2>2, DecisionsGoOn
<1>4. QED
  BY <1>2, <1>3

LEMMA DecisionsStep ==
  ASSUME TypeInv, BusyInv, DecisionsInv, [Next]_vars, AgentsAssumption
  PROVE  DecisionsInv'
<1>1. TypeInv'
  BY TypeStep
<1>2. CASE Next
  <2>1. PICK q \in Requests : Begun(q) \/ Looked(q) \/ Writes(q) \/ Crash(q)
    BY <1>2, StepIs
  <2>2. QED
    BY <1>1, <2>1, DecisionsBegin, DecisionsLook, DecisionsWrite, DecisionsCrash
<1>3. CASE UNCHANGED vars
  <2>1. \A p \in Requests : Faithful(req[p]) <=> Faithful(req[p])'
    BY <1>3, FaithfulStays DEF vars, server, adata, desk
  <2>2. AtRisk' = AtRisk /\ Busy' = Busy /\ overlaps' = overlaps /\ lost' = lost
    BY <1>3, <2>1 DEF vars, server, adata, AtRisk, Overtaken, Busy, InFlight
  <2>3. QED
    BY <2>2 DEF DecisionsInv
<1>4. QED
  BY <1>2, <1>3

\* A decision of an admin is changed by others at most once for every overlap,
\* however many requests of agents and admins are in flight: only a save that
\* another request has overtaken writes an old decision back.
THEOREM DecisionsAlwaysKept == Spec => []DecisionsKept
<1> DEFINE Inv == TypeInv /\ BusyInv /\ DecisionsInv
<1>1. Init => Inv
  <2> SUFFICES ASSUME Init PROVE DecisionsInv
    BY AgentsAssumption, TypeInit, BusyStarts
  <2>1. Busy = {} /\ lost = 0 /\ overlaps = 0
    BY DEF Init, ServerInit, Busy, InFlight, Idle
  <2>2. QED
    BY <2>1 DEF DecisionsInv, Owes
<1>2. Inv /\ [Next]_vars => Inv'
  BY AgentsAssumption, TypeStep, BusyKept, DecisionsStep
<1>3. Inv => DecisionsKept
  <2> SUFFICES ASSUME Inv PROVE DecisionsKept
    OBVIOUS
  <2>1. /\ lost \in Nat /\ overlaps \in Nat /\ AtRisk \in {0, 1} /\ IsFiniteSet(Busy)
    BY DEF TypeInv, RowsTyped, ServerTyped, AtRisk, BusyInv
  <2>2. QED
    BY <2>1, OwesEnough DEF DecisionsInv, DecisionsKept
<1> HIDE DEF Inv
<1>4. QED
  BY <1>1, <1>2, <1>3, PTL DEF Spec

-----------------------------------------------------------------------------
(* The jobs of a suspended agent.                                          *)

Suspended(a) == a # None /\ agents[a].status = "SUSPENDED"

\* A request that is about to suspend an agent, who is as good as suspended.
Suspends(r) == SavesTo(r, "agents") /\ r.mem.status = "SUSPENDED"
Stopped(a)  == Suspended(a) \/ \E q \in Requests : Suspends(req[q]) /\ req[q].key = a

\* The jobs in progress that nobody can complete.
Stuck == {b \in Bookings : /\ bookings[b].status = "ongoing"
                           /\ bookings[b].agent # None /\ Stopped(bookings[b].agent)}

\* Saving the job b as mem will not add it to them, unless an agent is being
\* suspended at the same time.
FreshFor(b, mem) ==
  \/ b \in Stuck
  \/ /\ mem.status = "ongoing" => ~Suspended(mem.agent) /\ ~Suspended(bookings[b].agent)
     /\ bookings[b].status = "ongoing" =>
          mem.agent = bookings[b].agent \/ ~Suspended(mem.agent)

Fresh(r) ==
  /\ r.at \in {"claim", "begin"} => ~Suspended(r.a)
  /\ r.at = "clash" => FreshFor(r.b, r.mem)
  /\ SavesTo(r, "bookings") => FreshFor(r.key, r.mem)

\* A request in flight goes by what an agent was before a suspension.
Outdated == \E q \in Requests : ~Fresh(req[q])
AtFault  == IF Outdated THEN 1 ELSE 0
IdleInv  == Owes(Busy, overlaps, Cardinality(Stuck), AtFault)

LEMMA StuckTyped ==
  TypeInv /\ BusyInv =>
    /\ IsFiniteSet(Stuck) /\ Cardinality(Stuck) \in Nat /\ overlaps \in Nat
    /\ AtFault \in {0, 1} /\ IsFiniteSet(Busy)
<1> SUFFICES ASSUME TypeInv, BusyInv
             PROVE  /\ IsFiniteSet(Stuck) /\ Cardinality(Stuck) \in Nat
                    /\ overlaps \in Nat /\ AtFault \in {0, 1} /\ IsFiniteSet(Busy)
  OBVIOUS
<1>1. Stuck \in SUBSET Bookings /\ IsFiniteSet(Bookings)
  BY AgentsAssumption DEF Stuck, AgentsAssumption
<1>2. IsFiniteSet(Stuck) /\ Cardinality(Stuck) \in Nat
  BY <1>1, Fewer
<1>3. QED
  BY <1>2 DEF TypeInv, ServerTyped, AtFault, BusyInv

LEMMA StuckTypedNext ==
  TypeInv' /\ BusyInv' =>
    (/\ IsFiniteSet(Stuck) /\ Cardinality(Stuck) \in Nat /\ overlaps \in Nat
     /\ AtFault \in {0, 1} /\ IsFiniteSet(Busy))'
BY StuckTyped, PTL

\* No other job is stuck when q goes on to n.
LEMMA StuckNoMore ==
  ASSUME NEW q \in Requests, Others(q), UNCHANGED agents, UNCHANGED bookings,
         NEW n, req'[q] = n, Suspends(n) => Stopped(n.key) \/ Ongoing(n.key) = {}
  PROVE  Stuck' \subseteq Stuck
<1> SUFFICES ASSUME NEW b \in Bookings, b \in Stuck' PROVE b \in Stuck
  BY DEF Stuck
<1> DEFINE a == bookings[b].agent
<1>1. bookings[b].status = "ongoing" /\ a # None
  BY DEF Stuck
<1>2. Suspended(a) \/ \E p \in Requests : Suspends(req'[p]) /\ req'[p].key = a
  BY DEF Stuck, Stopped, Suspended, Suspends, SavesTo
<1>3. b \in Ongoing(a)
  BY <1>1 DEF Ongoing
<1>4. Stopped(a)
  <2>1. CASE Suspended(a)
    BY <2>1 DEF Stopped
  <2>2. ASSUME NEW p \in Requests, Suspends(req'[p]), req'[p].key = a
        PROVE  Stopped(a)
    <3>1. CASE p = q
      BY <1>3, <2>2, <3>1
    <3>2. CASE p # q
      BY <2>2, <3>2 DEF Others, Stopped
    <3>3. QED
      BY <3>1, <3>2
  <2>3. QED
    BY <1>2, <2>1, <2>2
<1>5. QED
  BY <1>1, <1>4 DEF Stuck

\* None of them is done with, either.
LEMMA StuckNoFewer ==
  ASSUME NEW q \in Requests, Others(q), UNCHANGED agents, UNCHANGED bookings,
         NEW n, req'[q] = n, Suspends(req[q]) => Suspends(n) /\ n.key = req[q].key
  PROVE  Stuck \subseteq Stuck'
<1> SUFFICES ASSUME NEW b \in Bookings, b \in Stuck PROVE b \in Stuck'
  BY DEF Stuck
<1> DEFINE a == bookings[b].agent
<1>1. bookings[b].status = "ongoing" /\ a # None /\ Stopped(a)
  BY DEF Stuck
<1>2. CASE Suspended(a)
  BY <1>1, <1>2 DEF Stuck, Stopped, Suspended
<1>3. ASSUME NEW p \in Requests, Suspends(req[p]), req[p].key = a
      PROVE  b \in Stuck'
  <2>1. Suspends(req'[p]) /\ req'[p].key = a
    BY <1>3 DEF Others
  <2>2. QED
    BY <1>1, <2>1 DEF Stuck, Stopped, Suspends, SavesTo
<1>4. QED
  BY <1>1, <1>2, <1>3 DEF Stopped

\* Nor is a request outdated that was not, as long as no stuck job is done with.
LEMMA FreshStays ==
  ASSUME NEW p \in Requests, req'[p] = req[p], UNCHANGED agents, UNCHANGED bookings,
         Stuck \subseteq Stuck', Fresh(req[p])
  PROVE  Fresh(req[p])'
BY DEF Fresh, FreshFor, SavesTo, Suspended

LEMMA OutdatedStays ==
  ASSUME NEW q \in Requests, Others(q), UNCHANGED agents, UNCHANGED bookings,
         Stuck \subseteq Stuck', NEW n, req'[q] = n, Outdated \/ Fresh(n)
  PROVE  AtFault' <= AtFault
<1> SUFFICES ASSUME NEW p \in Requests, ~Fresh(req[p])', ~Outdated
             PROVE  FALSE
  <2>1. (Outdated' => Outdated) => AtFault' <= AtFault
    BY DEF AtFault
  <2>2. QED
    BY <2>1 DEF Outdated
<1>1. CASE p = q
  <2>1. Fresh(n) => Fresh(req[q])'
    BY DEF Fresh, FreshFor, SavesTo, Suspended
  <2>2. QED
    BY <1>1, <2>1
<1>2. CASE p # q
  BY <1>2, FreshStays DEF Others, Outdated
<1>3. QED
  BY <1>1, <1>2

LEMMA ArrivesFresh ==
  ASSUME TypeInv, NEW r, Arrives(r)
  PROVE  Fresh(r) /\ (Suspends(r) => Stopped(r.key))
<1>1. SavesTo(r, "agents") => EditsAgent(r)
  BY ArrivesIs
<1>2. Suspends(r) => Stopped(r.key)
  <2> SUFFICES ASSUME Suspends(r) PROVE Stopped(r.key)
    OBVIOUS
  <2>1. EditsAgent(r) /\ r.mem.status = "SUSPENDED"
    BY <1>1 DEF Suspends
  <2>2. r.key \in Agent /\ agents[r.key].status = "SUSPENDED"
    BY <2>1 DEF EditsAgent, Save
  <2>3. r.key # None
    BY <2>2, AgentsAssumption DEF AgentsAssumption
  <2>4. QED
    BY <2>2, <2>3 DEF Stopped, Suspended
<1>3. r.at \in {"claim", "begin"} => ~Suspended(r.a)
  <2>1. r.at \in {"claim", "begin"} => CallsJob(r)
    BY ArrivesIs
  <2>2. CallsJob(r) => ~Suspended(r.a)
    BY DEF CallsJob, Working, Suspended
  <2>3. QED
    BY <2>1, <2>2
<1>4. r.at # "clash"
  BY ArrivesIs
<1>5. SavesTo(r, "bookings") => FreshFor(r.key, r.mem)
  <2>1. SavesTo(r, "bookings") => MovesJob(r)
    BY ArrivesIs
  <2>2. MovesJob(r) => r.mem.agent = bookings[r.key].agent /\ r.mem.status # "ongoing"
    BY DEF MovesJob, Save
  <2>3. QED
    BY <2>1, <2>2 DEF FreshFor
<1>6. QED
  BY <1>2, <1>3, <1>4, <1>5 DEF Fresh

\* What a handler goes on to is no more outdated than the handler was.
LEMMA ProceedsFresh ==
  ASSUME TypeInv, NEW q \in Requests, NEW n, Proceeds(req[q], n), Fresh(req[q])
  PROVE  Fresh(n)
<1> DEFINE r == req[q]
<1>1. CASE n = Idle
  BY <1>1 DEF Idle, Fresh, SavesTo
<1>2. CASE Selects(r, n)
  BY <1>2 DEF Selects, Fresh, SavesTo
<1>3. CASE DecidesOn(r, n)
  <2>1. n.at = "select" /\ n.table = "agents"
    BY <1>3 DEF DecidesOn, Save
  <2>2. QED
    BY <2>1 DEF Fresh, SavesTo
<1>4. CASE TakesJobOn(r, n)
  <2>1. PICK mem \in Booking :
          /\ n = Save("bookings", r.b, mem, "move")
          /\ \/ /\ r.at \in {"reread", "finish"}
                /\ mem.agent = bookings[r.b].agent /\ mem.status \in {"accepted", "completed"}
             \/ r.at = "giveUp" /\ mem.agent = None /\ mem.status = "paid"
             \/ /\ r.at = "begin" /\ mem.agent = r.a /\ bookings[r.b].agent = r.a
                /\ mem.status = "ongoing"
    BY <1>4 DEF TakesJobOn
  <2>2. n.at = "select" /\ n.table = "bookings" /\ n.key = r.b /\ n.mem = mem
    BY <2>1 DEF Save
  <2>3. FreshFor(r.b, mem)
    BY <2>1 DEF FreshFor, Fresh, Suspended
  <2>4. QED
    BY <2>2, <2>3 DEF Fresh, SavesTo
<1>5. CASE FitsJobIn(r, n)
  <2>1. CASE r.at = "candidate"
    <3>1. n = [at |-> "clash", a |-> r.a, b |-> r.b, mem |-> r.mem] /\ Working(r.a)
      BY <1>5, <2>1 DEF FitsJobIn
    <3>2. r.mem.agent = r.a /\ r.mem.status # "ongoing"
      BY <2>1, Memory DEF At
    <3>3. FreshFor(n.b, n.mem)
      BY <3>1, <3>2 DEF FreshFor, Suspended, Working
    <3>4. QED
      BY <3>1, <3>3 DEF Fresh, SavesTo
  <2>2. CASE r.at = "clash"
    <3>1. n.at = "select" /\ n.table = "bookings" /\ n.key = r.b /\ n.mem = r.mem
      BY <1>5, <2>2 DEF FitsJobIn, Save
    <3>2. QED
      BY <2>2, <3>1 DEF Fresh, SavesTo
  <2>3. QED
    BY <1>5, <2>1, <2>2 DEF FitsJobIn
<1>6. QED
  BY <1>1, <1>2, <1>3, <1>4, <1>5 DEF Proceeds

\* Who is about to suspend an agent has seen no job of the agent in progress.
LEMMA ProceedsStops ==
  ASSUME TypeInv, NEW q \in Requests, NEW n, Proceeds(req[q], n)
  PROVE  /\ Suspends(n) => Stopped(n.key) \/ Ongoing(n.key) = {}
         /\ n # Idle /\ Suspends(req[q]) => Suspends(n) /\ n.key = req[q].key
<1> DEFINE r == req[q]
<1>1. Suspends(n) => Selects(r, n) \/ DecidesOn(r, n)
  BY ProceedsIs DEF Suspends
<1>2. Selects(r, n) =>
        /\ Suspends(n) <=> Suspends(r)
        /\ n.key = r.key
        /\ Suspends(r) => Stopped(n.key)
  BY DEF Selects, Suspends, SavesTo, Stopped
<1>3. DecidesOn(r, n) /\ Suspends(n) => Ongoing(n.key) = {}
  <2> SUFFICES ASSUME DecidesOn(r, n), Suspends(n) PROVE Ongoing(n.key) = {}
    OBVIOUS
  <2>1. PICK mem \in Row :
          \/ r.at = "ping" /\ mem = r.mem /\ n = Save("agents", r.key, mem, "touch")
          \/ r.at = "papers" /\ n = Save("agents", r.key, mem, "approval")
             /\ mem.status = "ACTIVE"
          \/ /\ r.at = "count" /\ n = Save("agents", r.key, mem, "status")
             /\ Ongoing(r.key) = {}
    BY DEF DecidesOn
  <2>2. /\ n.mem = mem /\ n.key = r.key
        /\ \/ r.at = "ping" /\ mem = r.mem
           \/ r.at = "papers" /\ mem.status = "ACTIVE"
           \/ r.at = "count" /\ Ongoing(r.key) = {}
    BY <2>1 DEF Save
  <2>3. r.at = "ping" => r.mem.status # "SUSPENDED"
    BY DEF TypeInv, There
  <2>4. QED
    BY <2>2, <2>3 DEF Suspends
<1>4. Suspends(r) => n = Idle \/ Selects(r, n)
  <2>1. Suspends(r) => r.at \in {"select", "update"} /\ r.table = "agents"
    BY DEF Suspends, SavesTo
  <2>2. Suspends(r) => ~DecidesOn(r, n) /\ ~TakesJobOn(r, n) /\ ~FitsJobIn(r, n)
    BY <2>1 DEF DecidesOn, TakesJobOn, FitsJobIn
  <2>3. QED
    BY <2>2 DEF Proceeds
<1>5. QED
  BY <1>1, <1>2, <1>3, <1>4

LEMMA IdleBegin ==
  ASSUME TypeInv, TypeInv', BusyInv, IdleInv, NEW q \in Requests, Begun(q)
  PROVE  IdleInv'
<1>1. /\ UNCHANGED adata /\ Others(q) /\ ~InFlight(q) /\ Arrives(req'[q])
      /\ overlaps' = IF Busy = {} THEN overlaps ELSE overlaps + 1
      /\ overlaps' \in Nat /\ Busy' \in SUBSET (Busy \cup {q}) /\ BusyInv'
  BY BegunIs
<1>2. /\ IsFiniteSet(Stuck) /\ Cardinality(Stuck) \in Nat /\ overlaps \in Nat
      /\ AtFault \in {0, 1} /\ IsFiniteSet(Busy) /\ AtFault' \in {0, 1}
  BY <1>1, StuckTyped, StuckTypedNext
<1>3. agents' = agents /\ bookings' = bookings
  BY <1>1 DEF adata, desk
<1>4. Fresh(req'[q]) /\ (Suspends(req'[q]) => Stopped(req'[q].key))
  BY <1>1, ArrivesFresh
<1>5. ~Suspends(req[q])
  BY <1>1 DEF Suspends, SavesTo, InFlight
<1>6. Stuck' \subseteq Stuck /\ Stuck \subseteq Stuck'
  BY <1>1, <1>3, <1>4, <1>5, StuckNoMore, StuckNoFewer
<1>7. AtFault' <= AtFault
  BY <1>1, <1>3, <1>4, <1>6, OutdatedStays
<1>8. Busy = {} => AtFault' = 0
  <2>1. Busy = {} => ~Outdated
    BY DEF Busy, InFlight, Outdated, Fresh, SavesTo
  <2>2. Busy = {} => AtFault = 0
    BY <2>1 DEF AtFault
  <2>3. QED
    BY <1>2, <1>7, <2>2
<1> DEFINE BB == Busy'  oo == overlaps'  kk == AtFault'
<1>9. /\ BB \in SUBSET (Busy \cup {q}) /\ oo \in Nat /\ kk \in {0, 1}
      /\ Joins(Busy, overlaps, AtFault, oo, kk)
  BY <1>1, <1>2, <1>7, <1>8 DEF Joins
<1>10. Stuck' = Stuck
  BY <1>6
<1> HIDE DEF BB, oo, kk
<1>11. Owes(BB, oo, Cardinality(Stuck), kk)
  BY <1>2, <1>9, OwesMore DEF IdleInv
<1>12. QED
  BY <1>10, <1>11 DEF IdleInv, BB, oo, kk

LEMMA IdleGoOn ==
  ASSUME TypeInv, TypeInv', BusyInv, IdleInv, NEW q \in Requests, GoesOn(q),
         Pays(q, Busy', Cardinality(Stuck), AtFault, Cardinality(Stuck'), AtFault')
  PROVE  IdleInv'
<1>1. q \in Busy /\ Busy' \in SUBSET Busy /\ overlaps' = overlaps /\ BusyInv'
  BY DEF GoesOn
<1>2. /\ Cardinality(Stuck) \in Nat /\ overlaps \in Nat
      /\ AtFault \in {0, 1} /\ IsFiniteSet(Busy)
      /\ Cardinality(Stuck') \in Nat /\ AtFault' \in {0, 1}
  BY <1>1, StuckTyped, StuckTypedNext
<1> DEFINE BB == Busy'  nn == Cardinality(Stuck')  kk == AtFault'
<1>3. /\ BB \in SUBSET Busy /\ nn \in Nat /\ kk \in {0, 1}
      /\ Pays(q, BB, Cardinality(Stuck), AtFault, nn, kk)
  BY <1>1, <1>2
<1> HIDE DEF BB, nn, kk
<1>4. Owes(BB, overlaps, nn, kk)
  BY <1>1, <1>2, <1>3, OwesStill DEF IdleInv
<1>5. QED
  BY <1>1, <1>4 DEF IdleInv, BB, nn, kk

\* The last step of a request, after which no other job is stuck.
LEMMA IdleEnds ==
  ASSUME TypeInv, TypeInv', BusyInv, IdleInv, NEW q \in Requests, GoesOn(q),
         req'[q] = Idle, Stuck' \subseteq Stuck
  PROVE  IdleInv'
<1>1. Cardinality(Stuck') <= Cardinality(Stuck)
  BY StuckTyped, Fewer
<1>2. Pays(q, Busy', Cardinality(Stuck), AtFault, Cardinality(Stuck'), AtFault')
  BY <1>1 DEF Pays, GoesOn
<1>3. QED
  BY <1>2, IdleGoOn

\* A step that leaves the stuck jobs alone, and goes on to n.
LEMMA IdleSame ==
  ASSUME TypeInv, TypeInv', BusyInv, IdleInv, NEW q \in Requests, GoesOn(q),
         Stuck' = Stuck, AtFault' <= AtFault
  PROVE  IdleInv'
<1>1. Cardinality(Stuck') = Cardinality(Stuck) /\ Cardinality(Stuck) \in Nat
  BY StuckTyped
<1>2. Pays(q, Busy', Cardinality(Stuck), AtFault, Cardinality(Stuck'), AtFault')
  BY <1>1 DEF Pays
<1>3. QED
  BY <1>2, IdleGoOn

LEMMA IdleLook ==
  ASSUME TypeInv, TypeInv', BusyInv, IdleInv, NEW q \in Requests, Looked(q) \/ Crash(q)
  PROVE  IdleInv'
<1>1. GoesOn(q) /\ UNCHANGED adata /\ (req'[q] = Idle \/ Proceeds(req[q], req'[q]))
  BY LookedIs, CrashIs
<1>2. agents' = agents /\ bookings' = bookings /\ Others(q)
  BY <1>1 DEF adata, desk, GoesOn
<1>3. Proceeds(req[q], req'[q])
  BY <1>1 DEF Proceeds
<1>4. /\ Suspends(req'[q]) => Stopped(req'[q].key) \/ Ongoing(req'[q].key) = {}
      /\ req'[q] # Idle /\ Suspends(req[q]) =>
           Suspends(req'[q]) /\ req'[q].key = req[q].key
  BY <1>3, ProceedsStops
<1>5. Stuck' \subseteq Stuck
  BY <1>2, <1>4, StuckNoMore
<1>6. CASE req'[q] = Idle
  BY <1>1, <1>5, <1>6, IdleEnds
<1>7. CASE req'[q] # Idle
  <2>1. Stuck \subseteq Stuck'
    BY <1>2, <1>4, <1>7, StuckNoFewer
  <2>2. Outdated \/ Fresh(req'[q])
    BY <1>3, ProceedsFresh DEF Outdated
  <2>3. AtFault' <= AtFault
    BY <1>2, <2>1, <2>2, OutdatedStays
  <2>4. Stuck' = Stuck
    BY <1>5, <2>1
  <2>5. QED
    BY <1>1, <2>3, <2>4, IdleSame
<1>8. QED
  BY <1>6, <1>7

\* Whoever is suspended by the save of an agent's row was as good as suspended.
LEMMA IdleAgents ==
  ASSUME TypeInv, TypeInv', BusyInv, IdleInv, NEW q \in Requests, GoesOn(q),
         UpdateRow(q), req[q].table = "agents", req'[q] = Idle
  PROVE  IdleInv'
<1> DEFINE r == req[q]
<1>1. /\ agents' = [agents EXCEPT ![r.key] = Left(r)] /\ bookings' = bookings
      /\ r.at = "update" /\ Others(q)
  BY UpdateIs DEF Left, GoesOn
<1>2. r.key \in Agent /\ Left(r).status \in {r.mem.status, agents[r.key].status}
      /\ agents \in [Agent -> Row]
  BY LeftIs DEF UpdateRow, TypeInv, RowsTyped
<1>3. ASSUME NEW a, a # None, agents'[a].status = "SUSPENDED"
      PROVE  Stopped(a)
  <2>1. CASE a = r.key
    <3>1. r.mem.status = "SUSPENDED" \/ agents[a].status = "SUSPENDED"
      BY <1>1, <1>2, <1>3, <2>1
    <3>2. r.mem.status = "SUSPENDED" => Suspends(r)
      BY <1>1 DEF Suspends, SavesTo
    <3>3. QED
      BY <1>3, <2>1, <3>1, <3>2 DEF Stopped, Suspended
  <2>2. CASE a # r.key
    BY <1>1, <1>2, <1>3, <2>2 DEF Stopped, Suspended
  <2>3. QED
    BY <2>1, <2>2
<1>4. Stuck' \subseteq Stuck
  <2> SUFFICES ASSUME NEW b \in Bookings, b \in Stuck' PROVE b \in Stuck
    BY DEF Stuck
  <2> DEFINE a == bookings[b].agent
  <2>1. bookings[b].status = "ongoing" /\ a # None
    BY <1>1 DEF Stuck
  <2>2. agents'[a].status = "SUSPENDED" \/ \E p \in Requests : Suspends(req'[p]) /\ req'[p].key = a
    BY <1>1 DEF Stuck, Stopped, Suspended, Suspends, SavesTo
  <2>3. ASSUME NEW p \in Requests, Suspends(req'[p]), req'[p].key = a
        PROVE  Stopped(a)
    BY <1>1, <2>3 DEF Others, Stopped, Suspends, SavesTo, Idle
  <2>4. Stopped(a)
    BY <1>3, <2>1, <2>2, <2>3
  <2>5. QED
    BY <2>1, <2>4 DEF Stuck
<1>5. QED
  BY <1>4, IdleEnds

\* A save that makes one more job stuck is outdated, or overlaps a suspension.
LEMMA IdleJobs ==
  ASSUME TypeInv, TypeInv', BusyInv, IdleInv, NEW q \in Requests, GoesOn(q),
         UpdateRow(q), req[q].table = "bookings", req'[q] = Idle
  PROVE  IdleInv'
<1> PICK b \in Bookings : b = req[q].key
  BY LeftIs DEF UpdateRow
<1> PICK r : r = req[q]
  OBVIOUS
<1> PICK row : row = bookings[b]
  OBVIOUS
<1> PICK new : new = Left(req[q])
  OBVIOUS
<1>1. /\ bookings' = [bookings EXCEPT ![b] = new] /\ agents' = agents
      /\ r.at = "update" /\ Others(q) /\ r.table = "bookings" /\ r.key = b
  BY UpdateIs DEF Left, GoesOn
<1>2. /\ bookings \in [Bookings -> Booking]
      /\ new.status \in {r.mem.status, row.status}
      /\ new.agent \in {r.mem.agent, row.agent}
  BY LeftIs DEF UpdateRow, TypeInv, RowsTyped
<1>3. ~Suspends(r) /\ ~Suspends(req'[q])
  BY <1>1 DEF Suspends, SavesTo, Idle
<1>4. \A a : Stopped(a)' <=> Stopped(a)
  BY <1>1, <1>3 DEF Stopped, Suspended, Suspends, SavesTo, Others
<1>5. \A c \in Bookings : c # b => (c \in Stuck' <=> c \in Stuck)
  <2> SUFFICES ASSUME NEW c \in Bookings, c # b PROVE c \in Stuck' <=> c \in Stuck
    OBVIOUS
  <2>1. bookings'[c] = bookings[c]
    BY <1>1, <1>2
  <2> PICK a : a = bookings[c].agent
    OBVIOUS
  <2>2. c \in Stuck' <=> bookings[c].status = "ongoing" /\ a # None /\ Stopped(a)'
    BY <2>1 DEF Stuck, Stopped, Suspended, Suspends, SavesTo
  <2>3. c \in Stuck <=> bookings[c].status = "ongoing" /\ a # None /\ Stopped(a)
    BY DEF Stuck
  <2>4. QED
    BY <1>4, <2>2, <2>3
<1>6. Stuck' \subseteq Bookings /\ Stuck \subseteq Bookings
  BY DEF Stuck
<1>7. CASE b \in Stuck \/ b \notin Stuck'
  <2>1. Stuck' \subseteq Stuck
    BY <1>5, <1>6, <1>7
  <2>2. QED
    BY <2>1, IdleEnds
<1>8. CASE b \notin Stuck /\ b \in Stuck'
  <2>1. /\ new.status = "ongoing" /\ new.agent # None /\ Stopped(new.agent)
    <3>1. bookings'[b] = new
      BY <1>1, <1>2
    <3> PICK a : a = new.agent
      OBVIOUS
    <3>2. b \in Stuck' => new.status = "ongoing" /\ a # None /\ Stopped(a)'
      BY <3>1 DEF Stuck, Stopped, Suspended, Suspends, SavesTo
    <3>3. QED
      BY <1>4, <1>8, <3>2
  <2>2. Stuck' \subseteq Stuck \cup {b} /\ Stuck \subseteq Stuck'
    BY <1>5, <1>6, <1>8
  <2>3. Cardinality(Stuck') <= Cardinality(Stuck) + 1
    BY <2>2, StuckTyped, OneMore
  <2>4. q \notin Busy'
    BY DEF GoesOn
  <2>5. CASE ~Fresh(r)
    <3>1. AtFault = 1
      BY <2>5 DEF AtFault, Outdated
    <3>2. Pays(q, Busy', Cardinality(Stuck), AtFault, Cardinality(Stuck'), AtFault')
      BY <2>3, <2>4, <3>1 DEF Pays
    <3>3. QED
      BY <3>2, IdleGoOn
  <2>6. CASE Fresh(r)
    <3>1. FreshFor(b, r.mem)
      BY <1>1, <2>6 DEF Fresh, SavesTo, UpdateRow
    <3>2. /\ r.mem.status = "ongoing" => ~Suspended(r.mem.agent) /\ ~Suspended(row.agent)
          /\ row.status = "ongoing" => r.mem.agent = row.agent \/ ~Suspended(r.mem.agent)
      BY <1>8, <3>1 DEF FreshFor
    <3>3. ~(row.status = "ongoing" /\ new.agent = row.agent)
      BY <1>2, <1>8, <2>1 DEF Stuck
    <3>4. ~Suspended(new.agent)
      BY <1>2, <2>1, <3>2, <3>3
    <3>5. PICK p \in Requests : Suspends(req[p])
      BY <2>1, <3>4 DEF Stopped
    <3>6. p # q /\ InFlight(p)
      BY <1>3, <3>5 DEF Suspends, SavesTo, InFlight
    <3>7. p \in Busy'
      BY <1>1, <3>6 DEF Busy, InFlight, Others
    <3>8. Outdated' => Outdated
      <4> SUFFICES ASSUME NEW s \in Requests, ~Fresh(req[s])', ~Outdated PROVE FALSE
        BY DEF Outdated
      <4>1. s # q
        BY DEF Fresh, SavesTo, Idle
      <4>2. req'[s] = req[s] /\ Fresh(req[s])
        BY <1>1, <4>1 DEF Others, Outdated
      <4>3. ASSUME NEW c, NEW mem, FreshFor(c, mem)
            PROVE  FreshFor(c, mem)'
        <5>1. CASE c = b
          BY <1>8, <5>1 DEF FreshFor
        <5>2. CASE c # b
          <6>1. bookings'[c] = bookings[c]
            BY <1>1, <1>2, <5>2
          <6>2. QED
            BY <1>1, <2>2, <4>3, <6>1 DEF FreshFor, Suspended
        <5>3. QED
          BY <5>1, <5>2
      <4>4. Fresh(req[s])'
        BY <1>1, <4>2, <4>3 DEF Fresh, SavesTo, Suspended
      <4>5. QED
        BY <4>4
    <3>9. AtFault' <= AtFault
      BY <3>8 DEF AtFault
    <3>10. Pays(q, Busy', Cardinality(Stuck), AtFault, Cardinality(Stuck'), AtFault')
      BY <2>3, <2>4, <3>7, <3>9 DEF Pays
    <3>11. QED
      BY <3>10, IdleGoOn
  <2>7. QED
    BY <2>5, <2>6
<1>9. QED
  BY <1>7, <1>8

\* A job is claimed for an agent who has been found at work, and by no other.
LEMMA IdleClaim ==
  ASSUME TypeInv, TypeInv', BusyInv, IdleInv, NEW q \in Requests, GoesOn(q), ClaimJob(q)
  PROVE  IdleInv'
<1> PICK b \in Bookings : b = req[q].b
  BY Memory DEF ClaimJob, At, Calls
<1> PICK a : a = req[q].a
  OBVIOUS
<1>1. /\ agents' = agents /\ Others(q) /\ req[q].at = "claim" /\ bookings \in [Bookings -> Booking]
      /\ req \in [Requests -> Step]
  BY DEF ClaimJob, GoesOn, At, TypeInv, RowsTyped, ServerTyped
<1>2. ~Suspends(req[q])
  BY <1>1 DEF Suspends, SavesTo
<1>3. CASE Answer(q) /\ UNCHANGED bookings
  <2>1. req'[q] = Idle
    BY <1>1, <1>3 DEF Answer, Go
  <2>2. ~Suspends(Idle)
    BY DEF Suspends, SavesTo, Idle
  <2>3. Stuck' \subseteq Stuck
    BY <1>1, <1>3, <2>1, <2>2, StuckNoMore
  <2>4. QED
    BY <2>1, <2>3, IdleEnds
<1>4. CASE ~(Answer(q) /\ UNCHANGED bookings)
  <2>1. /\ bookings' = [bookings EXCEPT ![b].agent = a]
        /\ bookings[b].status = "paid" /\ bookings[b].agent = None
        /\ req'[q] = [at |-> "reread", b |-> b]
    BY <1>1, <1>4 DEF ClaimJob, Go
  <2>2. /\ \A c \in Bookings : c # b => bookings'[c] = bookings[c]
        /\ bookings'[b].status = "paid" /\ bookings'[b].agent = a
    BY <1>1, <2>1 DEF Booking
  <2>3. ~Suspends(req'[q])
    BY <2>1 DEF Suspends, SavesTo
  <2>4. \A x : Stopped(x)' <=> Stopped(x)
    BY <1>1, <1>2, <2>3 DEF Stopped, Suspended, Suspends, SavesTo, Others
  <2>5. ASSUME NEW c \in Bookings
        PROVE  c \in Stuck' <=> c \in Stuck
    <3>1. CASE c = b
      BY <2>1, <2>2, <3>1 DEF Stuck
    <3>2. CASE c # b
      <4> PICK x : x = bookings[c].agent
        OBVIOUS
      <4>1. c \in Stuck' <=> bookings[c].status = "ongoing" /\ x # None /\ Stopped(x)'
        BY <2>2, <3>2 DEF Stuck, Stopped, Suspended, Suspends, SavesTo
      <4>2. c \in Stuck <=> bookings[c].status = "ongoing" /\ x # None /\ Stopped(x)
        BY DEF Stuck
      <4>3. QED
        BY <2>4, <4>1, <4>2
    <3>3. QED
      BY <3>1, <3>2
  <2>6. Stuck' = Stuck
    BY <2>5 DEF Stuck
  <2>7. CASE ~Fresh(req[q])
    <3>1. AtFault = 1
      BY <2>7 DEF AtFault, Outdated
    <3>2. AtFault' <= AtFault
      BY <3>1 DEF AtFault
    <3>3. QED
      BY <2>6, <3>2, IdleSame
  <2>8. CASE Fresh(req[q])
    <3>1. ~Suspended(a)
      BY <1>1, <2>8 DEF Fresh
    <3>2. ASSUME NEW c, NEW mem, FreshFor(c, mem), c \in Bookings
          PROVE  FreshFor(c, mem)'
      <4>1. CASE c \in Stuck
        BY <2>6, <4>1 DEF FreshFor
      <4>2. CASE c \notin Stuck /\ c # b
        BY <1>1, <2>2, <3>2, <4>2 DEF FreshFor, Suspended
      <4>3. CASE c \notin Stuck /\ c = b
        BY <1>1, <2>1, <2>2, <3>1, <3>2, <4>3 DEF FreshFor, Suspended
      <4>4. QED
        BY <4>1, <4>2, <4>3
    <3>3. Outdated' => Outdated
      <4> SUFFICES ASSUME NEW s \in Requests, ~Fresh(req[s])', ~Outdated PROVE FALSE
        BY DEF Outdated
      <4>1. s # q
        BY <2>1 DEF Fresh, SavesTo
      <4>2. req'[s] = req[s] /\ Fresh(req[s])
        BY <1>1, <4>1 DEF Others, Outdated
      <4>3. req[s].at = "clash" => req[s].b \in Bookings
        BY Memory DEF Choices, At
      <4>4. SavesTo(req[s], "bookings") => req[s].key \in Bookings
        BY Memory DEF JobSaves, SaveOf
      <4>5. Fresh(req[s])'
        BY <1>1, <3>2, <4>2, <4>3, <4>4 DEF Fresh, SavesTo, Suspended
      <4>6. QED
        BY <4>5
    <3>4. AtFault' <= AtFault
      BY <3>3 DEF AtFault
    <3>5. QED
      BY <2>6, <3>4, IdleSame
  <2>9. QED
    BY <2>7, <2>8
<1>5. QED
  BY <1>3, <1>4

LEMMA IdleWrite ==
  ASSUME TypeInv, TypeInv', BusyInv, IdleInv, NEW q \in Requests, Writes(q)
  PROVE  IdleInv'
<1>1. GoesOn(q) /\ Others(q) /\ (~ClaimJob(q) => req'[q] = Idle)
  BY WritesIs DEF GoesOn
<1>2. ~Suspends(Idle)
  BY DEF Suspends, SavesTo, Idle
<1>3. ASSUME UNCHANGED agents, UNCHANGED bookings, req'[q] = Idle
      PROVE  IdleInv'
  <2>1. Stuck' \subseteq Stuck
    BY <1>1, <1>2, <1>3, StuckNoMore
  <2>2. QED
    BY <1>1, <1>3, <2>1, IdleEnds
<1>4. CASE UpdateRow(q)
  <2>1. req'[q] = Idle
    BY <1>1, <1>4 DEF UpdateRow, ClaimJob, At
  <2>2. CASE req[q].table = "documents"
    BY <1>3, <1>4, <2>1, <2>2, UpdateIs
  <2>3. QED
    BY <1>1, <1>4, <2>1, <2>2, IdleAgents, IdleJobs, UpdateIs
<1>5. CASE ClaimJob(q)
  BY <1>1, <1>5, IdleClaim
<1>6. CASE /\ ~UpdateRow(q) /\ ~ClaimJob(q)
  BY <1>1, <1>3, <1>6 DEF Writes, InsertDocument, DeleteDocument, InsertBank,
     InsertAttendance, CloseAttendance, InsertAvailability
<1>7. QED
  BY <1>4, <1>5, <1>6

LEMMA IdleStep ==
  ASSUME TypeInv, BusyInv, IdleInv, [Next]_vars, AgentsAssumption
  PROVE  IdleInv'
<1>1. TypeInv'
  BY TypeStep
<1>2. CASE Next
  <2>1. PICK q \in Requests : Begun(q) \/ Looked(q) \/ Writes(q) \/ Crash(q)
    BY <1>2, StepIs
  <2>2. QED
    BY <1>1, <2>1, IdleBegin, IdleLook, IdleWrite
<1>3. CASE UNCHANGED vars
  <2>1. Stuck' = Stuck
    BY <1>3 DEF vars, server, adata, desk, Stuck, Stopped, Suspended, Suspends, SavesTo
  <2>2. \A p \in Requests : Fresh(req[p]) <=> Fresh(req[p])'
    BY <1>3, <2>1 DEF vars, server, adata, desk, Fresh, FreshFor, SavesTo, Suspended
  <2>3. AtFault' = AtFault /\ Busy' = Busy /\ overlaps' = overlaps
    BY <1>3, <2>2 DEF vars, server, AtFault, Outdated, Busy, InFlight
  <2>4. QED
    BY <2>1, <2>3 DEF IdleInv
<1>4. QED
  BY <1>2, <1>3

\* A suspended agent has a job in progress at most once for every overlap: the
\* count that a suspension starts with misses a job only when the request that
\* starts, claims or hands over the job is in flight at the same time.
THEOREM SuspendedAlwaysIdle == Spec => []SuspendedIdle
<1> DEFINE Inv == TypeInv /\ BusyInv /\ IdleInv
<1>1. Init => Inv
  <2> SUFFICES ASSUME Init PROVE IdleInv
    BY AgentsAssumption, TypeInit, BusyStarts
  <2>1. Busy = {} /\ overlaps = 0 /\ Stuck = {}
    BY DEF Init, ServerInit, Busy, InFlight, Idle, Stuck
  <2>2. Cardinality(Stuck) = 0
    BY <2>1, FS_EmptySet
  <2>3. QED
    BY <2>1, <2>2 DEF IdleInv, Owes
<1>2. Inv /\ [Next]_vars => Inv'
  BY AgentsAssumption, TypeStep, BusyKept, IdleStep
<1>3. Inv => SuspendedIdle
  <2> SUFFICES ASSUME Inv PROVE SuspendedIdle
    OBVIOUS
  <2> DEFINE left == {b \in Bookings : /\ bookings[b].status = "ongoing"
                                       /\ bookings[b].agent # None
                                       /\ agents[bookings[b].agent].status = "SUSPENDED"}
  <2>1. /\ IsFiniteSet(Stuck) /\ Cardinality(Stuck) \in Nat /\ overlaps \in Nat
        /\ AtFault \in {0, 1} /\ IsFiniteSet(Busy)
    BY StuckTyped
  <2>2. Cardinality(Stuck) <= overlaps
    BY <2>1, OwesEnough DEF IdleInv
  <2>3. left \subseteq Stuck
    BY DEF Stuck, Stopped, Suspended
  <2>4. Cardinality(left) <= Cardinality(Stuck) /\ Cardinality(left) \in Nat
    BY <2>1, <2>3, Fewer
  <2>5. QED
    BY <2>1, <2>2, <2>4 DEF SuspendedIdle
<1> HIDE DEF Inv
<1>4. QED
  BY <1>1, <1>2, <1>3, PTL DEF Spec

-----------------------------------------------------------------------------
(* The agents' calendar.                                                   *)

\* What assertNoClash has to have seen of the job to assign.
Fits(r) ==
  /\ r.at \in {"candidate", "clash"} => r.mem.start = bookings[r.b].start
  /\ SavesTo(r, "bookings") /\ r.op = "assign" =>
       r.mem.start = bookings[r.key].start /\ Clash(r.key, r.mem, r.mem.agent) = {}

FitInv == overlaps = 0 => \A q \in Requests : Fits(req[q])

LEMMA ArrivesFits ==
  ASSUME NEW r, Arrives(r)
  PROVE  Fits(r)
<1>1. r.at \in {"candidate", "clash"} => r.mem.start = bookings[r.b].start
  <2>1. r.at \in {"candidate", "clash"} => OffersJob(r)
    BY ArrivesIs
  <2>2. OffersJob(r) => r.mem.start = bookings[r.b].start
    BY DEF OffersJob
  <2>3. QED
    BY <2>1, <2>2
<1>2. SavesTo(r, "bookings") => r.op # "assign"
  <2>1. SavesTo(r, "bookings") => MovesJob(r)
    BY ArrivesIs
  <2>2. MovesJob(r) => r.op = "move"
    BY DEF MovesJob, Save
  <2>3. QED
    BY <2>1, <2>2
<1>3. QED
  BY <1>1, <1>2 DEF Fits

LEMMA ProceedsFits ==
  ASSUME TypeInv, NEW q \in Requests, NEW n, Proceeds(req[q], n), Fits(req[q])
  PROVE  Fits(n)
<1> DEFINE r == req[q]
<1>1. CASE n = Idle
  BY <1>1 DEF Idle, Fits, SavesTo
<1>2. CASE Selects(r, n)
  BY <1>2 DEF Selects, Fits, SavesTo
<1>3. CASE DecidesOn(r, n) \/ TakesJobOn(r, n)
  <2>1. n.at = "select" /\ (n.table = "agents" \/ n.op = "move")
    BY <1>3 DEF DecidesOn, TakesJobOn, Save
  <2>2. QED
    BY <2>1 DEF Fits, SavesTo
<1>4. CASE FitsJobIn(r, n)
  <2>1. CASE r.at = "candidate"
    <3>1. n = [at |-> "clash", a |-> r.a, b |-> r.b, mem |-> r.mem]
      BY <1>4, <2>1 DEF FitsJobIn
    <3>2. QED
      BY <2>1, <3>1 DEF Fits, SavesTo
  <2>2. CASE r.at = "clash"
    <3>1. /\ n.at = "select" /\ n.table = "bookings" /\ n.key = r.b /\ n.mem = r.mem
          /\ Clash(r.b, r.mem, r.a) = {}
      BY <1>4, <2>2 DEF FitsJobIn, Save
    <3>2. r.mem.agent = r.a
      BY <2>2, Memory
    <3>3. QED
      BY <2>2, <3>1, <3>2 DEF Fits, SavesTo
  <2>3. QED
    BY <1>4, <2>1, <2>2 DEF FitsJobIn
<1>5. QED
  BY <1>1, <1>2, <1>3, <1>4 DEF Proceeds

LEMMA FitsSame ==
  ASSUME NEW p \in Requests, NEW n, req'[p] = n, UNCHANGED bookings, Fits(n)
  PROVE  Fits(req[p])'
BY DEF Fits, SavesTo, Clash

LEMMA FitStep ==
  ASSUME TypeInv, BusyInv, FitInv, [Next]_vars, AgentsAssumption
  PROVE  FitInv'
<1>1. ASSUME NEW q \in Requests, Begun(q)
      PROVE  FitInv'
  <2>1. /\ bookings' = bookings /\ Others(q) /\ Arrives(req'[q])
        /\ overlaps' = IF Busy = {} THEN overlaps ELSE overlaps + 1
        /\ overlaps \in Nat
    BY <1>1, BegunIs DEF adata, desk
  <2>2. overlaps' = 0 => overlaps = 0
    BY <2>1
  <2>3. Fits(req'[q])
    BY <2>1, ArrivesFits
  <2>4. QED
    BY <2>1, <2>2, <2>3, FitsSame DEF FitInv, Others
<1>2. ASSUME NEW q \in Requests, Looked(q) \/ Crash(q)
      PROVE  FitInv'
  <2>1. /\ GoesOn(q) /\ bookings' = bookings
        /\ req'[q] = Idle \/ Proceeds(req[q], req'[q])
    BY <1>2, LookedIs, CrashIs DEF adata, desk
  <2>2. Proceeds(req[q], req'[q]) /\ Others(q) /\ overlaps' = overlaps
    BY <2>1 DEF Proceeds, GoesOn
  <2>3. overlaps = 0 => Fits(req'[q])
    BY <2>2, ProceedsFits DEF FitInv
  <2>4. QED
    BY <2>1, <2>2, <2>3, FitsSame DEF FitInv, Others
<1>3. ASSUME NEW q \in Requests, Writes(q)
      PROVE  FitInv'
  <2>1. GoesOn(q) /\ (~ClaimJob(q) => req'[q] = Idle)
    BY <1>3, WritesIs
  <2>2. ClaimJob(q) => req'[q].at \in {"idle", "reread"}
    BY DEF ClaimJob, Go, Answer, Idle, TypeInv, ServerTyped
  <2>3. Fits(req[q])'
    BY <2>1, <2>2 DEF Fits, SavesTo, Idle
  <2>4. overlaps = 0 => \A p \in Requests : p # q => ~InFlight(p)
    BY <2>1, BusyAlone DEF GoesOn
  <2>5. overlaps = 0 => \A p \in Requests : p # q => Fits(req[p])'
    BY <2>1, <2>4 DEF Fits, SavesTo, InFlight, GoesOn, Others
  <2>6. QED
    BY <2>1, <2>3, <2>5 DEF FitInv, GoesOn
<1>4. CASE UNCHANGED vars
  <2>1. req' = req /\ bookings' = bookings /\ overlaps' = overlaps
    BY <1>4 DEF vars, server, adata, desk
  <2>2. QED
    BY <2>1, FitsSame DEF FitInv
<1>5. QED
  BY <1>1, <1>2, <1>3, <1>4, StepIs

\* A job in the way of another one, of those that end before midnight, is one
\* that assertNoClash finds.
LEMMA CollisionSeen ==
  ASSUME AgentsAssumption, NEW b \in Starts, NEW c \in Starts,
         b < c + Duration, c < b + Duration, c + Duration < DayEnd
  PROVE  c < WindowEnd(b) /\ TimeEnd(c) > b
<1>1. /\ b \in Nat /\ c \in Nat /\ Duration \in Nat /\ Duration >= 1
      /\ DayEnd \in Nat /\ DayEnd >= 1
  BY DEF AgentsAssumption
<1>2. (c + Duration) % DayEnd = c + Duration
  BY <1>1
<1>3. QED
  BY <1>1, <1>2 DEF WindowEnd, TimeEnd

\* An admin's assignment puts no job beside another one of the agent that
\* cannot be done as well, as long as no requests overlap: nothing has changed
\* since assertNoClash looked, and what it looks at is all that there is.
THEOREM AssignmentAlwaysFits == Spec => AssignmentFits
<1> DEFINE Inv == TypeInv /\ BusyInv /\ FitInv
           Fit == \A q \in Requests :
                    At(q, "update") /\ req[q].table = "bookings" /\ req[q].op = "assign"
                      /\ ~At(q, "update")' /\ deaths' = deaths /\ overlaps = 0 =>
                    \A c \in Bookings \ {req[q].key} :
                      bookings[c].agent = req[q].mem.agent
                          /\ bookings[c].status \in ActiveStatus
                        => ~Collide(req[q].key, c)
<1>1. Init => Inv
  <2> SUFFICES ASSUME Init PROVE FitInv
    BY AgentsAssumption, TypeInit, BusyStarts
  <2>1. \A q \in Requests : req[q] = Idle
    BY DEF Init, ServerInit
  <2>2. Fits(Idle)
    BY DEF Fits, SavesTo, Idle
  <2>3. QED
    BY <2>1, <2>2 DEF FitInv
<1>2. Inv /\ [Next]_vars => Inv'
  BY AgentsAssumption, TypeStep, BusyKept, FitStep
<1>3. Inv => Fit
  <2> SUFFICES ASSUME Inv, NEW q \in Requests, At(q, "update"),
                      req[q].table = "bookings", req[q].op = "assign", overlaps = 0,
                      NEW c \in Bookings \ {req[q].key},
                      bookings[c].agent = req[q].mem.agent,
                      bookings[c].status \in ActiveStatus,
                      Collide(req[q].key, c)
               PROVE  FALSE
    OBVIOUS
  <2>1. SavesTo(req[q], "bookings")
    BY DEF SavesTo, At
  <2>2. req[q].key \in Bookings
    BY <2>1, Memory DEF JobSaves, SaveOf
  <2>3. /\ req[q].mem.start = bookings[req[q].key].start
        /\ Clash(req[q].key, req[q].mem, req[q].mem.agent) = {}
    BY <2>1 DEF FitInv, Fits
  <2>4. bookings[c].start \in Starts /\ bookings[req[q].key].start \in Starts
    BY <2>2 DEF TypeInv, RowsTyped, Booking
  <2>5. /\ bookings[c].start < WindowEnd(bookings[req[q].key].start)
        /\ TimeEnd(bookings[c].start) > bookings[req[q].key].start
    BY <2>4, AgentsAssumption, CollisionSeen DEF Collide
  <2>6. c \in Clash(req[q].key, req[q].mem, req[q].mem.agent)
    BY <2>3, <2>5 DEF Clash
  <2>7. QED
    BY <2>3, <2>6
<1>4. AssignmentFits <=> [][Fit]_vars
  BY DEF AssignmentFits
<1> HIDE DEF Inv, Fit
<1>5. QED
  BY <1>1, <1>2, <1>3, <1>4, PTL DEF Spec

-----------------------------------------------------------------------------
(* Zones and addresses. *)

-----------------------------------------------------------------------------
(* The zone resolver.                                                      *)

\* What the resolver is given: distances and radii are whole km or unknown.
WellFormed(place, served) ==
  /\ \A a \in DOMAIN served : place.far[a] = Unknown \/ place.far[a] \in Nat
  /\ \A a \in DOMAIN served : served[a].radius = Unknown \/ served[a].radius \in Nat

\* A nonempty set of numbers has a least one.
LEMMA LeastOf ==
  ASSUME NEW N \in SUBSET Nat, N # {}
  PROVE  \E m \in N : \A n \in N : m <= n
<1> DEFINE Less == {p \in Nat \X Nat : p[1] < p[2]}
<1>1. OpToRel(<, Nat) = Less
  BY DEF OpToRel
<1>2. IsWellFoundedOn(Less, Nat)
  BY ONLY <1>1, NatLessThanWellFounded, Zenon
<1> HIDE DEF Less
<1>3. PICK m \in N : \A n \in N : ~ (<<n, m>> \in Less)
  BY <1>2, WFMin, Zenon
<1>4. ASSUME NEW n \in N PROVE m <= n
  <2>1. n \in Nat /\ m \in Nat
    OBVIOUS
  <2>2. ~(n < m)
    BY <1>3, <2>1 DEF Less
  <2>3. QED
    BY <2>1, <2>2
<1>5. QED
  BY <1>4

\* Of areas some of whose distances are known, one is closest.
LEMMA SomeClosest ==
  ASSUME NEW place, NEW S,
         \A a \in S : place.far[a] = Unknown \/ place.far[a] \in Nat,
         \E a \in S : place.far[a] # Unknown
  PROVE  Closest(place, S) # {}
<1> DEFINE Known  == {a \in S : place.far[a] # Unknown}
           Far(a) == place.far[a]
           N      == {Far(a) : a \in Known}
<1>1. N \in SUBSET Nat /\ N # {}
  OBVIOUS
<1>2. PICK m \in N : \A n \in N : m <= n
  BY <1>1, LeastOf
<1>3. PICK a \in Known : m = Far(a)
  OBVIOUS
<1>4. a \in Closest(place, S)
  BY <1>2, <1>3 DEF Closest
<1>5. QED
  BY <1>4

LEMMA Chosen ==
  ASSUME NEW place, NEW S,
         \A a \in S : place.far[a] = Unknown \/ place.far[a] \in Nat, S # {}
  PROVE  OneOf(place, S) # {} /\ OneOf(place, S) \subseteq S
BY DEF OneOf, Closest

\* ZoneResolverService.resolve never hands out an area that an admin has
\* deactivated, whichever way it finds one.
THEOREM ZoneIsActive ==
  ASSUME NEW place, NEW served
  PROVE  \A z \in Resolved(place, served) : z = NoZone \/ z \in Open(served)
<1>1. \A S : OneOf(place, S) \subseteq S /\ Closest(place, S) \subseteq S
  BY DEF OneOf, Closest
<1>2. /\ ByPincode(place, served) \subseteq Open(served)
      /\ Within(place, served) \subseteq Open(served)
      /\ ByCity(place, served) \subseteq Open(served)
  BY DEF ByPincode, Within, ByCity
<1>3. QED
  BY <1>1, <1>2 DEF Resolved

\* resolve always comes to an answer, and answers "no zone" for just the
\* places that no active area lists, reaches or has in its city.
THEOREM ZoneFound ==
  ASSUME NEW place, NEW served, WellFormed(place, served), NoZone \notin DOMAIN served
  PROVE  /\ Resolved(place, served) # {}
         /\ NoZone \in Resolved(place, served) <=>
              /\ ByPincode(place, served) = {}
              /\ Within(place, served) = {} /\ ByCity(place, served) = {}
<1> DEFINE P == ByPincode(place, served)
           W == Within(place, served)
           C == ByCity(place, served)
<1>1. \A a \in DOMAIN served : place.far[a] = Unknown \/ place.far[a] \in Nat
  BY DEF WellFormed
<1>2. P \subseteq DOMAIN served /\ W \subseteq DOMAIN served /\ C \subseteq DOMAIN served
  BY DEF ByPincode, Within, ByCity, Open
<1>3. P # {} => OneOf(place, P) # {} /\ OneOf(place, P) \subseteq P
  BY <1>1, <1>2, Chosen
<1>4. C # {} => OneOf(place, C) # {} /\ OneOf(place, C) \subseteq C
  BY <1>1, <1>2, Chosen
<1>5. W # {} => Closest(place, W) # {} /\ Closest(place, W) \subseteq W
  <2>1. SUFFICES ASSUME W # {}
                 PROVE  Closest(place, W) # {} /\ Closest(place, W) \subseteq W
    OBVIOUS
  <2>2. \E a \in W : place.far[a] # Unknown
    BY <2>1 DEF Within
  <2>3. \A a \in W : place.far[a] = Unknown \/ place.far[a] \in Nat
    BY <1>1, <1>2
  <2>4. Closest(place, W) # {}
    BY <2>2, <2>3, SomeClosest
  <2>5. Closest(place, W) \subseteq W
    BY DEF Closest
  <2>6. QED
    BY <2>4, <2>5
<1>6. QED
  BY <1>2, <1>3, <1>4, <1>5 DEF Resolved

\* A pincode that active areas list decides, however near other areas are; and
\* an area found by distance alone is no farther than its radius.
THEOREM PincodeDecides ==
  ASSUME NEW place, NEW served
  PROVE  /\ ByPincode(place, served) # {} =>
              Resolved(place, served) \subseteq ByPincode(place, served)
         /\ ByPincode(place, served) = {} /\ Within(place, served) # {} =>
              \A z \in Resolved(place, served) : place.far[z] <= Radius(served[z])
<1>1. \A S : OneOf(place, S) \subseteq S /\ Closest(place, S) \subseteq S
  BY DEF OneOf, Closest
<1>2. QED
  BY <1>1 DEF Resolved, Within

-----------------------------------------------------------------------------
(* The address book.                                                       *)

LaterStep == {"clear", "compare", "home"}

\* A request that has an address in its memory.
AddressWorking ==
  [at: LaterStep \cup {"insertAgain"}, rest: Seq(LaterStep), key: Address, mem: Entry, left: Loaded]

Writing ==
  [at: {"write"}, rest: Seq(LaterStep), key: Address, mem: Entry, left: Loaded,
   dirty: SUBSET {"zone", "default"}]

LEMMA StepsSplit ==
  AddressStep =
    {Idle} \cup [at: {"insert"}, default: BOOLEAN] \cup AddressWorking \cup Writing
      \cup [at: {"backfill"}, left: Loaded]
      \cup [at: {"delete"}, key: Address, default: BOOLEAN]
      \cup [at: {"promote", "homeless"}]
BY DEF AddressStep, AddressWorking, Writing, LaterStep

LEMMA AddressTypeSplit ==
  AddressTypeOK <=>
    /\ Present \subseteq Address /\ addresses \in [Present -> Entry]
    /\ homeZone \in Zone /\ ServerTyped(AddressStep)
BY DEF AddressTypeOK, ServerTyped

\* What is in a request's memory, by the step it is at.
LEMMA AddressMemory ==
  ASSUME AddressTypeOK, NEW q \in Requests
  PROVE  /\ req[q].at \in LaterStep \cup {"insertAgain"} => req[q] \in AddressWorking
         /\ At(q, "write") => req[q] \in Writing
         /\ At(q, "insert") => req[q].default \in BOOLEAN
         /\ At(q, "backfill") => req[q].left \in Loaded
         /\ At(q, "delete") => req[q].key \in Address /\ req[q].default \in BOOLEAN
<1>1. req[q] \in AddressStep
  BY DEF AddressTypeOK
<1>2. Idle.at = "idle"
  BY DEF Idle
<1>3. QED
  BY <1>1, <1>2, StepsSplit DEF AddressWorking, Writing, LaterStep, At

LEMMA LoadedIs ==
  /\ \A f \in Loaded : DOMAIN f \in SUBSET Address /\ f \in [DOMAIN f -> Entry]
  /\ \A S \in SUBSET Address : \A f \in [S -> Entry] : f \in Loaded
  /\ Nothing \in Loaded
<1>1. Nothing \in [{} -> Entry]
  BY DEF Nothing
<1>2. {} \in SUBSET Address
  OBVIOUS
<1>3. QED
  BY <1>1, <1>2 DEF Loaded

LEMMA TaskTyped ==
  ASSUME NEW at \in LaterStep, NEW rest \in Seq(LaterStep), NEW key \in Address,
         NEW mem \in Entry, NEW left \in Loaded
  PROVE  Task(at, rest, key, mem, left) \in AddressStep
BY StepsSplit DEF Task, AddressWorking

LEMMA WorkTyped ==
  ASSUME NEW at \in LaterStep, NEW rest \in Seq(LaterStep), NEW key \in Address, NEW mem \in Entry
  PROVE  Work(at, rest, key, mem) \in AddressStep
BY TaskTyped, LoadedIs DEF Work

\* Whatever comes next is well typed.
LEMMA OnwardTyped ==
  ASSUME ServerTyped(AddressStep), NEW q \in Requests,
         NEW r \in AddressWorking \cup Writing, Onward(q, r)
  PROVE  ServerTyped(AddressStep)'
<1>1. r.rest \in Seq(LaterStep) /\ r.key \in Address /\ r.mem \in Entry /\ r.left \in Loaded
  BY DEF AddressWorking, Writing
<1>2. CASE r.rest # <<>>
  <2>1. Head(r.rest) \in LaterStep /\ Tail(r.rest) \in Seq(LaterStep)
    BY <1>1, <1>2
  <2>2. Task(Head(r.rest), Tail(r.rest), r.key, r.mem, r.left) \in AddressStep
    BY <1>1, <2>1, TaskTyped
  <2>3. QED
    BY <1>2, <2>2, GoTyped DEF Onward
<1>3. CASE r.rest = <<>> /\ r.left # Nothing
  <2>1. [at |-> "backfill", left |-> r.left] \in AddressStep
    BY <1>1, StepsSplit
  <2>2. QED
    BY <1>3, <2>1, GoTyped DEF Onward
<1>4. CASE r.rest = <<>> /\ r.left = Nothing
  BY <1>4, AnswerTyped, StepsSplit DEF Onward
<1>5. QED
  BY <1>2, <1>3, <1>4

\* A handler's first step, and any later one that writes nothing.
LEMMA AddressLookTyped ==
  ASSUME AddressTypeOK, UNCHANGED book, ServerTyped(AddressStep)'
  PROVE  AddressTypeOK'
BY AddressTypeSplit DEF AddressTypeOK, ServerTyped, book, Present

LEMMA EntryChanged ==
  ASSUME NEW e \in Entry
  PROVE  /\ [e EXCEPT !.default = TRUE] \in Entry
         /\ [e EXCEPT !.default = FALSE] \in Entry
         /\ \A zone \in Zone : [e EXCEPT !.zone = zone] \in Entry
BY DEF Entry

LEMMA RoutesTyped ==
  ASSUME AddressTypeOK, NEW q \in Requests, AddressRoutes(q)
  PROVE  AddressTypeOK'
<1> USE AddressTypeSplit
<1>1. /\ <<>> \in Seq(LaterStep) /\ <<"home">> \in Seq(LaterStep)
      /\ <<"clear", "home">> \in Seq(LaterStep) /\ <<"compare", "home">> \in Seq(LaterStep)
  BY DEF LaterStep
<1>2. CASE CreateAddress(q)
  <2>1. PICK default \in BOOLEAN :
          Start(q, [at |-> "insert", default |-> default \/ Present = {}])
    BY <1>2 DEF CreateAddress
  <2>2. [at |-> "insert", default |-> default \/ Present = {}] \in AddressStep
    BY StepsSplit
  <2>3. QED
    BY <1>2, <2>1, <2>2, StartTyped, AddressLookTyped DEF CreateAddress
<1>3. CASE UpdateAddress(q)
  <2>1. PICK a \in Present, zone \in Zone, default \in BOOLEAN :
          Start(q, Work("compare", IF default THEN <<"clear", "home">> ELSE <<>>, a,
                        [zone |-> zone, default |-> default]))
    BY <1>3 DEF UpdateAddress
  <2>2. [zone |-> zone, default |-> default] \in Entry
    BY DEF Entry
  <2>3. (IF default THEN <<"clear", "home">> ELSE <<>>) \in Seq(LaterStep)
    BY <1>1
  <2>4. Work("compare", IF default THEN <<"clear", "home">> ELSE <<>>, a,
             [zone |-> zone, default |-> default]) \in AddressStep
    BY <2>2, <2>3, WorkTyped DEF LaterStep
  <2>5. QED
    BY <1>3, <2>1, <2>4, StartTyped, AddressLookTyped DEF UpdateAddress
<1>4. CASE SetDefault(q)
  <2>1. PICK a \in Present :
          Start(q, Work("clear", <<"compare", "home">>, a,
                        [addresses[a] EXCEPT !.default = TRUE]))
    BY <1>4 DEF SetDefault
  <2>2. [addresses[a] EXCEPT !.default = TRUE] \in Entry
    BY EntryChanged
  <2>3. Work("clear", <<"compare", "home">>, a, [addresses[a] EXCEPT !.default = TRUE])
          \in AddressStep
    BY <1>1, <2>2, WorkTyped DEF LaterStep
  <2>4. QED
    BY <1>4, <2>1, <2>3, StartTyped, AddressLookTyped DEF SetDefault
<1>5. CASE RemoveAddress(q)
  <2>1. PICK a \in Present :
          Start(q, [at |-> "delete", key |-> a, default |-> addresses[a].default])
    BY <1>5 DEF RemoveAddress
  <2>2. [at |-> "delete", key |-> a, default |-> addresses[a].default] \in AddressStep
    BY StepsSplit DEF Entry
  <2>3. QED
    BY <1>5, <2>1, <2>2, StartTyped, AddressLookTyped DEF RemoveAddress
<1>6. QED
  BY <1>2, <1>3, <1>4, <1>5 DEF AddressRoutes

\* Inserting and deleting a row.
LEMMA AddressRowsTyped ==
  ASSUME AddressTypeOK, NEW q \in Requests,
         InsertAddress(q) \/ InsertAgain(q) \/ DeleteAddress(q)
  PROVE  AddressTypeOK'
<1> USE AddressTypeSplit
<1>1. CASE InsertAddress(q)
  <2>1. PICK a \in Address \ Present, zone \in Zone :
          LET row == [zone |-> zone, default |-> req[q].default]
          IN  /\ addresses' = [b \in Present \cup {a} |->
                                 IF b = a THEN row ELSE addresses[b]]
              /\ IF row.default THEN Go(q, Work("clear", <<"home">>, a, row))
                                ELSE Answer(q)
    BY <1>1 DEF InsertAddress
  <2> DEFINE row == [zone |-> zone, default |-> req[q].default]
  <2>2. row \in Entry
    BY <1>1, AddressMemory DEF Entry, InsertAddress
  <2>3. <<"home">> \in Seq(LaterStep) /\ "clear" \in LaterStep
    BY DEF LaterStep
  <2>4. Work("clear", <<"home">>, a, row) \in AddressStep
    BY <2>2, <2>3, WorkTyped
  <2>5. ServerTyped(AddressStep)'
    BY <2>1, <2>4, GoTyped, AnswerTyped, StepsSplit
  <2>6. Present' \subseteq Address /\ addresses' \in [Present' -> Entry]
    BY <2>1, <2>2 DEF Present
  <2>7. QED
    BY <1>1, <2>5, <2>6 DEF InsertAddress, AddressTypeOK, ServerTyped
<1>2. CASE InsertAgain(q)
  <2>1. req[q] \in AddressWorking
    BY <1>2, AddressMemory DEF InsertAgain, At
  <2>2. Present' \subseteq Address /\ addresses' \in [Present' -> Entry]
    BY <1>2, <2>1 DEF InsertAgain, Present, AddressWorking
  <2>3. ServerTyped(AddressStep)'
    BY <1>2, <2>1, OnwardTyped DEF InsertAgain
  <2>4. QED
    BY <1>2, <2>2, <2>3 DEF InsertAgain, AddressTypeOK, ServerTyped
<1>3. CASE DeleteAddress(q)
  <2>1. Present' \subseteq Address /\ addresses' \in [Present' -> Entry]
    BY <1>3 DEF DeleteAddress, Present
  <2>2. [at |-> "promote"] \in AddressStep
    BY StepsSplit
  <2>3. ServerTyped(AddressStep)'
    BY <1>3, <2>2, GoTyped, AnswerTyped, StepsSplit DEF DeleteAddress
  <2>4. QED
    BY <1>3, <2>1, <2>3 DEF DeleteAddress, AddressTypeOK, ServerTyped
<1>4. QED
  BY <1>1, <1>2, <1>3

\* Changing rows.
LEMMA WritesTyped ==
  ASSUME AddressTypeOK, NEW q \in Requests,
         ClearOthers(q) \/ WriteAddress(q) \/ SyncHomeZone(q) \/ ClearHomeZone(q)
  PROVE  AddressTypeOK'
<1> USE AddressTypeSplit
<1>1. CASE ClearOthers(q)
  <2>1. req[q] \in AddressWorking
    BY <1>1, AddressMemory DEF ClearOthers, At, LaterStep
  <2>2. \A a \in Present : [addresses[a] EXCEPT !.default = FALSE] \in Entry
    BY EntryChanged
  <2>3. Present' \subseteq Address /\ addresses' \in [Present' -> Entry]
    BY <1>1, <2>2 DEF ClearOthers, Present
  <2>4. ServerTyped(AddressStep)'
    BY <1>1, <2>1, OnwardTyped DEF ClearOthers
  <2>5. QED
    BY <1>1, <2>3, <2>4 DEF ClearOthers, AddressTypeOK, ServerTyped
<1>2. CASE WriteAddress(q)
  <2>1. req[q] \in Writing
    BY <1>2, AddressMemory DEF WriteAddress
  <2> DEFINE Filled(a) == [c \in {"zone", "default"} |->
               IF a = req[q].key /\ c \in req[q].dirty THEN req[q].mem[c] ELSE addresses[a][c]]
  <2>2. \A a \in Present : Filled(a) \in Entry
    BY <2>1 DEF Writing, Entry
  <2>3. addresses' = [a \in Present |-> Filled(a)]
    BY <1>2 DEF WriteAddress
  <2> HIDE DEF Filled
  <2>4. Present' \subseteq Address /\ addresses' \in [Present' -> Entry]
    BY <2>2, <2>3 DEF Present
  <2>5. ServerTyped(AddressStep)'
    BY <1>2, <2>1, OnwardTyped DEF WriteAddress
  <2>6. QED
    BY <1>2, <2>4, <2>5 DEF WriteAddress, AddressTypeOK, ServerTyped
<1>3. CASE SyncHomeZone(q)
  <2>1. req[q] \in AddressWorking
    BY <1>3, AddressMemory DEF SyncHomeZone, At, LaterStep
  <2>2. ServerTyped(AddressStep)'
    BY <1>3, <2>1, OnwardTyped DEF SyncHomeZone
  <2>3. QED
    BY <1>3, <2>1, <2>2 DEF SyncHomeZone, AddressTypeOK, ServerTyped, AddressWorking, Entry, Present
<1>4. CASE ClearHomeZone(q)
  BY <1>4, AnswerTyped, StepsSplit
     DEF ClearHomeZone, AddressTypeOK, ServerTyped, Zone, Present
<1>5. QED
  BY <1>1, <1>2, <1>3, <1>4

\* Steps between two statements that write.
LEMMA ReadsTyped ==
  ASSUME AddressTypeOK, NEW q \in Requests,
         SelectAddress(q) \/ PromoteAddress(q) \/ BackfillZones(q) \/ BackfillNext(q)
           \/ AddressCrash(q)
  PROVE  AddressTypeOK'
<1> USE AddressTypeSplit
<1>1. CASE SelectAddress(q)
  <2> DEFINE r    == req[q]
             diff == {c \in {"zone", "default"} : addresses[r.key][c] # r.mem[c]}
  <2>1. r \in AddressWorking
    BY <1>1, AddressMemory DEF SelectAddress, At, LaterStep
  <2>2. [r EXCEPT !.at = "insertAgain"] \in AddressStep
    BY <2>1, StepsSplit DEF AddressWorking
  <2>3. [at |-> "write", rest |-> r.rest, key |-> r.key, mem |-> r.mem, left |-> r.left,
         dirty |-> diff] \in AddressStep
    BY <2>1, StepsSplit DEF AddressWorking, Writing
  <2>4. Onward(q, r) => ServerTyped(AddressStep)'
    BY <2>1, OnwardTyped
  <2>5. ServerTyped(AddressStep)'
    BY <1>1, <2>2, <2>3, <2>4, GoTyped DEF SelectAddress
  <2>6. QED
    BY <1>1, <2>5, AddressLookTyped DEF SelectAddress
<1>2. CASE PromoteAddress(q)
  <2>1. CASE Present = {}
    BY <1>2, <2>1, StepsSplit, GoTyped, AddressLookTyped DEF PromoteAddress
  <2>2. CASE Present # {}
    <3>1. PICK a \in Present :
            Go(q, Work("compare", <<"home">>, a, [addresses[a] EXCEPT !.default = TRUE]))
      BY <1>2, <2>2 DEF PromoteAddress
    <3>2. [addresses[a] EXCEPT !.default = TRUE] \in Entry
      BY EntryChanged
    <3>3. <<"home">> \in Seq(LaterStep) /\ "compare" \in LaterStep
      BY DEF LaterStep
    <3>4. Work("compare", <<"home">>, a, [addresses[a] EXCEPT !.default = TRUE])
            \in AddressStep
      BY <3>2, <3>3, WorkTyped
    <3>5. QED
      BY <1>2, <3>1, <3>4, GoTyped, AddressLookTyped DEF PromoteAddress
  <2>3. QED
    BY <2>1, <2>2
<1>3. CASE BackfillZones(q)
  <2> DEFINE S    == {b \in Present : addresses[b].zone = NoZone}
             left == [a \in S |-> addresses[a]]
  <2>1. left \in [S -> Entry] /\ S \in SUBSET Address
    OBVIOUS
  <2>2. left \in Loaded
    BY <2>1, LoadedIs
  <2>3. [at |-> "backfill", left |-> left] \in AddressStep
    BY <2>2, StepsSplit
  <2>4. QED
    BY <1>3, <2>3, StartTyped, AddressLookTyped DEF BackfillZones
<1>4. CASE BackfillNext(q)
  <2> DEFINE left == req[q].left
  <2>1. /\ left \in Loaded /\ DOMAIN left \in SUBSET Address
        /\ left \in [DOMAIN left -> Entry]
    BY <1>4, AddressMemory, LoadedIs DEF BackfillNext
  <2>2. CASE left = Nothing
    BY <1>4, <2>2, AnswerTyped, StepsSplit, AddressLookTyped DEF BackfillNext
  <2>3. CASE left # Nothing
    <3> DEFINE Rest(a)  == [b \in DOMAIN left \ {a} |-> left[b]]
               After(a) == IF left[a].default THEN <<"home">> ELSE <<>>
    <3>1. PICK a \in DOMAIN left, zone \in Zone :
            IF zone = NoZone THEN Go(q, [at |-> "backfill", left |-> Rest(a)])
            ELSE Go(q, Task("compare", After(a), a, [left[a] EXCEPT !.zone = zone], Rest(a)))
      BY <1>4, <2>3 DEF BackfillNext
    <3>2. Rest(a) \in [DOMAIN left \ {a} -> Entry] /\ DOMAIN left \ {a} \in SUBSET Address
      BY <2>1
    <3>3. Rest(a) \in Loaded
      BY <3>2, LoadedIs
    <3>4. [left[a] EXCEPT !.zone = zone] \in Entry
      BY <2>1, EntryChanged
    <3>5. After(a) \in Seq(LaterStep) /\ "compare" \in LaterStep /\ a \in Address
      <4>1. <<>> \in Seq(LaterStep) /\ <<"home">> \in Seq(LaterStep) /\ "compare" \in LaterStep
        BY DEF LaterStep
      <4>2. QED
        BY <2>1, <4>1
    <3>6. Task("compare", After(a), a, [left[a] EXCEPT !.zone = zone], Rest(a)) \in AddressStep
      BY <3>3, <3>4, <3>5, TaskTyped
    <3>7. [at |-> "backfill", left |-> Rest(a)] \in AddressStep
      BY <3>3, StepsSplit
    <3>8. QED
      BY <1>4, <3>1, <3>6, <3>7, GoTyped, AddressLookTyped DEF BackfillNext
  <2>4. QED
    BY <2>2, <2>3
<1>5. CASE AddressCrash(q)
  BY <1>5, DieTyped, StepsSplit, AddressLookTyped DEF AddressCrash
<1>6. QED
  BY <1>1, <1>2, <1>3, <1>4, <1>5

LEMMA AddressTypeStart == AddressInit => AddressTypeOK
<1>1. Idle \in AddressStep
  BY StepsSplit
<1>2. QED
  BY <1>1, AddressTypeSplit DEF AddressInit, ServerInit, AddressTypeOK, Zone, Present

LEMMA AddressTypeKept ==
  ASSUME AddressTypeOK, [AddressNext]_bvars
  PROVE  AddressTypeOK'
<1>1. CASE AddressNext
  BY <1>1, RoutesTyped, AddressRowsTyped, WritesTyped, ReadsTyped DEF AddressNext
<1>2. CASE UNCHANGED bvars
  BY <1>2 DEF bvars, book, server, AddressTypeOK, Present
<1>3. QED
  BY <1>1, <1>2

\* Every reachable state of the address book is well typed, for any number of
\* addresses and requests at a time.  In particular the home zone is always one
\* that a place of the customer's resolved to, or none.
THEOREM AddressTypeCorrect == AddressSpec => []AddressTypeOK
BY AddressTypeStart, AddressTypeKept, PTL DEF AddressSpec

-----------------------------------------------------------------------------
(* The default flags, and those that requests are about to set.            *)

AddressOthers(q) == \A p \in Requests : p # q => req'[p] = req[p]

\* Request r has an address in its memory.
Holding(r) == r.at \in {"clear", "compare", "write", "insertAgain", "home"}

\* The steps that follow its present one, and all it has still to do.
Later(r) == {r.rest[i] : i \in DOMAIN r.rest}
Ahead(r) == {r.at} \cup Later(r)

\* It will set the flag of its address.
Flags(r) ==
  /\ Holding(r) /\ r.mem.default
  /\ \/ Ahead(r) \cap {"compare", "insertAgain"} # {}
     \/ r.at = "write" /\ "default" \in r.dirty

\* A backfill will save these with the flag they had.
AddressKept(r) == {a \in DOMAIN r.left : r.left[a].default}

Pins(r) == {a \in Address : \/ Flags(r) /\ r.key = a
                            \/ (Holding(r) \/ r.at = "backfill") /\ a \in AddressKept(r)}

AddressPinned  == UNION {Pins(req[q]) : q \in Requests}
Flagged == Defaults \cup AddressPinned

\* Requests that will flag an address, or insert one, that is still to be
\* chosen.
Names(r) == (r.at \in {"insert", "delete"} /\ r.default) \/ r.at = "promote"
Naming   == {q \in Requests : Names(req[q])}

\* r is to take the flag off x.
Unflags(r, x) ==
  \/ Holding(r) /\ "clear" \in Ahead(r) /\ r.key # x
  \/ r.at = "insert" /\ r.default
  \/ r.at = "delete" /\ r.default /\ r.key = x

\* A default and the request that replaces it are both in the count.
Replacing == \E x \in Defaults \ AddressPinned, q \in Requests : Unflags(req[q], x)
Spare     == IF Replacing THEN 1 ELSE 0

FlagInv ==
  /\ IsFiniteSet(Flagged)
  /\ Cardinality(Flagged) + Cardinality(Naming) <= 1 + overlaps + deaths + Spare

LEMMA AheadOnward ==
  ASSUME NEW s \in Seq(LaterStep), s # <<>>
  PROVE  /\ Head(s) \in LaterStep /\ Tail(s) \in Seq(LaterStep)
         /\ {Head(s)} \cup {Tail(s)[i] : i \in DOMAIN Tail(s)} = {s[i] : i \in DOMAIN s}
<1>1. /\ DOMAIN s = 1..Len(s) /\ Len(s) \in Nat /\ Len(s) # 0 /\ Head(s) = s[1]
      /\ Tail(s) \in Seq(LaterStep) /\ Len(Tail(s)) = Len(s) - 1
      /\ DOMAIN Tail(s) = 1..Len(Tail(s)) /\ s[1] \in LaterStep
  OBVIOUS
<1>2. \A i \in 1..Len(Tail(s)) : i + 1 \in 1..Len(s) /\ Tail(s)[i] = s[i + 1]
  BY <1>1
<1>3. \A i \in 1..Len(s) : i = 1 \/ (i - 1 \in 1..Len(Tail(s)) /\ Tail(s)[i - 1] = s[i])
  BY <1>1
<1>4. {Head(s)} \cup {Tail(s)[i] : i \in DOMAIN Tail(s)} \subseteq {s[i] : i \in DOMAIN s}
  BY <1>1, <1>2
<1>5. ASSUME NEW i \in DOMAIN s
      PROVE  s[i] \in {Head(s)} \cup {Tail(s)[j] : j \in DOMAIN Tail(s)}
  BY <1>1, <1>3
<1>6. QED
  BY <1>1, <1>4, <1>5

LEMMA GoMoves ==
  ASSUME AddressTypeOK, NEW q \in Requests, NEW r, Go(q, r)
  PROVE  req'[q] = r /\ AddressOthers(q) /\ overlaps' = overlaps /\ deaths' = deaths
BY DEF AddressTypeOK, Go, AddressOthers

\* Where a request goes when it is done with a step.
LEMMA OnwardMoves ==
  ASSUME AddressTypeOK, NEW q \in Requests, NEW r \in AddressWorking \cup Writing, Onward(q, r)
  PROVE  /\ AddressOthers(q) /\ overlaps' = overlaps /\ deaths' = deaths
         /\ \/ /\ r.rest # <<>>
               /\ req'[q] = Task(Head(r.rest), Tail(r.rest), r.key, r.mem, r.left)
            \/ /\ r.rest = <<>> /\ r.left # Nothing
               /\ req'[q] = [at |-> "backfill", left |-> r.left]
            \/ r.rest = <<>> /\ r.left = Nothing /\ req'[q] = Idle
<1>1. CASE r.rest # <<>>
  BY <1>1, GoMoves DEF Onward
<1>2. CASE r.rest = <<>> /\ r.left # Nothing
  BY <1>2, GoMoves DEF Onward
<1>3. CASE r.rest = <<>> /\ r.left = Nothing
  BY <1>3, GoMoves DEF Onward, Answer
<1>4. QED
  BY <1>1, <1>2, <1>3

\* Nothing new is announced on the way.
Milder(new, old) ==
  /\ Pins(new) \subseteq Pins(old)
  /\ Names(new) => Names(old)

LEMMA OnwardMild ==
  ASSUME AddressTypeOK, NEW q \in Requests, NEW r \in AddressWorking \cup Writing, Onward(q, r)
  PROVE  /\ Milder(req'[q], r) /\ ~Names(req'[q])
         /\ r.at # "clear" => \A x \in Address : Unflags(r, x) => Unflags(req'[q], x)
<1> DEFINE new == req'[q]
<1>0. /\ r.rest \in Seq(LaterStep) /\ Holding(r) /\ r.at # "insert" /\ r.at # "delete"
      /\ r.at # "promote"
  BY DEF AddressWorking, Writing, Holding, LaterStep
<1>1. CASE r.rest # <<>>
  <2>1. new = Task(Head(r.rest), Tail(r.rest), r.key, r.mem, r.left)
    BY <1>1, OnwardMoves
  <2>2. /\ new.at = Head(r.rest) /\ new.rest = Tail(r.rest) /\ new.key = r.key
        /\ new.mem = r.mem /\ new.left = r.left /\ new.at \in LaterStep
    BY <1>0, <1>1, <2>1, AheadOnward DEF Task
  <2> HIDE DEF new
  <2>3. Ahead(new) = Later(r)
    <3>1. {Head(r.rest)} \cup {Tail(r.rest)[i] : i \in DOMAIN Tail(r.rest)}
            = {r.rest[i] : i \in DOMAIN r.rest}
      BY <1>0, <1>1, AheadOnward
    <3>2. Ahead(new) = {Head(r.rest)} \cup {Tail(r.rest)[i] : i \in DOMAIN Tail(r.rest)}
      BY <2>2 DEF Ahead, Later
    <3>3. QED
      BY <3>1, <3>2 DEF Later
  <2>4. Holding(new) /\ new.at # "write" /\ ~Names(new)
    BY <2>2 DEF Holding, LaterStep, Names
  <2>5. Flags(new) => Flags(r)
    BY <1>0, <2>2, <2>3, <2>4 DEF Flags, Ahead
  <2>6. AddressKept(new) = AddressKept(r)
    BY <2>2 DEF AddressKept
  <2>7. Pins(new) \subseteq Pins(r)
    BY <1>0, <2>2, <2>5, <2>6 DEF Pins
  <2>8. ASSUME r.at # "clear", NEW x \in Address, Unflags(r, x) PROVE Unflags(new, x)
    BY <1>0, <2>2, <2>3, <2>4, <2>8 DEF Unflags, Ahead
  <2>9. QED
    BY <2>4, <2>7, <2>8 DEF Milder, new
<1>2. CASE r.rest = <<>>
  <2>1. \/ new = [at |-> "backfill", left |-> r.left]
        \/ new = Idle
    BY <1>2, OnwardMoves
  <2>2. /\ ~Holding(new) /\ ~Names(new) /\ ~Flags(new)
        /\ new.at = "backfill" => new.left = r.left
    BY <2>1 DEF Holding, Names, Flags, Idle
  <2> HIDE DEF new
  <2>3. new.at = "backfill" => AddressKept(new) = AddressKept(r)
    BY <2>2 DEF AddressKept
  <2>4. Pins(new) \subseteq Pins(r)
    BY <1>0, <2>2, <2>3 DEF Pins
  <2>5. Later(r) = {}
    BY <1>2 DEF Later
  <2>6. ASSUME r.at # "clear", NEW x \in Address, Unflags(r, x) PROVE Unflags(new, x)
    BY <1>0, <2>5, <2>6 DEF Unflags, Ahead
  <2>7. QED
    BY <2>2, <2>4, <2>6 DEF Milder, new
<1>3. QED
  BY <1>1, <1>2

-----------------------------------------------------------------------------
(* What a step may do to the flags.                                        *)

LEMMA FlagTypes ==
  ASSUME AddressTypeOK, BusyInv
  PROVE  /\ Defaults \subseteq Address /\ AddressPinned \subseteq Address
         /\ overlaps \in Nat /\ deaths \in Nat
         /\ Spare \in {0, 1} /\ (Replacing <=> Spare = 1)
         /\ IsFiniteSet(Naming) /\ Naming \subseteq Requests
<1>1. Naming \in SUBSET Busy
  BY DEF Naming, Names, Busy, InFlight
<1>2. IsFiniteSet(Naming)
  BY <1>1, Fewer DEF BusyInv
<1>3. QED
  BY <1>2 DEF AddressTypeOK, Defaults, AddressPinned, Pins, Spare, Naming

\* The two sets, and what there is to pay for them.
LEMMA FlagsAfforded ==
  ASSUME AddressTypeOK, BusyInv, FlagInv,
         overlaps' \in Nat, deaths' \in Nat, Spare' \in {0, 1},
         \/ Affords(Flagged, Naming, 1 + overlaps + deaths + Spare,
                    Flagged', Naming', 1 + overlaps' + deaths' + Spare')
         \/ Affords(Naming, Flagged, 1 + overlaps + deaths + Spare,
                    Naming', Flagged', 1 + overlaps' + deaths' + Spare')
  PROVE  FlagInv'
<1>1. PICK oo \in Nat, dd \in Nat, ss \in {0, 1} : oo = overlaps' /\ dd = deaths' /\ ss = Spare'
  OBVIOUS
<1> DEFINE n  == 1 + overlaps + deaths + Spare
           nn == 1 + oo + dd + ss
<1>2. n \in Nat /\ nn \in Nat /\ IsFiniteSet(Flagged) /\ IsFiniteSet(Naming)
      /\ Cardinality(Flagged) + Cardinality(Naming) <= n
  BY FlagTypes DEF FlagInv
<1>3. \/ Affords(Flagged, Naming, n, Flagged', Naming', nn)
      \/ Affords(Naming, Flagged, n, Naming', Flagged', nn)
  BY <1>1
<1> HIDE DEF n, nn
<1>4. Cardinality(Flagged) \in Nat /\ Cardinality(Naming) \in Nat
  BY <1>2, FS_CardinalityType
<1>5. /\ \E x : Flagged' \subseteq Flagged \cup {x}
      /\ \E x : Naming' \subseteq Naming \cup {x}
  BY <1>3 DEF Affords
<1>6. /\ IsFiniteSet(Flagged')
      /\ Cardinality(Flagged') \in Nat /\ Cardinality(Naming') \in Nat
  BY <1>2, <1>5, OneMore
<1>7. CASE Affords(Flagged, Naming, n, Flagged', Naming', nn)
  <2>1. Cardinality(Flagged') + Cardinality(Naming') <= nn
    BY <1>2, <1>7, Afforded
  <2>2. QED
    BY <1>1, <1>6, <2>1 DEF FlagInv, nn
<1>8. CASE Affords(Naming, Flagged, n, Naming', Flagged', nn)
  <2>1. Cardinality(Naming) + Cardinality(Flagged) <= n
    BY <1>2, <1>4
  <2>2. Cardinality(Naming') + Cardinality(Flagged') <= nn
    BY <1>2, <1>8, <2>1, Afforded
  <2>3. QED
    BY <1>1, <1>6, <2>2 DEF FlagInv, nn
<1>9. QED
  BY <1>3, <1>7, <1>8

\* A step that announces nothing new.
LEMMA MildStep ==
  ASSUME AddressTypeOK, BusyInv, FlagInv, NEW q \in Requests, AddressOthers(q),
         overlaps' = overlaps, deaths' = deaths,
         Milder(req'[q], req[q]),
         Defaults' \subseteq Defaults \cup Pins(req[q]),
         \A x \in Defaults : x \in Defaults' /\ Unflags(req[q], x) => Unflags(req'[q], x)
  PROVE  FlagInv'
<1>1. AddressPinned' \subseteq AddressPinned
  <2>1. \A p \in Requests : Pins(req'[p]) \subseteq Pins(req[p])
    BY DEF Milder, AddressOthers
  <2>2. QED
    BY <2>1 DEF AddressPinned, Pins
<1>2. Pins(req[q]) \subseteq AddressPinned
  BY DEF AddressPinned
<1>3. Flagged' \subseteq Flagged
  BY <1>1, <1>2 DEF Flagged
<1>4. Naming' \subseteq Naming
  BY DEF Naming, Milder, AddressOthers
<1>5. Replacing => Replacing' \/ Flagged' # Flagged
  <2> SUFFICES ASSUME Replacing, Flagged' = Flagged PROVE Replacing'
    OBVIOUS
  <2>1. PICK x \in Defaults \ AddressPinned, p \in Requests : Unflags(req[p], x)
    BY DEF Replacing
  <2>2. x \in Defaults' \ AddressPinned'
    BY <1>1, <2>1 DEF Flagged
  <2>3. Unflags(req'[p], x)
    BY <2>1, <2>2 DEF AddressOthers
  <2>4. QED
    BY <2>2, <2>3 DEF Replacing
<1>6. /\ overlaps \in Nat /\ deaths \in Nat
      /\ Spare \in {0, 1} /\ (Replacing <=> Spare = 1)
      /\ Spare' \in {0, 1} /\ (Replacing' <=> Spare' = 1)
  BY FlagTypes DEF Spare
<1>7. PICK ss \in {0, 1} : ss = Spare'
  BY <1>6
<1>8. 1 + overlaps + deaths + Spare <= 1 + overlaps + deaths + ss + 1
  BY <1>6
<1>9. Spare <= ss => 1 + overlaps + deaths + Spare <= 1 + overlaps + deaths + ss
  BY <1>6
<1>10. Spare <= ss \/ Flagged' # Flagged
  BY <1>5, <1>6, <1>7
<1>11. Affords(Flagged, Naming, 1 + overlaps + deaths + Spare,
               Flagged', Naming', 1 + overlaps + deaths + ss)
  BY <1>3, <1>4, <1>8, <1>9, <1>10 DEF Affords
<1>12. QED
  BY <1>6, <1>7, <1>11, FlagsAfforded

\* A step of a request that flags the address it has come to.
LEMMA NameStep ==
  ASSUME AddressTypeOK, BusyInv, FlagInv, NEW q \in Requests, AddressOthers(q),
         overlaps' = overlaps, deaths' = deaths,
         Names(req[q]), ~Names(req'[q]), NEW a \in Address,
         Defaults \subseteq Defaults', Defaults' \subseteq Defaults \cup {a},
         Pins(req[q]) = {}, Pins(req'[q]) \subseteq {a},
         \A x \in Defaults : Unflags(req[q], x) => x # a /\ Unflags(req'[q], x)
  PROVE  FlagInv'
<1>1. AddressPinned' \subseteq AddressPinned \cup Pins(req'[q])
  <2>1. \A p \in Requests : Pins(req'[p]) \subseteq Pins(req[p]) \cup Pins(req'[q])
    BY DEF AddressOthers
  <2>2. QED
    BY <2>1 DEF AddressPinned, Pins
<1>2. Flagged' \subseteq Flagged \cup {a}
  BY <1>1 DEF Flagged
<1>3. Naming' \subseteq Naming \ {q} /\ q \in Naming
  BY DEF Naming, AddressOthers
<1>4. Replacing => Replacing' \/ Flagged' \subseteq Flagged
  <2> SUFFICES ASSUME Replacing, ~(Flagged' \subseteq Flagged) PROVE Replacing'
    OBVIOUS
  <2>1. PICK x \in Defaults \ AddressPinned, p \in Requests : Unflags(req[p], x)
    BY DEF Replacing
  <2>2. x # a
    BY <1>2, <2>1 DEF Flagged
  <2>3. x \in Defaults' \ AddressPinned'
    BY <1>1, <2>1, <2>2
  <2>4. Unflags(req'[p], x)
    BY <2>1 DEF AddressOthers
  <2>5. QED
    BY <2>3, <2>4 DEF Replacing
<1>6. /\ overlaps \in Nat /\ deaths \in Nat
      /\ Spare \in {0, 1} /\ (Replacing <=> Spare = 1)
      /\ Spare' \in {0, 1} /\ (Replacing' <=> Spare' = 1)
  BY FlagTypes DEF Spare
<1>7. PICK ss \in {0, 1} : ss = Spare'
  BY <1>6
<1>8. 1 + overlaps + deaths + Spare <= 1 + overlaps + deaths + ss + 1
  BY <1>6
<1>9. Spare <= ss => 1 + overlaps + deaths + Spare <= 1 + overlaps + deaths + ss
  BY <1>6
<1>10. Spare <= ss \/ Flagged' \subseteq Flagged
  BY <1>4, <1>6, <1>7
<1>11. Affords(Flagged, Naming, 1 + overlaps + deaths + Spare,
               Flagged', Naming', 1 + overlaps + deaths + ss)
  BY <1>2, <1>3, <1>8, <1>9, <1>10 DEF Affords
<1>12. QED
  BY <1>6, <1>7, <1>11, FlagsAfforded

\* A request comes in: it may have an address to flag, one to be chosen, or
\* nothing new.  If it is alone, it is to replace the default.
LEMMA StartFlags ==
  ASSUME AddressTypeOK, BusyInv, FlagInv, NEW q \in Requests, NEW r, Start(q, r),
         UNCHANGED book,
         \/ Pins(r) \subseteq Defaults /\ ~Names(r)
         \/ /\ Pins(r) = {} /\ Names(r)
            /\ Defaults # {} => \E x \in Defaults : Unflags(r, x)
         \/ \E a \in Address : /\ Pins(r) = {a} /\ ~Names(r)
                               /\ \A x \in Defaults \ {a} : Unflags(r, x)
  PROVE  FlagInv'
<1>1. /\ req'[q] = r /\ AddressOthers(q) /\ deaths' = deaths /\ req[q].at = "idle"
      /\ overlaps' = IF Quiet THEN overlaps ELSE overlaps + 1
      /\ Defaults' = Defaults
  BY DEF AddressTypeOK, Start, AddressOthers, InFlight, book, Defaults, Present
<1>2. /\ overlaps \in Nat /\ deaths \in Nat
      /\ Spare \in {0, 1} /\ (Replacing <=> Spare = 1)
      /\ Spare' \in {0, 1} /\ (Replacing' <=> Spare' = 1)
      /\ Defaults \subseteq Address
  BY FlagTypes DEF Spare
<1>3. PICK oo \in Nat, ss \in {0, 1} : oo = overlaps' /\ ss = Spare'
  BY <1>1, <1>2
<1>4. Pins(req[q]) = {} /\ ~Names(req[q]) /\ \A x : ~Unflags(req[q], x)
  BY <1>1 DEF Pins, Flags, Holding, Names, Unflags
<1>5. AddressPinned' = AddressPinned \cup Pins(r)
  <2>1. \A p \in Requests : p # q => Pins(req'[p]) = Pins(req[p])
    BY <1>1 DEF AddressOthers
  <2>2. AddressPinned' \subseteq AddressPinned \cup Pins(r)
    BY <1>1, <2>1 DEF AddressPinned
  <2>3. AddressPinned \subseteq AddressPinned'
    BY <1>4, <2>1 DEF AddressPinned
  <2>4. Pins(r) \subseteq AddressPinned'
    BY <1>1 DEF AddressPinned
  <2>5. QED
    BY <2>2, <2>3, <2>4
<1>6. Flagged' = Flagged \cup Pins(r)
  BY <1>1, <1>5 DEF Flagged
<1>7. /\ Names(r) => Naming' = Naming \cup {q}
      /\ ~Names(r) => Naming' = Naming
  BY <1>1, <1>4 DEF Naming, AddressOthers
\* Whoever was to unflag x still is.
<1>8. ASSUME NEW x \in Defaults \ AddressPinned, x \notin Pins(r),
             \/ Unflags(r, x)
             \/ \E p \in Requests : Unflags(req[p], x)
      PROVE  Replacing'
  <2>1. x \in Defaults' \ AddressPinned'
    BY <1>1, <1>5, <1>8
  <2>2. \E p \in Requests : Unflags(req'[p], x)
    BY <1>1, <1>4, <1>8 DEF AddressOthers
  <2>3. QED
    BY <2>1, <2>2 DEF Replacing
<1>9. CASE ~Quiet
  <2>1. 1 + overlaps + deaths + Spare <= 1 + oo + deaths + ss
    BY <1>1, <1>2, <1>3, <1>9
  <2>2. CASE Flagged' = Flagged
    <3>1. \E x : Naming' \subseteq Naming \cup {x}
      BY <1>7
    <3>2. CASE ~Names(r)
      <4>1. Affords(Flagged, Naming, 1 + overlaps + deaths + Spare,
                    Flagged', Naming', 1 + oo + deaths + ss)
        BY <1>7, <2>1, <2>2, <3>2 DEF Affords
      <4>2. QED
        BY <1>1, <1>2, <1>3, <4>1, FlagsAfforded
    <3>3. CASE Names(r)
      <4>1. Replacing => Replacing'
        BY <1>8, <3>3 DEF Replacing
      <4>2. 1 + overlaps + deaths + Spare + 1 <= 1 + oo + deaths + ss
        <5>1. oo = overlaps + 1
          BY <1>1, <1>3, <1>9
        <5>2. Spare <= ss
          BY <1>2, <1>3, <4>1
        <5>3. overlaps \in Nat /\ deaths \in Nat /\ Spare \in {0, 1}
          BY <1>2
        <5>4. QED
          BY <5>1, <5>2, <5>3
      <4>3. Affords(Flagged, Naming, 1 + overlaps + deaths + Spare,
                    Flagged', Naming', 1 + oo + deaths + ss)
        BY <2>2, <3>1, <4>2 DEF Affords
      <4>4. QED
        BY <1>1, <1>2, <1>3, <4>3, FlagsAfforded
    <3>4. QED
      BY <3>2, <3>3
  <2>3. CASE Flagged' # Flagged
    <3>1. PICK a \in Address : Pins(r) = {a} /\ ~Names(r)
      BY <1>6, <2>3 DEF Flagged
    <3>2. a \notin Flagged
      BY <1>6, <2>3, <3>1
    <3>3. Replacing => Replacing'
      BY <1>8, <3>1, <3>2 DEF Replacing, Flagged
    <3>4. 1 + overlaps + deaths + Spare + 1 <= 1 + oo + deaths + ss
      <4>1. oo = overlaps + 1
        BY <1>1, <1>3, <1>9
      <4>2. Spare <= ss
        BY <1>2, <1>3, <3>3
      <4>3. overlaps \in Nat /\ deaths \in Nat /\ Spare \in {0, 1}
        BY <1>2
      <4>4. QED
        BY <4>1, <4>2, <4>3
    <3>5. Affords(Naming, Flagged, 1 + overlaps + deaths + Spare,
                  Naming', Flagged', 1 + oo + deaths + ss)
      BY <1>6, <1>7, <3>1, <3>4 DEF Affords
    <3>6. QED
      BY <1>1, <1>2, <1>3, <3>5, FlagsAfforded
  <2>4. QED
    BY <2>2, <2>3
<1>10. CASE Quiet
  <2>1. \A p \in Requests : /\ Pins(req[p]) = {} /\ ~Names(req[p])
                            /\ \A x : ~Unflags(req[p], x)
    BY <1>10 DEF Quiet, InFlight, Pins, Flags, Holding, Names, Unflags
  <2>2. AddressPinned = {} /\ Naming = {} /\ Spare = 0 /\ Flagged = Defaults
    BY <2>1 DEF AddressPinned, Naming, Spare, Replacing, Flagged
  <2>3. oo = overlaps
    BY <1>1, <1>3, <1>10
  <2>4. 1 + overlaps + deaths + Spare <= 1 + oo + deaths + ss
    BY <1>2, <2>2, <2>3
  <2>5. Replacing' => 1 + overlaps + deaths + Spare + 1 <= 1 + oo + deaths + ss
    BY <1>2, <1>3, <2>2, <2>3
  <2>6. CASE Pins(r) \subseteq Defaults /\ ~Names(r)
    <3>1. Affords(Flagged, Naming, 1 + overlaps + deaths + Spare,
                  Flagged', Naming', 1 + oo + deaths + ss)
      BY <1>6, <1>7, <2>2, <2>4, <2>6 DEF Affords
    <3>2. QED
      BY <1>1, <1>2, <1>3, <3>1, FlagsAfforded
  <2>7. CASE Defaults = {} /\ ~(Pins(r) \subseteq Defaults /\ ~Names(r))
    <3>1. \E x : \/ Flagged' = {} /\ Naming' = {x}
                 \/ Flagged' = {x} /\ Naming' = {}
      BY <1>6, <1>7, <2>2, <2>7
    <3>2. /\ IsFiniteSet(Flagged')
          /\ Cardinality(Flagged') + Cardinality(Naming') = 1
      <4>1. PICK x : \/ Flagged' = {} /\ Naming' = {x}
                     \/ Flagged' = {x} /\ Naming' = {}
        BY <3>1
      <4>2. /\ IsFiniteSet({x}) /\ Cardinality({x}) = 1
            /\ IsFiniteSet({}) /\ Cardinality({}) = 0
        BY FS_EmptySet, FS_Singleton
      <4>3. QED
        BY <4>1, <4>2
    <3>3. 1 <= 1 + oo + deaths + ss
      BY <1>2
    <3>4. QED
      BY <1>1, <1>3, <3>2, <3>3 DEF FlagInv
  <2>8. CASE Defaults # {} /\ ~(Pins(r) \subseteq Defaults /\ ~Names(r))
    <3>1. Replacing'
      BY <1>8, <2>2, <2>8
    <3>2. CASE Pins(r) = {} /\ Names(r)
      <4>1. Affords(Flagged, Naming, 1 + overlaps + deaths + Spare,
                    Flagged', Naming', 1 + oo + deaths + ss)
        BY <1>6, <1>7, <2>5, <3>1, <3>2 DEF Affords
      <4>2. QED
        BY <1>1, <1>2, <1>3, <4>1, FlagsAfforded
    <3>3. CASE ~Names(r)
      <4>1. PICK a \in Address : Pins(r) = {a}
        BY <2>8, <3>3
      <4>2. Affords(Naming, Flagged, 1 + overlaps + deaths + Spare,
                    Naming', Flagged', 1 + oo + deaths + ss)
        BY <1>6, <1>7, <2>5, <3>1, <3>3, <4>1 DEF Affords
      <4>3. QED
        BY <1>1, <1>2, <1>3, <4>2, FlagsAfforded
    <3>4. QED
      BY <2>8, <3>2, <3>3
  <2>9. QED
    BY <2>6, <2>7, <2>8
<1>11. QED
  BY <1>9, <1>10

\* A request dies, and the death pays for what it was to unflag.
LEMMA DieFlags ==
  ASSUME AddressTypeOK, BusyInv, FlagInv, NEW q \in Requests, Die(q), UNCHANGED book
  PROVE  FlagInv'
<1>1. /\ req'[q] = Idle /\ AddressOthers(q) /\ deaths' = deaths + 1 /\ overlaps' = overlaps
      /\ Defaults' = Defaults
  BY DEF AddressTypeOK, Die, AddressOthers, book, Defaults, Present
<1>2. /\ overlaps \in Nat /\ deaths \in Nat /\ Spare \in {0, 1} /\ Spare' \in {0, 1}
  BY FlagTypes DEF Spare
<1>3. PICK dd \in Nat, ss \in {0, 1} : dd = deaths' /\ ss = Spare'
  BY <1>1, <1>2
<1>4. Pins(Idle) = {} /\ ~Names(Idle)
  BY DEF Pins, Flags, Holding, Names, Idle
<1>5. \A p \in Requests : Pins(req'[p]) \subseteq Pins(req[p])
  BY <1>1, <1>4 DEF AddressOthers
<1>6. Flagged' \subseteq Flagged
  BY <1>1, <1>5 DEF Flagged, AddressPinned
<1>7. Naming' \subseteq Naming
  BY <1>1, <1>4 DEF Naming, AddressOthers
<1>8. 1 + overlaps + deaths + Spare <= 1 + overlaps + dd + ss
  <2>1. dd = deaths + 1
    BY <1>1, <1>3
  <2>2. overlaps \in Nat /\ deaths \in Nat /\ Spare \in {0, 1}
    BY <1>2
  <2>3. QED
    BY <2>1, <2>2
<1>9. Affords(Flagged, Naming, 1 + overlaps + deaths + Spare,
              Flagged', Naming', 1 + overlaps + dd + ss)
  BY <1>6, <1>7, <1>8 DEF Affords
<1>10. QED
  BY <1>1, <1>2, <1>3, <1>9, FlagsAfforded

LEMMA WorkPins ==
  ASSUME NEW at \in LaterStep, NEW rest \in Seq(LaterStep), NEW key \in Address, NEW mem \in Entry
  PROVE  LET r == Work(at, rest, key, mem) IN
         /\ Holding(r) /\ ~Names(r) /\ r.key = key /\ r.mem = mem /\ r.rest = rest /\ r.at = at
         /\ Pins(r) = IF Flags(r) THEN {key} ELSE {}
<1> DEFINE r == Work(at, rest, key, mem)
<1>1. /\ r.at = at /\ r.rest = rest /\ r.key = key /\ r.mem = mem /\ r.left = Nothing
  BY DEF Work, Task
<1> HIDE DEF r
<1>2. Holding(r) /\ ~Names(r)
  BY <1>1 DEF Holding, Names, LaterStep
<1>3. AddressKept(r) = {}
  BY <1>1 DEF AddressKept, Nothing
<1>4. Pins(r) = IF Flags(r) THEN {key} ELSE {}
  BY <1>1, <1>3 DEF Pins
<1>5. QED
  BY <1>1, <1>2, <1>4 DEF r

LEMMA RoutesFlags ==
  ASSUME AddressTypeOK, BusyInv, FlagInv, NEW q \in Requests,
         AddressRoutes(q) \/ BackfillZones(q)
  PROVE  FlagInv'
<1>0. /\ Present \subseteq Address /\ Defaults \subseteq Address
      /\ \A a \in Present : addresses[a] \in Entry /\ addresses[a].default \in BOOLEAN
  BY DEF AddressTypeOK, Defaults, Entry
<1>1. CASE CreateAddress(q)
  <2>1. PICK default \in BOOLEAN :
          Start(q, [at |-> "insert", default |-> default \/ Present = {}])
    BY <1>1 DEF CreateAddress
  <2> DEFINE r == [at |-> "insert", default |-> default \/ Present = {}]
  <2>2. r.at = "insert" /\ Start(q, r) /\ r.default \in BOOLEAN
    BY <2>1
  <2> HIDE DEF r
  <2>3. Pins(r) = {} /\ (Names(r) <=> r.default)
    BY <2>2 DEF Pins, Flags, Holding, Names
  <2>4. Names(r) => \A x \in Defaults : Unflags(r, x)
    BY <2>2, <2>3 DEF Unflags
  <2>5. QED
    BY <1>1, <2>2, <2>3, <2>4, StartFlags DEF CreateAddress
<1>2. CASE UpdateAddress(q)
  <2>1. PICK a \in Present, zone \in Zone, default \in BOOLEAN :
          Start(q, Work("compare", IF default THEN <<"clear", "home">> ELSE <<>>, a,
                        [zone |-> zone, default |-> default]))
    BY <1>2 DEF UpdateAddress
  <2> DEFINE rest == IF default THEN <<"clear", "home">> ELSE <<>>
             mem  == [zone |-> zone, default |-> default]
             r    == Work("compare", rest, a, mem)
  <2>2. /\ rest \in Seq(LaterStep) /\ "compare" \in LaterStep /\ mem \in Entry /\ mem.default = default
        /\ a \in Address
    <3>1. <<"clear", "home">> \in Seq(LaterStep) /\ <<>> \in Seq(LaterStep)
      BY DEF LaterStep
    <3>2. QED
      BY <1>0, <3>1 DEF LaterStep, Entry
  <2>3. Start(q, r)
    BY <2>1
  <2>4. default => "clear" \in {rest[i] : i \in DOMAIN rest}
    <3>1. ASSUME default PROVE 1 \in DOMAIN rest /\ rest[1] = "clear"
      BY <3>1
    <3>2. QED
      BY <3>1
  <2> HIDE DEF rest, mem
  <2>5. /\ Holding(r) /\ ~Names(r) /\ r.key = a /\ r.mem = mem /\ r.rest = rest
        /\ r.at = "compare" /\ Pins(r) = IF Flags(r) THEN {a} ELSE {}
    BY <2>2, WorkPins
  <2> HIDE DEF r
  <2>6. Flags(r) => default
    BY <2>2, <2>5 DEF Flags
  <2>7. default => \A x \in Defaults \ {a} : Unflags(r, x)
    BY <2>4, <2>5 DEF Unflags, Ahead, Later
  <2>8. \/ Pins(r) \subseteq Defaults /\ ~Names(r)
        \/ Pins(r) = {a} /\ ~Names(r) /\ \A x \in Defaults \ {a} : Unflags(r, x)
    BY <2>5, <2>6, <2>7
  <2>9. QED
    BY <1>2, <2>2, <2>3, <2>8, StartFlags DEF UpdateAddress
<1>3. CASE SetDefault(q)
  <2>1. PICK a \in Present :
          Start(q, Work("clear", <<"compare", "home">>, a,
                        [addresses[a] EXCEPT !.default = TRUE]))
    BY <1>3 DEF SetDefault
  <2> DEFINE rest == <<"compare", "home">>
             mem  == [addresses[a] EXCEPT !.default = TRUE]
             r    == Work("clear", rest, a, mem)
  <2>2. /\ rest \in Seq(LaterStep) /\ "clear" \in LaterStep /\ mem \in Entry /\ a \in Address
    <3>1. <<"compare", "home">> \in Seq(LaterStep) /\ "clear" \in LaterStep
      BY DEF LaterStep
    <3>2. a \in Address /\ addresses[a] \in Entry
      BY <1>0
    <3>3. mem \in Entry
      BY <3>2, EntryChanged
    <3>4. QED
      BY <3>1, <3>2, <3>3
  <2>3. Start(q, r)
    BY <2>1
  <2> HIDE DEF rest, mem
  <2>5. /\ Holding(r) /\ ~Names(r) /\ r.key = a /\ r.at = "clear"
        /\ Pins(r) = IF Flags(r) THEN {a} ELSE {}
    BY <2>2, WorkPins
  <2> HIDE DEF r
  <2>7. \A x \in Defaults \ {a} : Unflags(r, x)
    BY <2>5 DEF Unflags, Ahead
  <2>8. \/ Pins(r) \subseteq Defaults /\ ~Names(r)
        \/ Pins(r) = {a} /\ ~Names(r) /\ \A x \in Defaults \ {a} : Unflags(r, x)
    BY <2>5, <2>7
  <2>9. QED
    BY <1>3, <2>2, <2>3, <2>8, StartFlags DEF SetDefault
<1>4. CASE RemoveAddress(q)
  <2>1. PICK a \in Present :
          Start(q, [at |-> "delete", key |-> a, default |-> addresses[a].default])
    BY <1>4 DEF RemoveAddress
  <2> DEFINE r == [at |-> "delete", key |-> a, default |-> addresses[a].default]
  <2>2. r.at = "delete" /\ Start(q, r) /\ r.key = a /\ r.default = addresses[a].default
    BY <2>1
  <2> HIDE DEF r
  <2>3. Pins(r) = {} /\ (Names(r) <=> r.default)
    BY <1>0, <2>2 DEF Pins, Flags, Holding, Names
  <2>4. Names(r) => a \in Defaults /\ Unflags(r, a)
    BY <2>2, <2>3 DEF Unflags, Defaults
  <2>5. QED
    BY <1>4, <2>2, <2>3, <2>4, StartFlags DEF RemoveAddress
<1>5. CASE BackfillZones(q)
  <2> DEFINE S    == {b \in Present : addresses[b].zone = NoZone}
             left == [a \in S |-> addresses[a]]
             r    == [at |-> "backfill", left |-> left]
  <2>1. r.at = "backfill" /\ Start(q, r) /\ r.left = left
    BY <1>5 DEF BackfillZones
  <2>2. AddressKept(r) \subseteq Defaults
    BY <2>1 DEF AddressKept, Defaults
  <2> HIDE DEF r
  <2>3. Pins(r) \subseteq Defaults /\ ~Names(r)
    BY <2>1, <2>2 DEF Pins, Flags, Holding, Names
  <2>4. QED
    BY <1>5, <2>1, <2>3, StartFlags DEF BackfillZones
<1>6. QED
  BY <1>1, <1>2, <1>3, <1>4, <1>5 DEF AddressRoutes

\* Steps that write no address.
LEMMA ReadsFlags ==
  ASSUME AddressTypeOK, BusyInv, FlagInv, NEW q \in Requests,
         SelectAddress(q) \/ SyncHomeZone(q) \/ ClearHomeZone(q) \/ BackfillNext(q)
  PROVE  FlagInv'
<1>0. Defaults' = Defaults
  BY DEF SelectAddress, SyncHomeZone, ClearHomeZone, BackfillNext, book, Defaults, Present
<1> SUFFICES /\ AddressOthers(q) /\ overlaps' = overlaps /\ deaths' = deaths
             /\ Milder(req'[q], req[q])
             /\ \A x \in Defaults : Unflags(req[q], x) => Unflags(req'[q], x)
  BY <1>0, MildStep
<1>1. Defaults \subseteq Address
  BY DEF AddressTypeOK, Defaults
<1>2. CASE SelectAddress(q)
  <2> DEFINE r    == req[q]
             diff == {c \in {"zone", "default"} : addresses[r.key][c] # r.mem[c]}
  <2>1. r \in AddressWorking /\ r.at = "compare"
    BY <1>2, AddressMemory DEF SelectAddress, At, LaterStep
  <2>2. CASE r.key \notin Present
    <3> DEFINE n == [r EXCEPT !.at = "insertAgain"]
    <3>1. req'[q] = n /\ AddressOthers(q) /\ overlaps' = overlaps /\ deaths' = deaths
      BY <1>2, <2>2, GoMoves DEF SelectAddress
    <3>2. /\ n.at = "insertAgain" /\ n.rest = r.rest /\ n.key = r.key /\ n.mem = r.mem
          /\ n.left = r.left
      BY <2>1 DEF AddressWorking
    <3> HIDE DEF n
    <3>3. Pins(n) \subseteq Pins(r) /\ ~Names(n)
      BY <2>1, <3>2 DEF Pins, AddressKept, Flags, Holding, Ahead, Names
    <3>4. \A x \in Defaults : Unflags(r, x) => Unflags(n, x)
      BY <2>1, <3>2 DEF Unflags, Holding, Ahead, Later
    <3>5. QED
      BY <3>1, <3>3, <3>4 DEF Milder
  <2>3. CASE r.key \in Present /\ diff = {}
    <3>1. Onward(q, r)
      BY <1>2, <2>3 DEF SelectAddress
    <3>2. QED
      BY <1>1, <2>1, <3>1, OnwardMoves, OnwardMild
  <2>4. CASE r.key \in Present /\ diff # {}
    <3> DEFINE n == [at |-> "write", rest |-> r.rest, key |-> r.key,
                     mem |-> r.mem, left |-> r.left, dirty |-> diff]
    <3>1. req'[q] = n /\ AddressOthers(q) /\ overlaps' = overlaps /\ deaths' = deaths
      BY <1>2, <2>4, GoMoves DEF SelectAddress
    <3>2. /\ n.at = "write" /\ n.rest = r.rest /\ n.key = r.key /\ n.mem = r.mem
          /\ n.left = r.left
      OBVIOUS
    <3> HIDE DEF n
    <3>3. Pins(n) \subseteq Pins(r) /\ ~Names(n)
      BY <2>1, <3>2 DEF Pins, AddressKept, Flags, Holding, Ahead, Names
    <3>4. \A x \in Defaults : Unflags(r, x) => Unflags(n, x)
      BY <2>1, <3>2 DEF Unflags, Holding, Ahead, Later
    <3>5. QED
      BY <3>1, <3>3, <3>4 DEF Milder
  <2>5. QED
    BY <2>2, <2>3, <2>4
<1>3. CASE SyncHomeZone(q)
  <2>1. req[q] \in AddressWorking /\ req[q].at = "home"
    BY <1>3, AddressMemory DEF SyncHomeZone, At, LaterStep
  <2>2. QED
    BY <1>1, <1>3, <2>1, OnwardMoves, OnwardMild DEF SyncHomeZone
<1>4. CASE ClearHomeZone(q)
  <2>1. req'[q] = Idle /\ AddressOthers(q) /\ overlaps' = overlaps /\ deaths' = deaths
    BY <1>4, GoMoves DEF ClearHomeZone, Answer
  <2>2. \A x : ~Unflags(req[q], x)
    BY <1>4 DEF ClearHomeZone, At, Unflags, Holding
  <2>3. Milder(Idle, req[q])
    BY DEF Milder, Pins, Flags, Holding, Names, Idle
  <2>4. QED
    BY <2>1, <2>2, <2>3
<1>5. CASE BackfillNext(q)
  <2> DEFINE left == req[q].left
  <2>1. /\ left \in Loaded /\ DOMAIN left \in SUBSET Address
        /\ left \in [DOMAIN left -> Entry] /\ req[q].at = "backfill"
    BY <1>5, AddressMemory, LoadedIs DEF BackfillNext, At
  <2>2. \A x : ~Unflags(req[q], x)
    BY <2>1 DEF Unflags, Holding
  <2>3. Pins(req[q]) = AddressKept(req[q])
    BY <2>1 DEF Pins, Flags, Holding, AddressKept
  <2>4. CASE left = Nothing
    <3>1. req'[q] = Idle /\ AddressOthers(q) /\ overlaps' = overlaps /\ deaths' = deaths
      BY <1>5, <2>4, GoMoves DEF BackfillNext, Answer
    <3>2. Milder(Idle, req[q])
      BY DEF Milder, Pins, Flags, Holding, Names, Idle
    <3>3. QED
      BY <2>2, <3>1, <3>2
  <2>5. CASE left # Nothing
    <3> DEFINE Rest(a)  == [b \in DOMAIN left \ {a} |-> left[b]]
               After(a) == IF left[a].default THEN <<"home">> ELSE <<>>
    <3>1. PICK a \in DOMAIN left, zone \in Zone :
            IF zone = NoZone THEN Go(q, [at |-> "backfill", left |-> Rest(a)])
            ELSE Go(q, Task("compare", After(a), a, [left[a] EXCEPT !.zone = zone], Rest(a)))
      BY <1>5, <2>5 DEF BackfillNext
    <3> DEFINE n == IF zone = NoZone THEN [at |-> "backfill", left |-> Rest(a)]
                    ELSE Task("compare", After(a), a, [left[a] EXCEPT !.zone = zone], Rest(a))
    <3>2. req'[q] = n /\ AddressOthers(q) /\ overlaps' = overlaps /\ deaths' = deaths
      BY <3>1, GoMoves
    <3>3. /\ n.left = Rest(a) /\ n.at \in {"backfill", "compare"}
          /\ n.at = "compare" => n.key = a /\ n.mem.default = left[a].default
      <4>1. [left[a] EXCEPT !.zone = zone].default = left[a].default
        BY <2>1 DEF Entry
      <4>2. QED
        BY <4>1 DEF Task
    <3>4. {b \in DOMAIN Rest(a) : Rest(a)[b].default} \subseteq AddressKept(req[q])
      BY DEF AddressKept
    <3> HIDE DEF n
    <3>5. AddressKept(n) \subseteq AddressKept(req[q])
      BY <3>3, <3>4 DEF AddressKept
    <3>6. Flags(n) => n.key \in AddressKept(req[q])
      BY <2>1, <3>3 DEF Flags, Holding, AddressKept
    <3>7. Pins(n) \subseteq Pins(req[q]) /\ ~Names(n)
      BY <2>3, <3>3, <3>5, <3>6 DEF Pins, Names
    <3>8. QED
      BY <2>2, <3>2, <3>7 DEF Milder
  <2>6. QED
    BY <2>4, <2>5
<1>6. QED
  BY <1>2, <1>3, <1>4, <1>5

\* What the UPDATE leaves of every address.
LEMMA Written ==
  ASSUME AddressTypeOK, NEW q \in Requests, WriteAddress(q)
  PROVE  /\ Present' = Present
         /\ \A a \in Present :
              /\ addresses'[a].zone = IF a = req[q].key /\ "zone" \in req[q].dirty
                                      THEN req[q].mem.zone ELSE addresses[a].zone
              /\ addresses'[a].default = IF a = req[q].key /\ "default" \in req[q].dirty
                                         THEN req[q].mem.default ELSE addresses[a].default
              /\ addresses'[a] \in Entry
<1>1. Present' = Present
  BY DEF WriteAddress, Present
<1>2. req[q].mem \in Entry /\ req[q] \in Writing
  BY AddressMemory DEF WriteAddress, At, Writing
<1>3. ASSUME NEW a \in Present
      PROVE  /\ addresses'[a].zone = IF a = req[q].key /\ "zone" \in req[q].dirty
                                     THEN req[q].mem.zone ELSE addresses[a].zone
             /\ addresses'[a].default = IF a = req[q].key /\ "default" \in req[q].dirty
                                        THEN req[q].mem.default ELSE addresses[a].default
             /\ addresses'[a] \in Entry
  <2> DEFINE new == [c \in {"zone", "default"} |->
                       IF a = req[q].key /\ c \in req[q].dirty THEN req[q].mem[c]
                                                              ELSE addresses[a][c]]
  <2>1. addresses'[a] = new
    BY DEF WriteAddress
  <2>2. addresses[a] \in Entry
    BY DEF AddressTypeOK
  <2>3. new["zone"] = IF a = req[q].key /\ "zone" \in req[q].dirty
                      THEN req[q].mem["zone"] ELSE addresses[a]["zone"]
    OBVIOUS
  <2>4. new["default"] = IF a = req[q].key /\ "default" \in req[q].dirty
                         THEN req[q].mem["default"] ELSE addresses[a]["default"]
    OBVIOUS
  <2>5. new \in Entry
    BY <1>2, <2>2 DEF Entry
  <2> HIDE DEF new
  <2>6. QED
    BY <2>1, <2>3, <2>4, <2>5
<1>4. QED
  BY <1>1, <1>3

\* Statements that write addresses a request has had in its memory.
LEMMA WritesFlags ==
  ASSUME AddressTypeOK, BusyInv, FlagInv, NEW q \in Requests,
         ClearOthers(q) \/ WriteAddress(q) \/ InsertAgain(q)
  PROVE  FlagInv'
<1> DEFINE r == req[q]
<1>1. Defaults \subseteq Address /\ \A a \in Present : addresses[a] \in Entry
  BY DEF AddressTypeOK, Defaults
<1>2. CASE ClearOthers(q)
  <2>1. r \in AddressWorking /\ r.at = "clear" /\ Onward(q, r)
    BY <1>2, AddressMemory DEF ClearOthers, At, LaterStep
  <2>2. Defaults' \subseteq Defaults \cap {r.key}
    <3>1. Present' = Present
      BY <1>2 DEF ClearOthers, Present
    <3>2. \A a \in Present : a # r.key => addresses'[a].default = FALSE
      BY <1>1, <1>2 DEF ClearOthers, Entry
    <3>3. \A a \in Present : a = r.key => addresses'[a] = addresses[a]
      BY <1>2 DEF ClearOthers
    <3>4. QED
      BY <3>1, <3>2, <3>3 DEF Defaults
  <2>3. \A x \in Defaults' : ~Unflags(r, x)
    BY <2>1, <2>2 DEF Unflags
  <2>4. QED
    BY <2>1, <2>2, <2>3, OnwardMoves, OnwardMild, MildStep
<1>3. CASE WriteAddress(q)
  <2>1. r \in Writing /\ r.at = "write" /\ Onward(q, r)
    BY <1>3, AddressMemory DEF WriteAddress, At
  <2>2. Defaults' \subseteq Defaults \cup Pins(r)
    <3>1. Present' = Present
      BY <1>3, Written
    <3>2. \A a \in Present :
            addresses'[a].default = IF a = r.key /\ "default" \in r.dirty
                                    THEN r.mem.default ELSE addresses[a].default
      BY <1>3, Written
    <3>3. ASSUME NEW a \in Defaults', a \notin Defaults PROVE a \in Pins(r)
      <4>1. a = r.key /\ "default" \in r.dirty /\ r.mem.default
        BY <3>1, <3>2, <3>3 DEF Defaults
      <4>2. r.key \in Address /\ Holding(r)
        BY <2>1 DEF Writing, Holding
      <4>3. QED
        BY <2>1, <4>1, <4>2 DEF Pins, Flags
    <3>4. QED
      BY <3>3
  <2>3. QED
    BY <1>1, <2>1, <2>2, OnwardMoves, OnwardMild, MildStep
<1>4. CASE InsertAgain(q)
  <2>1. r \in AddressWorking /\ r.at = "insertAgain" /\ Onward(q, r)
    BY <1>4, AddressMemory DEF InsertAgain, At
  <2>2. Defaults' \subseteq Defaults \cup Pins(r)
    <3>1. Present' = Present \cup {r.key}
      BY <1>4 DEF InsertAgain, Present
    <3>2. \A a \in Present' : addresses'[a] = IF a = r.key THEN r.mem ELSE addresses[a]
      BY <1>4, <3>1 DEF InsertAgain
    <3>3. ASSUME NEW a \in Defaults', a \notin Defaults PROVE a \in Pins(r)
      <4>1. a = r.key /\ r.mem.default
        BY <3>1, <3>2, <3>3 DEF Defaults
      <4>2. r.key \in Address /\ Holding(r)
        BY <2>1 DEF AddressWorking, Holding
      <4>3. QED
        BY <2>1, <4>1, <4>2 DEF Pins, Flags, Ahead
    <3>4. QED
      BY <3>3
  <2>3. QED
    BY <1>1, <2>1, <2>2, OnwardMoves, OnwardMild, MildStep
<1>5. QED
  BY <1>2, <1>3, <1>4

\* Those that add an address, take one away, or choose the next default.
LEMMA RowsFlags ==
  ASSUME AddressTypeOK, BusyInv, FlagInv, NEW q \in Requests,
         InsertAddress(q) \/ DeleteAddress(q) \/ PromoteAddress(q)
  PROVE  FlagInv'
<1>1. /\ Defaults \subseteq Present /\ Present \subseteq Address
      /\ \A a \in Present : addresses[a] \in Entry
  BY DEF AddressTypeOK, Defaults
<1>2. CASE InsertAddress(q)
  <2>1. PICK a \in Address \ Present, zone \in Zone :
          LET row == [zone |-> zone, default |-> req[q].default]
          IN  /\ addresses' = [b \in Present \cup {a} |->
                                 IF b = a THEN row ELSE addresses[b]]
              /\ IF row.default THEN Go(q, Work("clear", <<"home">>, a, row))
                                ELSE Answer(q)
    BY <1>2 DEF InsertAddress
  <2> DEFINE row  == [zone |-> zone, default |-> req[q].default]
             rest == <<"home">>
             n    == Work("clear", rest, a, row)
  <2>2. row \in Entry /\ row.default = req[q].default /\ req[q].at = "insert"
    BY <1>2, AddressMemory DEF Entry, InsertAddress, At
  <2>3. Defaults' = IF row.default THEN Defaults \cup {a} ELSE Defaults
    <3>1. Present' = Present \cup {a}
      BY <2>1 DEF Present
    <3>2. \A b \in Present' : addresses'[b] = IF b = a THEN row ELSE addresses[b]
      BY <2>1, <3>1
    <3>3. \A b \in Present' : addresses'[b].default =
                                IF b = a THEN row.default ELSE addresses[b].default
      BY <3>2
    <3> HIDE DEF row
    <3>4. QED
      BY <2>1, <3>1, <3>3 DEF Defaults
  <2>4. Pins(req[q]) = {}
    BY <2>2 DEF Pins, Flags, Holding
  <2>5. CASE row.default
    <3>1. /\ "clear" \in LaterStep /\ rest \in Seq(LaterStep) /\ a \in Address
          /\ rest[1] = "home" /\ DOMAIN rest = {1}
      BY DEF LaterStep
    <3>2. /\ req'[q] = n /\ AddressOthers(q) /\ overlaps' = overlaps /\ deaths' = deaths
      BY <2>1, <2>5, GoMoves
    <3> HIDE DEF row, rest
    <3>3. /\ Holding(n) /\ ~Names(n) /\ n.key = a /\ n.rest = rest /\ n.at = "clear"
          /\ Pins(n) = IF Flags(n) THEN {a} ELSE {}
      BY <2>2, <3>1, WorkPins
    <3> HIDE DEF n
    <3>4. Ahead(n) = {"clear", "home"}
      BY <3>1, <3>3 DEF Ahead, Later
    <3>5. Pins(n) = {} /\ \A x \in Defaults : x # a /\ Unflags(n, x)
      BY <1>1, <2>1, <3>3, <3>4 DEF Flags, Unflags
    <3>6. Names(req[q])
      BY <2>2, <2>5 DEF Names
    <3>7. QED
      BY <2>3, <2>4, <2>5, <3>1, <3>2, <3>3, <3>5, <3>6, NameStep
  <2>6. CASE ~row.default
    <3>1. req'[q] = Idle /\ AddressOthers(q) /\ overlaps' = overlaps /\ deaths' = deaths
      BY <2>1, <2>6, GoMoves DEF Answer
    <3>2. Milder(Idle, req[q])
      BY DEF Milder, Pins, Flags, Holding, Names, Idle
    <3>3. \A x : ~Unflags(req[q], x)
      BY <2>2, <2>6 DEF Unflags, Holding
    <3>4. QED
      BY <2>3, <2>6, <3>1, <3>2, <3>3, MildStep
  <2>7. QED
    BY <2>5, <2>6
<1>3. CASE DeleteAddress(q)
  <2> DEFINE n == IF req[q].default THEN [at |-> "promote"] ELSE Idle
  <2>1. /\ req'[q] = n /\ AddressOthers(q) /\ overlaps' = overlaps /\ deaths' = deaths
        /\ req[q].at = "delete"
    BY <1>3, GoMoves DEF DeleteAddress, At, Answer
  <2>2. Defaults' = Defaults \ {req[q].key}
    <3>1. Present' = Present \ {req[q].key}
      BY <1>3 DEF DeleteAddress, Present
    <3>2. \A a \in Present' : addresses'[a] = addresses[a]
      BY <1>3, <3>1 DEF DeleteAddress
    <3>3. QED
      BY <3>1, <3>2 DEF Defaults
  <2>3. n.at \in {"promote", "idle"} /\ (n.at = "promote" => req[q].default)
    BY DEF Idle
  <2> HIDE DEF n
  <2>4. Milder(n, req[q])
    BY <2>1, <2>3 DEF Milder, Pins, Flags, Holding, Names
  <2>5. \A x \in Defaults' : ~Unflags(req[q], x)
    BY <2>1, <2>2 DEF Unflags, Holding
  <2>6. QED
    BY <2>1, <2>2, <2>4, <2>5, MildStep
<1>4. CASE PromoteAddress(q)
  <2>1. req[q].at = "promote" /\ Defaults' = Defaults
    BY <1>4 DEF PromoteAddress, At, book, Defaults, Present
  <2>2. Pins(req[q]) = {} /\ Names(req[q]) /\ \A x : ~Unflags(req[q], x)
    BY <2>1 DEF Pins, Flags, Holding, Names, Unflags
  <2>3. CASE Present = {}
    <3> DEFINE n == [at |-> "homeless"]
    <3>1. req'[q] = n /\ AddressOthers(q) /\ overlaps' = overlaps /\ deaths' = deaths
      BY <1>4, <2>3, GoMoves DEF PromoteAddress
    <3>2. Milder(n, req[q])
      BY DEF Milder, Pins, Flags, Holding, Names
    <3>3. QED
      BY <2>1, <2>2, <3>1, <3>2, MildStep
  <2>4. CASE Present # {}
    <3>1. PICK a \in Present :
            Go(q, Work("compare", <<"home">>, a, [addresses[a] EXCEPT !.default = TRUE]))
      BY <1>4, <2>4 DEF PromoteAddress
    <3> DEFINE mem == [addresses[a] EXCEPT !.default = TRUE]
               n   == Work("compare", <<"home">>, a, mem)
    <3>2. req'[q] = n /\ AddressOthers(q) /\ overlaps' = overlaps /\ deaths' = deaths
      BY <3>1, GoMoves
    <3>3. "compare" \in LaterStep /\ <<"home">> \in Seq(LaterStep) /\ a \in Address
      BY <1>1 DEF LaterStep
    <3>4. mem \in Entry
      BY <1>1, EntryChanged
    <3> HIDE DEF mem
    <3>5. ~Names(n) /\ Pins(n) = IF Flags(n) THEN {a} ELSE {}
      BY <3>3, <3>4, WorkPins
    <3> HIDE DEF n
    <3>6. QED
      BY <2>1, <2>2, <3>2, <3>3, <3>5, NameStep
  <2>5. QED
    BY <2>3, <2>4
<1>5. QED
  BY <1>2, <1>3, <1>4

\* Any statement is a step of a request in flight.
LEMMA StatementGoes ==
  ASSUME NEW q \in Requests,
         \/ InsertAddress(q) \/ ClearOthers(q) \/ SelectAddress(q) \/ WriteAddress(q)
         \/ InsertAgain(q) \/ SyncHomeZone(q) \/ DeleteAddress(q) \/ PromoteAddress(q)
         \/ ClearHomeZone(q) \/ BackfillNext(q)
  PROVE  \E r : Go(q, r) /\ InFlight(q)
<1>1. ASSUME NEW r, Onward(q, r) PROVE \E n : Go(q, n)
  BY <1>1 DEF Onward, Answer
<1>2. InFlight(q)
  BY DEF InFlight, At, InsertAddress, ClearOthers, SelectAddress, WriteAddress,
     InsertAgain, SyncHomeZone, DeleteAddress, PromoteAddress, ClearHomeZone, BackfillNext
<1>3. CASE ClearOthers(q) \/ WriteAddress(q) \/ InsertAgain(q) \/ SyncHomeZone(q)
  BY <1>1, <1>2, <1>3 DEF ClearOthers, WriteAddress, InsertAgain, SyncHomeZone
<1>4. CASE InsertAddress(q)
  BY <1>2, <1>4 DEF InsertAddress, Answer
<1>5. CASE SelectAddress(q)
  BY <1>1, <1>2, <1>5 DEF SelectAddress
<1>6. CASE DeleteAddress(q) \/ ClearHomeZone(q)
  BY <1>2, <1>6 DEF DeleteAddress, ClearHomeZone, Answer
<1>7. CASE PromoteAddress(q)
  BY <1>2, <1>7 DEF PromoteAddress
<1>8. CASE BackfillNext(q)
  BY <1>2, <1>8 DEF BackfillNext, Answer
<1>9. QED
  BY <1>3, <1>4, <1>5, <1>6, <1>7, <1>8

\* The requests in flight and the overlaps.
LEMMA AddressBusy ==
  ASSUME AddressTypeOK, BusyInv, [AddressNext]_bvars
  PROVE  BusyInv'
<1>0. overlaps \in Nat /\ ServerTyped(AddressStep)
  BY DEF AddressTypeOK, ServerTyped
<1>1. ASSUME NEW q \in Requests, AddressRoutes(q) \/ BackfillZones(q)
      PROVE  BusyInv'
  BY <1>0, <1>1, StartBusy
     DEF AddressRoutes, CreateAddress, UpdateAddress, SetDefault, RemoveAddress, BackfillZones
<1>2. ASSUME NEW q \in Requests,
             \/ InsertAddress(q) \/ ClearOthers(q) \/ SelectAddress(q) \/ WriteAddress(q)
             \/ InsertAgain(q) \/ SyncHomeZone(q) \/ DeleteAddress(q) \/ PromoteAddress(q)
             \/ ClearHomeZone(q) \/ BackfillNext(q)
      PROVE  \E r : Go(q, r) /\ InFlight(q)
  BY <1>2, StatementGoes
<1>3. ASSUME NEW q \in Requests, NEW r, Go(q, r), InFlight(q)
      PROVE  BusyInv'
  <2>1. AddressOthers(q) /\ overlaps' = overlaps
    BY <1>3, GoMoves
  <2>2. QED
    BY <1>0, <1>3, <2>1, StepBusy DEF AddressOthers
<1>4. ASSUME NEW q \in Requests, AddressCrash(q) PROVE BusyInv'
  <2>1. AddressOthers(q) /\ overlaps' = overlaps /\ InFlight(q)
    BY <1>0, <1>4 DEF AddressCrash, Die, AddressOthers
  <2>2. QED
    BY <1>0, <2>1, StepBusy DEF AddressOthers
<1>5. CASE UNCHANGED bvars
  BY <1>5 DEF bvars, server, BusyInv, Busy, InFlight
<1>6. QED
  BY <1>1, <1>2, <1>3, <1>4, <1>5 DEF AddressNext

-----------------------------------------------------------------------------
(* One request at a time.                                                  *)

\* One default at most, and the home zone is its zone.
Settled ==
  /\ \A a, b \in Defaults : a = b
  /\ \A a \in Defaults : homeZone = addresses[a].zone

\* What a backfill has loaded is still as it was.
Holds(left) == \A a \in DOMAIN left : a \in Present /\ addresses[a] = left[a]

\* What may follow a step.
Home        == <<"home">>
ClearHome   == <<"clear", "home">>
CompareHome == <<"compare", "home">>

\* The address of r is there, and no other that r has loaded is written before.
Grounded(r) ==
  /\ r.key \in Present \ DOMAIN r.left /\ Holds(r.left)
  /\ r.left # Nothing => r.at # "clear" /\ r.rest \in {<<>>, Home}

\* What holds of r between two steps, by what it still has to do.
Promised(r) ==
  \/ r.at = "clear" /\ r.rest = Home /\ addresses[r.key] = r.mem /\ r.mem.default
  \/ r.at = "clear" /\ r.rest = CompareHome /\ r.mem.default
  \/ /\ r.at \in {"compare", "write"}
     /\ r.at = "write" =>
          /\ "zone" \in r.dirty \/ addresses[r.key].zone = r.mem.zone
          /\ "default" \in r.dirty \/ addresses[r.key].default = r.mem.default
     /\ \/ r.rest = ClearHome /\ r.mem.default
        \/ r.rest = Home /\ r.mem.default /\ Defaults \subseteq {r.key}
        \/ r.rest = <<>> /\ ~r.mem.default /\ Settled
  \/ /\ r.at = "home" /\ r.rest = <<>>
     /\ Defaults \subseteq {r.key} /\ addresses[r.key].zone = r.mem.zone

Sound(r) ==
  /\ Holding(r) => Grounded(r) /\ Promised(r)
  /\ r.at \in {"idle", "insert", "backfill", "delete"} => Settled
  /\ r.at = "backfill" => Holds(r.left)
  /\ r.at = "delete" => r.key \in Present /\ r.default = addresses[r.key].default
  /\ r.at \in {"promote", "homeless"} => Defaults = {}

SerialInv ==
  overlaps = 0 /\ deaths = 0 =>
    /\ Quiet => Settled
    /\ \A q \in Requests : InFlight(q) => Sound(req[q])

\* What r leaves behind when it is done with a step.
Ready(r) ==
  /\ r.key \in Present \ DOMAIN r.left /\ Holds(r.left)
  /\ r.left # Nothing => r.rest \in {<<>>, Home}
  /\ \/ r.rest = <<>> /\ Settled
     \/ r.rest = Home /\ Defaults \subseteq {r.key} /\ addresses[r.key].zone = r.mem.zone
     \/ r.rest = ClearHome /\ addresses[r.key] = r.mem /\ r.mem.default
     \/ r.rest = CompareHome /\ Defaults \subseteq {r.key} /\ r.mem.default

LEMMA Programs ==
  /\ <<>> # Home /\ <<>> # ClearHome /\ <<>> # CompareHome
  /\ Home # ClearHome /\ Home # CompareHome /\ ClearHome # CompareHome
  /\ Head(Home) = "home" /\ Tail(Home) = <<>>
  /\ Head(ClearHome) = "clear" /\ Tail(ClearHome) = Home
  /\ Head(CompareHome) = "compare" /\ Tail(CompareHome) = Home
<1>1. Len(Home) = 1 /\ Len(ClearHome) = 2 /\ Len(CompareHome) = 2 /\ Len(<<>>) = 0
  BY DEF Home, ClearHome, CompareHome
<1>2. ClearHome[1] = "clear" /\ CompareHome[1] = "compare"
  BY DEF ClearHome, CompareHome
<1>3. /\ Head(Home) = "home" /\ Head(ClearHome) = "clear" /\ Head(CompareHome) = "compare"
  BY DEF Home, ClearHome, CompareHome
<1>4. /\ Tail(Home) = <<>> /\ Tail(ClearHome) = Home /\ Tail(CompareHome) = Home
  BY DEF Home, ClearHome, CompareHome
<1>5. QED
  BY <1>1, <1>2, <1>3, <1>4

LEMMA OnwardSound ==
  ASSUME AddressTypeOK, NEW q \in Requests, NEW r \in AddressWorking \cup Writing, Onward(q, r),
         Ready(r)', NEW n, n = req'[q]
  PROVE  Sound(n)'
<1>1. CASE r.rest # <<>>
  <2>1. n = Task(Head(r.rest), Tail(r.rest), r.key, r.mem, r.left)
    BY <1>1, OnwardMoves
  <2>2. /\ n.at = Head(r.rest) /\ n.rest = Tail(r.rest) /\ n.key = r.key
        /\ n.mem = r.mem /\ n.left = r.left
    BY <2>1 DEF Task
  <2>3. r.rest \in {Home, ClearHome, CompareHome}
    BY <1>1 DEF Ready
  <2>4. n.at \in {"home", "clear", "compare"}
    BY <2>2, <2>3, Programs
  <2>5. Grounded(n)'
    BY <2>2, <2>3, Programs DEF Ready, Grounded
  <2>6. Promised(n)'
    BY <1>1, <2>2, Programs DEF Ready, Promised
  <2>7. QED
    BY <2>4, <2>5, <2>6 DEF Sound
<1>2. CASE r.rest = <<>>
  <2>1. Settled' /\ Holds(r.left)'
    BY <1>2, Programs DEF Ready
  <2>2. \/ n = [at |-> "backfill", left |-> r.left]
        \/ n = Idle
    BY <1>2, OnwardMoves
  <2>3. n.at \in {"backfill", "idle"} /\ (n.at = "backfill" => n.left = r.left)
    BY <2>2 DEF Idle
  <2>4. QED
    BY <2>1, <2>3 DEF Sound, Holding
<1>3. QED
  BY <1>1, <1>2

\* The one request in flight gets on.
LEMMA SerialStep ==
  ASSUME AddressTypeOK, Alone, NEW q \in Requests, InFlight(q), AddressOthers(q),
         overlaps' = overlaps, deaths' = deaths,
         NEW n, n = req'[q], overlaps = 0 /\ deaths = 0 => Sound(n)'
  PROVE  SerialInv'
<1> SUFFICES ASSUME overlaps = 0, deaths = 0
             PROVE  /\ Quiet' => Settled'
                    /\ \A p \in Requests : InFlight(p)' => Sound(req[p])'
  BY DEF SerialInv
<1>1. \A p \in Requests : p # q => ~InFlight(p)'
  BY DEF Alone, InFlight, AddressOthers
<1>2. Sound(n)'
  OBVIOUS
<1>3. Sound(req[q])'
  BY <1>2 DEF Sound, Grounded, Promised, Holding
<1>4. Quiet' => Settled'
  BY <1>2 DEF Quiet, InFlight, Sound
<1>5. QED
  BY <1>1, <1>3, <1>4

\* A request comes in alone.
LEMMA SerialStart ==
  ASSUME AddressTypeOK, SerialInv, NEW q \in Requests, NEW n, Start(q, n), UNCHANGED book,
         Settled => Sound(n)
  PROVE  SerialInv'
<1>1. ServerTyped(AddressStep)
  BY DEF AddressTypeOK, ServerTyped
<1>2. /\ overlaps' = 0 => overlaps = 0 /\ Quiet
      /\ req'[q] = n /\ \A p \in Requests \ {q} : req'[p] = req[p]
      /\ deaths' = deaths
  BY <1>1, StartAlone DEF Start
<1> SUFFICES ASSUME overlaps' = 0, deaths' = 0
             PROVE  /\ Quiet' => Settled'
                    /\ \A p \in Requests : InFlight(p)' => Sound(req[p])'
  BY DEF SerialInv
<1>3. Settled /\ Sound(n)
  BY <1>2 DEF SerialInv
<1>4. Defaults' = Defaults /\ Present' = Present /\ addresses' = addresses
      /\ homeZone' = homeZone
  BY DEF book, Defaults, Present
<1>5. Settled'
  BY <1>3, <1>4 DEF Settled
<1>6. Sound(n)'
  BY <1>3, <1>4, <1>5 DEF Sound, Grounded, Promised, Holds
<1>7. Sound(req[q])'
  BY <1>2, <1>6 DEF Sound, Grounded, Promised, Holding
<1>8. \A p \in Requests : p # q => ~InFlight(p)'
  BY <1>2 DEF Quiet, InFlight
<1>9. QED
  BY <1>5, <1>7, <1>8

LEMMA RoutesSerial ==
  ASSUME AddressTypeOK, SerialInv, NEW q \in Requests, AddressRoutes(q) \/ BackfillZones(q)
  PROVE  SerialInv'
<1>0. Present \subseteq Address /\ \A a \in Present : addresses[a] \in Entry
  BY DEF AddressTypeOK
<1>1. CASE CreateAddress(q)
  <2>1. PICK default \in BOOLEAN :
          Start(q, [at |-> "insert", default |-> default \/ Present = {}])
    BY <1>1 DEF CreateAddress
  <2> DEFINE n == [at |-> "insert", default |-> default \/ Present = {}]
  <2>2. n.at = "insert" /\ Start(q, n)
    BY <2>1
  <2> HIDE DEF n
  <2>3. Settled => Sound(n)
    BY <2>2 DEF Sound, Holding
  <2>4. PICK r : r = n
    OBVIOUS
  <2>5. QED
    BY <1>1, <2>2, <2>3, <2>4, SerialStart DEF CreateAddress
<1>2. CASE UpdateAddress(q)
  <2>1. PICK a \in Present, zone \in Zone, default \in BOOLEAN :
          Start(q, Work("compare", IF default THEN <<"clear", "home">> ELSE <<>>, a,
                        [zone |-> zone, default |-> default]))
    BY <1>2 DEF UpdateAddress
  <2> DEFINE rest == IF default THEN ClearHome ELSE <<>>
             mem  == [zone |-> zone, default |-> default]
             n    == Work("compare", rest, a, mem)
  <2>2. Start(q, n)
    BY <2>1 DEF ClearHome
  <2>3. /\ n.at = "compare" /\ n.rest = rest /\ n.key = a /\ n.mem.default = default
        /\ n.left = Nothing
    BY DEF Work, Task
  <2> HIDE DEF n
  <2>4. DOMAIN n.left = {} /\ Holding(n)
    BY <2>3 DEF Nothing, Holding
  <2>5. Settled => Sound(n)
    BY <2>3, <2>4 DEF Sound, Grounded, Promised, Holds
  <2>6. QED
    BY <1>2, <2>2, <2>5, SerialStart DEF UpdateAddress
<1>3. CASE SetDefault(q)
  <2>1. PICK a \in Present :
          Start(q, Work("clear", <<"compare", "home">>, a,
                        [addresses[a] EXCEPT !.default = TRUE]))
    BY <1>3 DEF SetDefault
  <2> DEFINE mem == [addresses[a] EXCEPT !.default = TRUE]
             n   == Work("clear", CompareHome, a, mem)
  <2>2. Start(q, n)
    BY <2>1 DEF CompareHome
  <2>3. mem.default = TRUE
    BY <1>0 DEF Entry
  <2> HIDE DEF mem
  <2>4. /\ n.at = "clear" /\ n.rest = CompareHome /\ n.key = a /\ n.mem = mem
        /\ n.left = Nothing
    BY DEF Work, Task
  <2> HIDE DEF n
  <2>5. DOMAIN n.left = {} /\ Holding(n)
    BY <2>4 DEF Nothing, Holding
  <2>6. Settled => Sound(n)
    BY <2>3, <2>4, <2>5 DEF Sound, Grounded, Promised, Holds
  <2>7. QED
    BY <1>3, <2>2, <2>6, SerialStart DEF SetDefault
<1>4. CASE RemoveAddress(q)
  <2>1. PICK a \in Present :
          Start(q, [at |-> "delete", key |-> a, default |-> addresses[a].default])
    BY <1>4 DEF RemoveAddress
  <2> DEFINE n == [at |-> "delete", key |-> a, default |-> addresses[a].default]
  <2>2. n.at = "delete" /\ Start(q, n) /\ n.key = a /\ n.default = addresses[a].default
    BY <2>1
  <2> HIDE DEF n
  <2>3. Settled => Sound(n)
    BY <2>2 DEF Sound, Holding
  <2>4. QED
    BY <1>4, <2>2, <2>3, SerialStart DEF RemoveAddress
<1>5. CASE BackfillZones(q)
  <2> DEFINE S    == {b \in Present : addresses[b].zone = NoZone}
             left == [a \in S |-> addresses[a]]
             n    == [at |-> "backfill", left |-> left]
  <2>1. n.at = "backfill" /\ Start(q, n) /\ n.left = left
    BY <1>5 DEF BackfillZones
  <2>2. Holds(left)
    BY DEF Holds
  <2> HIDE DEF n, left
  <2>3. Settled => Sound(n)
    BY <2>1, <2>2 DEF Sound, Holding
  <2>4. QED
    BY <1>5, <2>1, <2>3, SerialStart DEF BackfillZones
<1>6. QED
  BY <1>1, <1>2, <1>3, <1>4, <1>5 DEF AddressRoutes

\* While nothing is written, what was sound stays so.
LEMMA BookKept ==
  ASSUME UNCHANGED book
  PROVE  /\ Settled' = Settled /\ Defaults' = Defaults /\ Present' = Present
         /\ \A left : Holds(left)' = Holds(left)
BY DEF book, Settled, Defaults, Present, Holds

\* The statements between clear and home, one after the other.
LEMMA ClearSerial ==
  ASSUME AddressTypeOK, NEW q \in Requests, ClearOthers(q),
         NEW r, r = req[q], Sound(r), NEW n, n = req'[q]
  PROVE  Sound(n)'
<1>1. r \in AddressWorking /\ r.at = "clear" /\ Onward(q, r)
  BY AddressMemory DEF ClearOthers, At, LaterStep
<1>2. Holding(r) /\ Grounded(r) /\ Promised(r)
  BY <1>1 DEF Holding, Sound
<1>3. r.left = Nothing /\ DOMAIN Nothing = {}
  BY <1>1, <1>2 DEF Grounded, Nothing
<1>4. /\ Present' = Present
      /\ addresses'[r.key] = addresses[r.key]
      /\ Defaults' \subseteq {r.key}
  <2>1. Present' = Present
    BY DEF ClearOthers, Present
  <2>2. \A a \in Present : addresses'[a] =
          IF a = r.key THEN addresses[a] ELSE [addresses[a] EXCEPT !.default = FALSE]
    BY DEF ClearOthers
  <2>3. \A a \in Present : [addresses[a] EXCEPT !.default = FALSE].default = FALSE
    BY DEF AddressTypeOK, Entry
  <2>4. QED
    BY <1>2, <2>1, <2>2, <2>3 DEF Defaults, Grounded
<1>5. Ready(r)'
  <2>1. r.key \in Present' \ DOMAIN r.left /\ Holds(r.left)'
    BY <1>2, <1>3, <1>4 DEF Grounded, Holds
  <2>2. \/ r.rest = Home /\ addresses'[r.key] = r.mem
        \/ r.rest = CompareHome /\ r.mem.default
    BY <1>1, <1>2, <1>4 DEF Promised
  <2>3. QED
    BY <1>3, <1>4, <2>1, <2>2 DEF Ready
<1>6. QED
  BY <1>1, <1>5, OnwardSound

LEMMA SelectSerial ==
  ASSUME AddressTypeOK, NEW q \in Requests, SelectAddress(q),
         NEW r, r = req[q], Sound(r), NEW n, n = req'[q]
  PROVE  Sound(n)'
<1> DEFINE diff == {c \in {"zone", "default"} : addresses[r.key][c] # r.mem[c]}
<1>1. r \in AddressWorking /\ r.at = "compare"
  BY AddressMemory DEF SelectAddress, At, LaterStep
<1>2. Holding(r) /\ Grounded(r) /\ Promised(r) /\ r.key \in Present
  BY <1>1 DEF Holding, Sound, Grounded
<1>3. /\ "zone" \in diff \/ addresses[r.key].zone = r.mem.zone
      /\ "default" \in diff \/ addresses[r.key].default = r.mem.default
  OBVIOUS
<1>4. UNCHANGED book
  BY DEF SelectAddress
<1>5. CASE diff = {}
  <2>1. Onward(q, r)
    BY <1>2, <1>5 DEF SelectAddress
  <2>2. addresses[r.key] = r.mem
    <3>1. addresses[r.key] \in Entry /\ r.mem \in Entry
      BY <1>1, <1>2 DEF AddressTypeOK, AddressWorking
    <3>2. QED
      BY <1>3, <1>5, <3>1 DEF Entry
  <2>3. Ready(r)
    BY <1>1, <1>2, <2>2 DEF Ready, Grounded, Promised
  <2>4. Ready(r)'
    BY <1>4, <2>3, BookKept DEF Ready, book
  <2>5. QED
    BY <1>1, <2>1, <2>4, OnwardSound
<1>6. CASE diff # {}
  <2>1. n = [at |-> "write", rest |-> r.rest, key |-> r.key,
             mem |-> r.mem, left |-> r.left, dirty |-> diff]
    BY <1>2, <1>6, GoMoves DEF SelectAddress
  <2>2. /\ n.at = "write" /\ n.rest = r.rest /\ n.key = r.key /\ n.mem = r.mem
        /\ n.left = r.left /\ n.dirty = diff
    BY <2>1
  <2> HIDE DEF diff
  <2>3. Grounded(n) /\ Promised(n)
    BY <1>1, <1>2, <1>3, <2>2 DEF Grounded, Promised
  <2>4. Grounded(n)' /\ Promised(n)'
    BY <1>4, <2>3, BookKept DEF Grounded, Promised, book
  <2>5. QED
    BY <2>2, <2>4 DEF Sound
<1>7. QED
  BY <1>5, <1>6

LEMMA WriteSerial ==
  ASSUME AddressTypeOK, NEW q \in Requests, WriteAddress(q),
         NEW r, r = req[q], Sound(r), NEW n, n = req'[q]
  PROVE  Sound(n)'
<1>1. r \in Writing /\ r.at = "write" /\ Onward(q, r) /\ homeZone' = homeZone
  BY AddressMemory DEF WriteAddress, At
<1>2. Holding(r) /\ Grounded(r) /\ Promised(r) /\ r.key \in Present
  BY <1>1 DEF Holding, Sound, Grounded
<1>3. /\ Present' = Present
      /\ \A a \in Present :
           /\ addresses'[a].zone = IF a = r.key /\ "zone" \in r.dirty
                                   THEN r.mem.zone ELSE addresses[a].zone
           /\ addresses'[a].default = IF a = r.key /\ "default" \in r.dirty
                                      THEN r.mem.default ELSE addresses[a].default
           /\ addresses'[a] \in Entry
  BY Written
<1>4. addresses'[r.key] = r.mem
  <2>1. addresses'[r.key].zone = r.mem.zone /\ addresses'[r.key].default = r.mem.default
    BY <1>1, <1>2, <1>3 DEF Promised
  <2>2. r.mem \in Entry /\ addresses'[r.key] \in Entry
    BY <1>1, <1>2, <1>3 DEF Writing
  <2>3. QED
    BY <2>1, <2>2 DEF Entry
<1>5. \A a \in Present : a # r.key => addresses'[a] = addresses[a]
  <2>1. ASSUME NEW a \in Present, a # r.key PROVE addresses'[a] = addresses[a]
    <3>1. addresses'[a].zone = addresses[a].zone /\ addresses'[a].default = addresses[a].default
      BY <1>3, <2>1
    <3>2. addresses[a] \in Entry /\ addresses'[a] \in Entry
      BY <1>3 DEF AddressTypeOK
    <3>3. QED
      BY <3>1, <3>2 DEF Entry
  <2>2. QED
    BY <2>1
<1>6. Ready(r)'
  <2>1. r.key \in Present' \ DOMAIN r.left /\ Holds(r.left)'
    BY <1>2, <1>3, <1>5 DEF Grounded, Holds
  <2>2. CASE r.rest = ClearHome /\ r.mem.default
    BY <1>2, <1>4, <2>1, <2>2 DEF Ready, Grounded
  <2>3. CASE r.rest = Home /\ r.mem.default /\ Defaults \subseteq {r.key}
    <3>1. Defaults' \subseteq {r.key}
      BY <1>3, <1>5, <2>3 DEF Defaults
    <3>2. QED
      BY <1>2, <1>4, <2>1, <2>3, <3>1 DEF Ready, Grounded
  <2>4. CASE r.rest = <<>> /\ ~r.mem.default /\ Settled
    <3>1. Defaults' \subseteq Defaults /\ \A a \in Defaults' : addresses'[a] = addresses[a]
      BY <1>3, <1>4, <1>5, <2>4 DEF Defaults
    <3>2. Settled'
      BY <1>1, <2>4, <3>1 DEF Settled
    <3>3. QED
      BY <1>2, <2>1, <2>4, <3>2 DEF Ready, Grounded
  <2>5. QED
    BY <1>1, <1>2, <2>2, <2>3, <2>4 DEF Promised
<1>7. QED
  BY <1>1, <1>6, OnwardSound

LEMMA HomeSerial ==
  ASSUME AddressTypeOK, NEW q \in Requests, SyncHomeZone(q),
         NEW r, r = req[q], Sound(r), NEW n, n = req'[q]
  PROVE  Sound(n)'
<1>1. /\ r \in AddressWorking /\ r.at = "home" /\ Onward(q, r)
      /\ homeZone' = r.mem.zone /\ addresses' = addresses
  BY AddressMemory DEF SyncHomeZone, At, LaterStep
<1>2. Holding(r) /\ Grounded(r) /\ Promised(r)
  BY <1>1 DEF Holding, Sound
<1>3. /\ r.rest = <<>> /\ Defaults \subseteq {r.key} /\ addresses[r.key].zone = r.mem.zone
  BY <1>1, <1>2 DEF Promised
<1>4. Present' = Present /\ Defaults' = Defaults
  BY <1>1 DEF Present, Defaults
<1>5. Settled'
  BY <1>1, <1>3, <1>4 DEF Settled
<1>6. Holds(r.left)'
  BY <1>1, <1>2, <1>4 DEF Grounded, Holds
<1>7. Ready(r)'
  BY <1>2, <1>3, <1>4, <1>5, <1>6 DEF Ready, Grounded
<1>8. QED
  BY <1>1, <1>7, OnwardSound

LEMMA InsertSerial ==
  ASSUME AddressTypeOK, NEW q \in Requests, InsertAddress(q),
         NEW r, r = req[q], Sound(r), NEW n, n = req'[q]
  PROVE  Sound(n)'
<1>1. PICK a \in Address \ Present, zone \in Zone :
        LET row == [zone |-> zone, default |-> req[q].default]
        IN  /\ addresses' = [b \in Present \cup {a} |->
                               IF b = a THEN row ELSE addresses[b]]
            /\ IF row.default THEN Go(q, Work("clear", <<"home">>, a, row))
                              ELSE Answer(q)
  BY DEF InsertAddress
<1> DEFINE row == [zone |-> zone, default |-> req[q].default]
<1>2. Settled /\ homeZone' = homeZone
  BY DEF InsertAddress, At, Sound
<1>3. Present' = Present \cup {a}
  BY <1>1 DEF Present
<1>4. \A b \in Present' : addresses'[b] = IF b = a THEN row ELSE addresses[b]
  BY <1>1, <1>3
<1>5. CASE row.default
  <2>1. n = Work("clear", Home, a, row)
    BY <1>1, <1>5, GoMoves DEF Home
  <2> HIDE DEF row
  <2>2. /\ n.at = "clear" /\ n.rest = Home /\ n.key = a /\ n.mem = row /\ n.left = Nothing
        /\ DOMAIN n.left = {}
    BY <2>1 DEF Work, Task, Nothing
  <2>3. Grounded(n)' /\ Promised(n)'
    BY <1>3, <1>4, <1>5, <2>2 DEF Grounded, Promised, Holds
  <2>4. QED
    BY <2>2, <2>3 DEF Sound
<1>6. CASE ~row.default
  <2>1. n = Idle
    BY <1>1, <1>6, GoMoves DEF Answer
  <2>2. Defaults' = Defaults /\ \A b \in Defaults : addresses'[b] = addresses[b]
    <3> HIDE DEF row
    <3>1. QED
      BY <1>1, <1>3, <1>4, <1>6 DEF Defaults
  <2>3. Settled'
    BY <1>2, <2>2 DEF Settled
  <2>4. QED
    BY <2>1, <2>3 DEF Sound, Holding, Idle
<1>7. QED
  BY <1>5, <1>6

LEMMA DeleteSerial ==
  ASSUME AddressTypeOK, NEW q \in Requests, DeleteAddress(q),
         NEW r, r = req[q], Sound(r), NEW n, n = req'[q]
  PROVE  Sound(n)'
<1>1. /\ r.at = "delete" /\ Settled /\ r.key \in Present
      /\ r.default = addresses[r.key].default /\ homeZone' = homeZone
  BY DEF DeleteAddress, At, Sound
<1>2. Defaults' = Defaults \ {r.key} /\ \A a \in Defaults' : addresses'[a] = addresses[a]
  <2>1. Present' = Present \ {r.key}
    BY DEF DeleteAddress, Present
  <2>2. \A a \in Present' : addresses'[a] = addresses[a]
    BY <2>1 DEF DeleteAddress
  <2>3. QED
    BY <2>1, <2>2 DEF Defaults
<1>3. n = IF r.default THEN [at |-> "promote"] ELSE Idle
  BY GoMoves DEF DeleteAddress, Answer
<1>4. CASE r.default
  <2>1. r.key \in Defaults
    BY <1>1, <1>4 DEF Defaults
  <2>2. Defaults' = {}
    BY <1>1, <1>2, <2>1 DEF Settled
  <2>3. n.at = "promote"
    BY <1>3, <1>4
  <2>4. QED
    BY <2>2, <2>3 DEF Sound, Holding
<1>5. CASE ~r.default
  <2>1. n.at = "idle"
    BY <1>3, <1>5 DEF Idle
  <2>2. Settled'
    BY <1>1, <1>2 DEF Settled
  <2>3. QED
    BY <2>1, <2>2 DEF Sound, Holding
<1>6. QED
  BY <1>4, <1>5

\* The next default, or none.
LEMMA PromoteSerial ==
  ASSUME AddressTypeOK, NEW q \in Requests, PromoteAddress(q) \/ ClearHomeZone(q),
         NEW r, r = req[q], Sound(r), NEW n, n = req'[q]
  PROVE  Sound(n)'
<1>1. Defaults = {} /\ Defaults' = {} /\ addresses' = addresses /\ Present' = Present
  BY DEF PromoteAddress, ClearHomeZone, At, Sound, book, Defaults, Present
<1>2. CASE PromoteAddress(q)
  <2>1. CASE Present = {}
    <3>1. n = [at |-> "homeless"]
      BY <1>2, <2>1, GoMoves DEF PromoteAddress
    <3>2. n.at = "homeless"
      BY <3>1
    <3>3. QED
      BY <1>1, <3>2 DEF Sound, Holding
  <2>2. CASE Present # {}
    <3>1. PICK a \in Present :
            Go(q, Work("compare", <<"home">>, a, [addresses[a] EXCEPT !.default = TRUE]))
      BY <1>2, <2>2 DEF PromoteAddress
    <3> DEFINE mem == [addresses[a] EXCEPT !.default = TRUE]
    <3>2. n = Work("compare", Home, a, mem)
      BY <3>1, GoMoves DEF Home
    <3>3. mem.default = TRUE
      BY DEF AddressTypeOK, Entry
    <3> HIDE DEF mem
    <3>4. /\ n.at = "compare" /\ n.rest = Home /\ n.key = a /\ n.mem = mem
          /\ n.left = Nothing /\ DOMAIN n.left = {}
      BY <3>2 DEF Work, Task, Nothing
    <3>5. Grounded(n)' /\ Promised(n)'
      BY <1>1, <3>3, <3>4 DEF Grounded, Promised, Holds
    <3>6. QED
      BY <3>4, <3>5 DEF Sound
  <2>3. QED
    BY <2>1, <2>2
<1>3. CASE ClearHomeZone(q)
  <2>1. n.at = "idle"
    BY <1>3, GoMoves DEF ClearHomeZone, Answer, Idle
  <2>2. Settled'
    BY <1>1 DEF Settled
  <2>3. QED
    BY <2>1, <2>2 DEF Sound, Holding
<1>4. QED
  BY <1>2, <1>3

LEMMA BackfillSerial ==
  ASSUME AddressTypeOK, NEW q \in Requests, BackfillNext(q),
         NEW r, r = req[q], Sound(r), NEW n, n = req'[q]
  PROVE  Sound(n)'
<1> DEFINE left == r.left
<1>1. /\ left \in Loaded /\ DOMAIN left \in SUBSET Address
      /\ left \in [DOMAIN left -> Entry] /\ r.at = "backfill" /\ UNCHANGED book
  BY AddressMemory, LoadedIs DEF BackfillNext, At
<1>2. Settled /\ Holds(left)
  BY <1>1 DEF Sound
<1>3. Settled' /\ Defaults' = Defaults /\ Present' = Present
      /\ \A l : Holds(l)' = Holds(l)
  BY <1>1, <1>2, BookKept
<1>4. CASE left = Nothing
  <2>1. n.at = "idle"
    BY <1>4, GoMoves DEF BackfillNext, Answer, Idle
  <2>2. QED
    BY <1>3, <2>1 DEF Sound, Holding
<1>5. CASE left # Nothing
  <2> DEFINE Rest(a)  == [b \in DOMAIN left \ {a} |-> left[b]]
             After(a) == IF left[a].default THEN Home ELSE <<>>
  <2>1. PICK a \in DOMAIN left, zone \in Zone :
          IF zone = NoZone THEN Go(q, [at |-> "backfill", left |-> Rest(a)])
          ELSE Go(q, Task("compare", After(a), a, [left[a] EXCEPT !.zone = zone], Rest(a)))
    BY <1>5 DEF BackfillNext, Home
  <2>2. /\ DOMAIN Rest(a) = DOMAIN left \ {a}
        /\ \A b \in DOMAIN Rest(a) : Rest(a)[b] = left[b]
    OBVIOUS
  <2>3. Holds(Rest(a))
    BY <1>2, <2>2 DEF Holds
  <2>4. CASE zone = NoZone
    <3>1. n.at = "backfill" /\ n.left = Rest(a)
      BY <2>1, <2>4, GoMoves
    <3>2. QED
      BY <1>3, <2>3, <3>1 DEF Sound, Holding
  <2>5. CASE zone # NoZone
    <3> DEFINE mem == [left[a] EXCEPT !.zone = zone]
    <3>1. n = Task("compare", After(a), a, mem, Rest(a))
      BY <2>1, <2>5, GoMoves
    <3>2. mem.default = left[a].default
      BY <1>1 DEF Entry
    <3> HIDE DEF mem, Rest
    <3>3. /\ n.at = "compare" /\ n.rest = After(a) /\ n.key = a /\ n.mem = mem
          /\ n.left = Rest(a)
      BY <3>1 DEF Task
    <3>4. a \in Present /\ addresses[a] = left[a]
      BY <1>2 DEF Holds
    <3>5. left[a].default => Defaults = {a}
      BY <1>2, <3>4 DEF Settled, Defaults
    <3>6. Grounded(n)
      BY <2>2, <2>3, <3>3, <3>4 DEF Grounded
    <3>7. Promised(n)
      BY <1>2, <3>2, <3>3, <3>5 DEF Promised
    <3>8. Grounded(n)' /\ Promised(n)'
      BY <1>1, <1>3, <3>6, <3>7, <3>3, BookKept DEF Grounded, Promised, book
    <3>9. QED
      BY <3>3, <3>8 DEF Sound
  <2>6. QED
    BY <2>4, <2>5
<1>6. QED
  BY <1>4, <1>5

LEMMA StatementsSerial ==
  ASSUME AddressTypeOK, Alone, SerialInv, NEW q \in Requests,
         \/ InsertAddress(q) \/ ClearOthers(q) \/ SelectAddress(q) \/ WriteAddress(q)
         \/ InsertAgain(q) \/ SyncHomeZone(q) \/ DeleteAddress(q) \/ PromoteAddress(q)
         \/ ClearHomeZone(q) \/ BackfillNext(q)
  PROVE  SerialInv'
<1>1. PICK r, n : r = req[q] /\ n = req'[q]
  OBVIOUS
<1>2. InFlight(q) /\ AddressOthers(q) /\ overlaps' = overlaps /\ deaths' = deaths
  <2>1. \E m : Go(q, m) /\ InFlight(q)
    BY StatementGoes
  <2>2. QED
    BY <2>1, GoMoves
<1>3. ASSUME overlaps = 0, deaths = 0 PROVE Sound(n)'
  <2>1. Sound(r)
    <3>1. Sound(req[q])
      BY <1>2, <1>3 DEF SerialInv
    <3>2. QED
      BY <1>1, <3>1 DEF Sound, Grounded, Promised, Holding
  <2>2. ~InsertAgain(q)
    BY <1>1, <2>1 DEF InsertAgain, At, Sound, Holding, Promised
  <2>3. QED
    BY <1>1, <2>1, <2>2, InsertSerial, ClearSerial, SelectSerial, WriteSerial, HomeSerial,
       DeleteSerial, PromoteSerial, BackfillSerial
<1>4. QED
  BY <1>1, <1>2, <1>3, SerialStep

\* Each overlap and each death adds at most one default; where requests come one
\* by one and survive, the home zone is the default address's: the "one default
\* per customer" of create, update, setDefault, remove and the backfill.
THEOREM OneDefaultAlways == AddressSpec => []OneDefault
<1> DEFINE Inv == AddressTypeOK /\ BusyInv /\ Alone /\ FlagInv /\ SerialInv
<1>1. AddressInit => Inv
  <2> SUFFICES ASSUME AddressInit PROVE Inv
    OBVIOUS
  <2>1. AddressTypeOK
    BY AddressTypeStart
  <2>2. /\ Defaults = {} /\ overlaps = 0 /\ deaths = 0
        /\ \A q \in Requests : req[q] = Idle
    BY DEF AddressInit, ServerInit, Defaults, Present
  <2>3. \A q \in Requests : Pins(req[q]) = {} /\ ~Names(req[q]) /\ ~InFlight(q)
    <3>1. Idle.at = "idle"
      BY DEF Idle
    <3>2. QED
      BY <2>2, <3>1 DEF Pins, Flags, Holding, Names, InFlight
  <2>4. Flagged = {} /\ Naming = {} /\ Busy = {}
    BY <2>2, <2>3 DEF Flagged, AddressPinned, Naming, Busy
  <2>5. Spare \in {0, 1}
    BY DEF Spare
  <2>6. BusyInv /\ FlagInv
    BY <2>2, <2>4, <2>5, FS_EmptySet DEF BusyInv, FlagInv
  <2>7. Alone /\ SerialInv
    BY <2>2, <2>3 DEF Alone, SerialInv, Settled
  <2>8. QED
    BY <2>1, <2>6, <2>7
<1>2. Inv /\ [AddressNext]_bvars => Inv'
  <2> SUFFICES ASSUME Inv, [AddressNext]_bvars PROVE Inv'
    OBVIOUS
  <2>1. AddressTypeOK' /\ BusyInv'
    BY AddressTypeKept, AddressBusy
  <2>2. CASE UNCHANGED bvars
    <3>1. UNCHANGED <<req, overlaps, deaths, addresses, homeZone>>
      BY <2>2 DEF bvars, server, book
    <3>2. Defaults' = Defaults /\ Present' = Present /\ Quiet' = Quiet
      BY <3>1 DEF Defaults, Present, Quiet, InFlight
    <3>3. FlagInv'
      BY <3>1, <3>2 DEF FlagInv, Flagged, AddressPinned, Naming, Spare, Replacing
    <3>4. SerialInv'
      BY <3>1, <3>2 DEF SerialInv, Sound, Grounded, Promised, Settled, Holds, InFlight
    <3>5. QED
      BY <2>1, <3>1, <3>3, <3>4 DEF Alone, InFlight
  <2>3. ASSUME NEW q \in Requests, AddressRoutes(q) \/ BackfillZones(q) PROVE Inv'
    <3>1. \E n : Start(q, n)
      BY <2>3 DEF AddressRoutes, CreateAddress, UpdateAddress, SetDefault, RemoveAddress,
         BackfillZones
    <3>2. Alone'
      BY <3>1, StartAlone DEF AddressTypeOK, ServerTyped
    <3>3. QED
      BY <2>1, <2>3, <3>2, RoutesFlags, RoutesSerial
  <2>4. ASSUME NEW q \in Requests,
               \/ InsertAddress(q) \/ ClearOthers(q) \/ SelectAddress(q) \/ WriteAddress(q)
               \/ InsertAgain(q) \/ SyncHomeZone(q) \/ DeleteAddress(q) \/ PromoteAddress(q)
               \/ ClearHomeZone(q) \/ BackfillNext(q)
        PROVE  Inv'
    <3>1. \E n : Go(q, n) /\ InFlight(q)
      BY <2>4, StatementGoes
    <3>2. Alone'
      BY <3>1, GoAlone DEF AddressTypeOK, ServerTyped
    <3>3. SerialInv'
      BY <2>4, StatementsSerial
    <3>4. FlagInv'
      BY <2>4, ReadsFlags, WritesFlags, RowsFlags
    <3>5. QED
      BY <2>1, <3>2, <3>3, <3>4
  <2>5. ASSUME NEW q \in Requests, AddressCrash(q) PROVE Inv'
    <3>1. Die(q) /\ UNCHANGED book
      BY <2>5 DEF AddressCrash
    <3>2. Alone'
      BY <3>1, DieAlone DEF AddressTypeOK, ServerTyped
    <3>3. deaths' # 0
      BY <3>1 DEF Die, AddressTypeOK
    <3>4. QED
      BY <2>1, <3>1, <3>2, <3>3, DieFlags DEF SerialInv
  <2>6. QED
    BY <2>2, <2>3, <2>4, <2>5 DEF AddressNext
<1>3. Inv => OneDefault
  <2> SUFFICES ASSUME Inv, Quiet
               PROVE  /\ Cardinality(Defaults) <= 1 + overlaps + deaths
                      /\ overlaps = 0 /\ deaths = 0 =>
                           \A a \in Defaults : homeZone = addresses[a].zone
    BY DEF OneDefault
  <2>1. \A p \in Requests : /\ Pins(req[p]) = {} /\ ~Names(req[p])
                            /\ \A x : ~Unflags(req[p], x)
    BY DEF Quiet, InFlight, Pins, Flags, Holding, Names, Unflags
  <2>2. Naming = {} /\ Spare = 0 /\ Flagged = Defaults
    BY <2>1 DEF AddressPinned, Naming, Spare, Replacing, Flagged
  <2>3. Cardinality(Defaults) <= 1 + overlaps + deaths
    <3>1. /\ overlaps \in Nat /\ deaths \in Nat
          /\ Cardinality(Flagged) \in Nat /\ Cardinality(Naming) \in Nat
          /\ Cardinality(Flagged) + Cardinality(Naming) <= 1 + overlaps + deaths + Spare
      BY FlagTypes, FS_CardinalityType DEF FlagInv
    <3>2. QED
      BY <2>2, <3>1
  <2>4. QED
    BY <2>3 DEF SerialInv, Settled
<1> HIDE DEF Inv
<1>4. QED
  BY <1>1, <1>2, <1>3, PTL DEF AddressSpec
=============================================================================
