------------------------------- MODULE Agents -------------------------------
(***************************************************************************)
(* The agents' rows and what hangs off them: an agent onboards, admins     *)
(* approve, reject, suspend and activate, and the agent's day is kept in   *)
(* attendance and availability rows; agents and admins fill the calendar   *)
(* with jobs.  The onboarding and desk rows are not shared with the jobs,  *)
(* so a behaviour is about one of the two; the agents' rows are in both.   *)
(*                                                                         *)
(* Every save is TypeORM's: SELECT and compare the entity loaded earlier,  *)
(* then UPDATE the columns that differ, whoever has changed them meanwhile.*)
(***************************************************************************)
EXTENDS Server, BookingStatus, Sequences, FiniteSets

CONSTANTS
  Agent,     \* the agents
  Me,        \* the agent whose papers and desk rows the behaviour follows
  Followed,  \* bound: agents whose own row changes; the others stay as they are
  Bookings,  \* jobs of one day
  Starts,    \* when one may start
  Duration,  \* how long each takes
  DayEnd,    \* midnight
  MaxRows,   \* bound: rows of each desk table
  None

ASSUME AgentsAssumption ==
  /\ IsFiniteSet(Bookings)
  /\ Followed \subseteq Agent /\ Me \in Agent /\ None \notin Agent
  /\ DayEnd \in Nat \ {0} /\ Duration \in 1..DayEnd /\ Starts \subseteq 0..(DayEnd - 1)
  /\ MaxRows \in Nat \ {0}

Row      == [approval: {"PENDING", "APPROVED", "REJECTED"},
             status: {"PENDING", "ACTIVE", "SUSPENDED"}, named: BOOLEAN]
Document == [status: {"PENDING", "VERIFIED", "REJECTED", "REMOVED"}]
Booking  == [status: Status, agent: Agent \cup {None}, start: Starts]
Column   == {"approval", "status", "named", "agent", "start"}

VARIABLES
  part,         \* what the behaviour is about: "desk" or "jobs"
  agents,       \* agents
  documents,    \* agent_documents of Me, of one type
  banks,        \* how many agent_bank_accounts rows Me has
  attendance,   \* agent_attendance of Me and today: "in" or "out"
  availability, \* how many agent_availability rows Me has for today
  bookings,     \* bookings
  lost          \* how often an agent's save has changed an admin's decision

desk  == <<documents, banks, attendance, availability>>
adata == <<part, agents, desk, bookings, lost>>
vars  == <<server, adata>>

\* A save of table[key] as mem; op says what its handler means to change.
SaveOf(table, keys, mem, ops) ==
  [at: {"select", "update"}, table: {table}, key: keys, mem: mem, op: ops,
   dirty: SUBSET Column]

Step ==
  {Idle}
    \cup SaveOf("agents", Agent, Row, {"touch", "status", "approval"})
    \cup SaveOf("documents", 1..MaxRows, Document, {"upload", "verify"})
    \cup SaveOf("bookings", Bookings, Booking, {"move", "assign"})
    \cup [at: {"ping", "papers", "count"}, key: Agent, mem: Row]
    \cup [at: {"insertDocument", "insertBank", "insertAttendance", "insertAvailability"}]
    \cup [at: {"remove", "checkOut"}, i: 1..MaxRows]
    \cup [at: {"claim", "begin", "finish", "giveUp"}, a: Agent, b: Bookings]
    \cup [at: {"reread"}, b: Bookings]
    \cup [at: {"candidate", "clash"}, a: Agent, b: Bookings, mem: Booking]

TypeOK ==
  /\ part \in {"desk", "jobs"}
  /\ agents \in [Agent -> Row]
  /\ documents \in Seq(Document) /\ Len(documents) <= MaxRows
  /\ attendance \in Seq({"in", "out"}) /\ Len(attendance) <= MaxRows
  /\ banks \in {0, 1} /\ availability \in 0..MaxRows
  /\ bookings \in [Bookings -> Booking]
  /\ lost \in Nat
  /\ req \in [Requests -> Step] /\ overlaps \in Nat /\ deaths \in Nat

New      == [approval |-> "PENDING", status |-> "PENDING", named |-> FALSE]
Approved == [approval |-> "APPROVED", status |-> "ACTIVE", named |-> TRUE]

\* An agent who has just logged in for the first time, or agents at work.
Init ==
  /\ ServerInit
  /\ part \in {"desk", "jobs"}
  /\ agents = [a \in Agent |-> IF part = "jobs" THEN Approved ELSE New]
  /\ documents = IF part = "jobs" THEN <<[status |-> "VERIFIED"]>> ELSE <<>>
  /\ banks = IF part = "jobs" THEN 1 ELSE 0
  /\ attendance = <<>> /\ availability = 0
  /\ bookings \in [Bookings -> [status: {"finding"}, agent: {None}, start: Starts]]
  /\ lost = 0

-----------------------------------------------------------------------------
(* Saves.                                                                  *)

Table(t) == CASE t = "agents"    -> agents
              [] t = "documents" -> documents
              [] t = "bookings"  -> bookings

\* A handler has loaded table[key], and will save it as mem.
Save(table, key, mem, op) ==
  [at |-> "select", table |-> table, key |-> key, mem |-> mem, op |-> op,
   dirty |-> {}]

SelectRow(q) ==
  /\ At(q, "select")
  /\ LET r    == req[q]
         row  == Table(r.table)[r.key]
         diff == {c \in DOMAIN row : row[c] # r.mem[c]}
     IN  IF diff = {} THEN Answer(q)
         ELSE Go(q, [r EXCEPT !.at = "update", !.dirty = diff])
  /\ UNCHANGED adata

Overwrite(row, mem, cols) ==
  [c \in DOMAIN row |-> IF c \in cols THEN mem[c] ELSE row[c]]

\* What an admin has decided is changed by a save that does not decide it.
Loses(r, row, new) ==
  CASE r.table = "agents"    ->
         \/ (r.op = "touch" /\ new.status # row.status)
         \/ (r.op # "approval" /\ new.approval # row.approval)
    [] r.table = "documents" -> r.op = "upload" /\ row.status = "VERIFIED"
    [] OTHER                 -> FALSE

\* UPDATE, or INSERT of a document that is gone.
UpdateRow(q) ==
  /\ At(q, "update")
  /\ LET r   == req[q]
         row == Table(r.table)[r.key]
         new == Overwrite(row, r.mem, r.dirty)
         Written(t) == IF r.table = t THEN [Table(t) EXCEPT ![r.key] = new]
                                      ELSE Table(t)
     IN  /\ agents' = Written("agents")
         /\ documents' = Written("documents")
         /\ bookings' = Written("bookings")
         /\ lost' = IF Loses(r, row, new) THEN lost + 1 ELSE lost
  /\ Answer(q)
  /\ UNCHANGED <<part, banks, attendance, availability>>

-----------------------------------------------------------------------------
(* Onboarding, profile and location: the agent saves the whole row.        *)

\* requireApprovedAgent.
Working(a) == agents[a].approval = "APPROVED" /\ agents[a].status # "SUSPENDED"

\* Mutant: an edited registration goes back to review.
RegisterAgain(q, a) ==
  /\ agents[a].approval # "APPROVED"
  /\ Start(q, Save("agents", a, [agents[a] EXCEPT !.named = TRUE,
                                                  !.approval = "PENDING"],
                   "touch"))
  /\ UNCHANGED adata

\* register, updatePersonalDetails, saveAddress: frozen once approved.
Register(q, a) ==
  /\ agents[a].approval # "APPROVED"
  /\ Start(q, Save("agents", a, [agents[a] EXCEPT !.named = TRUE], "touch"))
  /\ UNCHANGED adata

\* The profile's update, the boost, the zones an admin assigns: none of them
\* assigns a column of Row.
EditProfile(q, a) ==
  /\ Start(q, Save("agents", a, agents[a], "touch"))
  /\ UNCHANGED adata

SetBoost(q, a) ==
  /\ Start(q, Save("agents", a, agents[a], "touch"))
  /\ UNCHANGED adata

\* The zone resolver gives agents without a home zone one when it boots.
BackfillAgent(q, a) ==
  /\ Start(q, Save("agents", a, agents[a], "touch"))
  /\ UNCHANGED adata

AssignZones(q, a) ==
  /\ Start(q, Save("agents", a, agents[a], "touch"))
  /\ UNCHANGED adata

\* A GPS ping is inserted, then the agent loaded before it is saved.
Ping(q, a) ==
  /\ Working(a)
  /\ Start(q, [at |-> "ping", key |-> a, mem |-> agents[a]])
  /\ UNCHANGED adata

InsertPing(q) ==
  /\ At(q, "ping")
  /\ Go(q, Save("agents", req[q].key, req[q].mem, "touch"))
  /\ UNCHANGED adata

-----------------------------------------------------------------------------
(* Papers and desk rows: each looked for, then inserted.                   *)

Inserting(q, there, at) ==
  /\ part = "desk" /\ ~there
  /\ Start(q, [at |-> at])
  /\ UNCHANGED adata

Kept == {i \in DOMAIN documents : documents[i].status # "REMOVED"}

\* upload of a first document, or of another file for the newest one.
UploadDocument(q)  == Inserting(q, Kept # {} \/ Len(documents) >= MaxRows,
                                "insertDocument")

ReplaceDocument(q) ==
  /\ part = "desk"
  /\ \E i \in Kept :
       /\ documents[i].status # "VERIFIED" /\ \A j \in Kept : j <= i
       /\ Start(q, Save("documents", i, [status |-> "PENDING"], "upload"))
  /\ UNCHANGED adata

InsertDocument(q) ==
  /\ At(q, "insertDocument") /\ Len(documents) < MaxRows
  /\ documents' = Append(documents, [status |-> "PENDING"])
  /\ Answer(q)
  /\ UNCHANGED <<part, agents, banks, attendance, availability, bookings, lost>>

\* verifyDocument: an admin verifies or rejects.
VerifyDocument(q) ==
  /\ part = "desk"
  /\ \E i \in Kept, status \in {"VERIFIED", "REJECTED"} :
       Start(q, Save("documents", i, [status |-> status], "verify"))
  /\ UNCHANGED adata

\* remove, of a document that is not verified.
RemoveDocument(q) ==
  /\ part = "desk"
  /\ \E i \in Kept : /\ documents[i].status # "VERIFIED"
                     /\ Start(q, [at |-> "remove", i |-> i])
  /\ UNCHANGED adata

DeleteDocument(q) ==
  /\ At(q, "remove")
  /\ LET i == req[q].i
     IN  /\ documents' = [documents EXCEPT ![i].status = "REMOVED"]
         /\ lost' = IF documents[i].status = "VERIFIED" THEN lost + 1 ELSE lost
  /\ Answer(q)
  /\ UNCHANGED <<part, agents, banks, attendance, availability, bookings>>

\* Bank details: a second save updates the first one's row.
SaveBank(q) == Inserting(q, banks > 0, "insertBank")

\* idx_agent_bank_accounts_agent_id refuses the row if there is one.
InsertBank(q) ==
  /\ At(q, "insertBank")
  /\ banks' = 1
  /\ Answer(q)
  /\ UNCHANGED <<part, agents, documents, attendance, availability, bookings, lost>>

\* Mutant: a day's second check-in is not refused.
CheckInAgain(q) ==
  Inserting(q, ~Working(Me) \/ Len(attendance) >= MaxRows, "insertAttendance")

\* checkIn, once a day.
CheckIn(q) ==
  Inserting(q, ~Working(Me) \/ attendance # <<>> \/ Len(attendance) >= MaxRows,
            "insertAttendance")

InsertAttendance(q) ==
  /\ At(q, "insertAttendance") /\ Len(attendance) < MaxRows
  /\ attendance' = Append(attendance, "in")
  /\ Answer(q)
  /\ UNCHANGED <<part, agents, documents, banks, availability, bookings, lost>>

CheckOut(q) ==
  /\ part = "desk" /\ Working(Me)
  /\ \E i \in DOMAIN attendance : /\ attendance[i] = "in"
                                  /\ Start(q, [at |-> "checkOut", i |-> i])
  /\ UNCHANGED adata

CloseAttendance(q) ==
  /\ At(q, "checkOut")
  /\ attendance' = [attendance EXCEPT ![req[q].i] = "out"]
  /\ Answer(q)
  /\ UNCHANGED <<part, agents, documents, banks, availability, bookings, lost>>

Ongoing(a) == {b \in Bookings : bookings[b].agent = a /\ bookings[b].status = "ongoing"}

\* availability.update: "No unique index ..., so upsert by hand."
UpdateAvailability(q) ==
  Inserting(q, ~Working(Me) \/ availability > 0 \/ availability >= MaxRows,
            "insertAvailability")

InsertAvailability(q) ==
  /\ At(q, "insertAvailability") /\ availability < MaxRows
  /\ availability' = availability + 1
  /\ Answer(q)
  /\ UNCHANGED <<part, agents, documents, banks, attendance, bookings, lost>>

-----------------------------------------------------------------------------
(* Decisions.                                                              *)

\* approve loads the agent, then looks at the papers.
Approve(q, a) ==
  /\ agents[a].approval \in {"PENDING", "REJECTED"} /\ agents[a].named
  /\ Start(q, [at |-> "papers", key |-> a, mem |-> agents[a]])
  /\ UNCHANGED adata

CheckPapers(q) ==
  /\ At(q, "papers")
  /\ LET r == req[q]
     IN  IF r.key = Me /\ ~(Kept # {} /\ banks > 0) THEN Answer(q)
         ELSE Go(q, Save("agents", r.key, [r.mem EXCEPT !.approval = "APPROVED",
                                                        !.status = "ACTIVE"],
                         "approval"))
  /\ UNCHANGED adata

Reject(q, a) ==
  /\ Start(q, Save("agents", a, [agents[a] EXCEPT !.approval = "REJECTED",
                                                  !.status = "PENDING"],
                   "approval"))
  /\ UNCHANGED adata

\* suspend loads the agent, then counts the ongoing jobs.
Suspend(q, a) ==
  /\ Start(q, [at |-> "count", key |-> a, mem |-> agents[a]])
  /\ UNCHANGED adata

\* Mutant: a job in progress does not stop a suspension.
SuspendBusy(q) ==
  /\ At(q, "count")
  /\ Go(q, Save("agents", req[q].key, [req[q].mem EXCEPT !.status = "SUSPENDED"],
                "status"))
  /\ UNCHANGED adata

CountOngoing(q) ==
  /\ At(q, "count")
  /\ IF Ongoing(req[q].key) # {} THEN Answer(q)
     ELSE Go(q, Save("agents", req[q].key, [req[q].mem EXCEPT !.status = "SUSPENDED"],
                     "status"))
  /\ UNCHANGED adata

Activate(q, a) ==
  /\ agents[a].status = "SUSPENDED" /\ agents[a].approval = "APPROVED"
  /\ Start(q, Save("agents", a, [agents[a] EXCEPT !.status = "ACTIVE"], "status"))
  /\ UNCHANGED adata

-----------------------------------------------------------------------------
(* Jobs: the agent's side.                                                 *)

\* A request of an agent at work: its first step is requireApprovedAgent.
AsAgent(q, a, b, next) ==
  /\ part = "jobs" /\ Working(a)
  /\ Start(q, [at |-> next, a |-> a, b |-> b])
  /\ UNCHANGED adata

\* The second step loads the job, and throws unless it is the agent's.
Mine(q, step, ok, mem) ==
  /\ At(q, step)
  /\ IF bookings[req[q].b].agent = req[q].a /\ ok
     THEN Go(q, Save("bookings", req[q].b, mem, "move")) ELSE Answer(q)
  /\ UNCHANGED adata

\* accept: one conditional UPDATE, then the job is loaded for its transition.
ClaimJob(q) ==
  /\ At(q, "claim")
  /\ LET r == req[q]
     IN  IF bookings[r.b].status = "paid" /\ bookings[r.b].agent = None
         THEN /\ bookings' = [bookings EXCEPT ![r.b].agent = r.a]
              /\ Go(q, [at |-> "reread", b |-> r.b])
         ELSE Answer(q) /\ UNCHANGED bookings
  /\ UNCHANGED <<part, agents, desk, lost>>

\* A transition of the job that was loaded as row.
Move(q, b, row, to) ==
  IF CanTransition(row.status, to)
  THEN Go(q, Save("bookings", b, [row EXCEPT !.status = to], "move"))
  ELSE Answer(q)

AcceptJob(q) ==
  /\ At(q, "reread")
  /\ Move(q, req[q].b, bookings[req[q].b], "accepted")
  /\ UNCHANGED adata

\* reject: the agent gives the job back.
ReleaseJob(q) == LET row == bookings[req[q].b] IN
  Mine(q, "giveUp", row.status \notin PastRelease,
       [row EXCEPT !.agent = None, !.status = "paid"])

StartJob(q) == LET row == bookings[req[q].b] IN
  Mine(q, "begin", row.status \in {"arriving", "accepted"},
       [row EXCEPT !.status = "ongoing"])

CompleteJob(q) == LET row == bookings[req[q].b] IN
  Mine(q, "finish", CanTransition(row.status, "completed"),
       [row EXCEPT !.status = "completed"])

-----------------------------------------------------------------------------
(* Jobs: the others' side.                                                 *)

\* settleBooking: the customer has paid.
Pay(q, b) ==
  /\ part = "jobs" /\ CanTransition(bookings[b].status, "paid")
  /\ Start(q, Save("bookings", b, [bookings[b] EXCEPT !.status = "paid"], "move"))
  /\ UNCHANGED adata

\* cancel, by customer or admin.
Cancel(q, b) ==
  /\ part = "jobs" /\ CanTransition(bookings[b].status, "cancelled")
  /\ Start(q, Save("bookings", b, [bookings[b] EXCEPT !.status = "cancelled"], "move"))
  /\ UNCHANGED adata

\* reschedule, by the customer: nobody looks at the agent's calendar.
Reschedule(q, b) ==
  /\ part = "jobs" /\ bookings[b].status \in Reschedulable
  /\ \E start \in Starts \ {bookings[b].start} :
       Start(q, Save("bookings", b, [bookings[b] EXCEPT !.start = start], "move"))
  /\ UNCHANGED adata

\* assignAgent and reassignAgent load the job, then the agent.
Assigning(q, b, mem) ==
  /\ part = "jobs"
  /\ Start(q, [at |-> "candidate", a |-> mem.agent, b |-> b, mem |-> mem])
  /\ UNCHANGED adata

\* A paid job becomes accepted with its agent; any other keeps its status.
Assign(q, b, a) == LET row == bookings[b] IN
  /\ row.status \in Assignable
  /\ Assigning(q, b, [row EXCEPT !.agent = a,
                                 !.status = IF @ = "paid" THEN "accepted" ELSE @])

Reassign(q, b, a) == LET row == bookings[b] IN
  /\ row.status \notin PastRelease /\ row.agent \notin {None, a}
  /\ Assigning(q, b, [row EXCEPT !.agent = a])

\* requireAssignableAgent.
CheckCandidate(q) ==
  /\ At(q, "candidate")
  /\ IF Working(req[q].a) THEN Go(q, [req[q] EXCEPT !.at = "clash"]) ELSE Answer(q)
  /\ UNCHANGED adata

\* assertNoClash.  The window of the job to assign ends at midnight at the
\* latest; the end of another job is a time of day, which wraps at midnight.
WindowEnd(start) == IF start + Duration >= DayEnd THEN DayEnd - 1 ELSE start + Duration
TimeEnd(start)   == (start + Duration) % DayEnd

\* Mutant: jobs that start earlier are not looked at.
ClashLaterOnly(b, row, a) ==
  {c \in Bookings \ {b} :
     /\ bookings[c].agent = a /\ bookings[c].status \in ActiveStatus
     /\ bookings[c].start < WindowEnd(row.start)
     /\ bookings[c].start >= row.start}

\* The jobs that stand in the way of giving a the job b, loaded as row.
Clash(b, row, a) ==
  {c \in Bookings \ {b} :
     /\ bookings[c].agent = a /\ bookings[c].status \in ActiveStatus
     /\ bookings[c].start < WindowEnd(row.start)
     /\ TimeEnd(bookings[c].start) > row.start}

CheckClash(q) ==
  /\ At(q, "clash")
  /\ LET r == req[q]
     IN  IF Clash(r.b, r.mem, r.a) # {} THEN Answer(q)
         ELSE Go(q, Save("bookings", r.b, r.mem, "assign"))
  /\ UNCHANGED adata

Crash(q) == Die(q) /\ UNCHANGED adata

-----------------------------------------------------------------------------
RegistrationRoutes(q) == \E a \in Followed : Register(q, a)
ProfileRoutes(q)      == \E a \in Followed : EditProfile(q, a)
SkillRoutes(q)        == \E a \in Followed : SetBoost(q, a)
LocationRoutes(q)     == \E a \in Followed : Ping(q, a)
DocumentRoutes(q)     == UploadDocument(q) \/ ReplaceDocument(q) \/ RemoveDocument(q)
BankRoutes(q)         == SaveBank(q)
AttendanceRoutes(q)   == CheckIn(q) \/ CheckOut(q)
AvailabilityRoutes(q) == UpdateAvailability(q)

\* The admins' side.
AgentRoutes(q) ==
  \/ VerifyDocument(q)
  \/ \E a \in Followed : AssignZones(q, a) \/ Approve(q, a) \/ Reject(q, a)
                           \/ Suspend(q, a) \/ Activate(q, a)

JobRoutes(q) ==
  \/ \E a \in Agent, b \in Bookings, step \in {"claim", "giveUp", "begin", "finish"} :
       AsAgent(q, a, b, step)
  \/ \E b \in Bookings : Pay(q, b) \/ Cancel(q, b) \/ Reschedule(q, b)
                           \/ \E a \in Agent : Assign(q, b, a) \/ Reassign(q, b, a)

Statement(q) ==
  \/ InsertDocument(q) \/ DeleteDocument(q) \/ InsertBank(q) \/ InsertPing(q)
  \/ InsertAttendance(q) \/ CloseAttendance(q) \/ InsertAvailability(q)
  \/ CheckPapers(q) \/ CountOngoing(q) \/ SelectRow(q) \/ UpdateRow(q)
  \/ ClaimJob(q) \/ AcceptJob(q) \/ ReleaseJob(q) \/ StartJob(q) \/ CompleteJob(q)
  \/ CheckCandidate(q) \/ CheckClash(q)

Next == \E q \in Requests :
  \/ RegistrationRoutes(q) \/ ProfileRoutes(q) \/ SkillRoutes(q) \/ LocationRoutes(q)
  \/ DocumentRoutes(q) \/ BankRoutes(q) \/ AttendanceRoutes(q) \/ AvailabilityRoutes(q)
  \/ AgentRoutes(q) \/ JobRoutes(q) \/ Statement(q) \/ Crash(q)
  \/ \E a \in Followed : BackfillAgent(q, a)

Spec == Init /\ [][Next]_vars

-----------------------------------------------------------------------------
(* Properties.                                                             *)

\* What an admin has decided about an agent or a document stands until an
\* admin decides again; each overlap costs at most one decision.
DecisionsKept == lost <= overlaps

\* "Wait for it to finish before suspending": a suspended agent has no job
\* in progress, which could not be completed; each overlap leaves at most one.
SuspendedIdle ==
  Cardinality({b \in Bookings : /\ bookings[b].status = "ongoing"
                                /\ bookings[b].agent # None
                                /\ agents[bookings[b].agent].status = "SUSPENDED"})
    <= overlaps

\* Two jobs of one agent that cannot both be done.  One that lasts beyond
\* midnight is left out: assertNoClash does not see its end.
Collide(b, c) ==
  /\ bookings[b].start < bookings[c].start + Duration
  /\ bookings[c].start < bookings[b].start + Duration
  /\ bookings[c].start + Duration < DayEnd

\* "The agent must be ... free for the slot": an admin's assignment puts no
\* job beside another one of the agent, unless a request overlaps.
AssignmentFits ==
  [][\A q \in Requests :
       At(q, "update") /\ req[q].table = "bookings" /\ req[q].op = "assign"
         /\ ~At(q, "update")' /\ deaths' = deaths /\ overlaps = 0 =>
       \A c \in Bookings \ {req[q].key} :
         bookings[c].agent = req[q].mem.agent /\ bookings[c].status \in ActiveStatus
           => ~Collide(req[q].key, c)]_vars

\* "Upsert by hand": the desk tables without a unique index have one row for
\* the agent's document type, attendance and availability, plus at most one
\* for every overlap.
OneRowEach ==
  /\ Cardinality(Kept) <= 1 + overlaps
  /\ Len(attendance) <= 1 + overlaps
  /\ availability <= 1 + overlaps
=============================================================================
