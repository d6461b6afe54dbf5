-------------------------- MODULE ServiceExecution --------------------------
(***************************************************************************)
(* What an agent does at one booking besides its status: the checklist,    *)
(* with its phases and items, and the execution record with its            *)
(* milestones, the settlement, the feedback request and, once it is done,  *)
(* the customer's rating.  The checklist is copied from templates that     *)
(* every process seeds when it boots and finds none.  No row of the        *)
(* checklist is shared with the execution's, so a behaviour is about one   *)
(* of the two.                                                             *)
(*                                                                         *)
(* Every handler looks for its row and inserts it if there is none; no     *)
(* table has a unique index.  findOne returns any of several rows.         *)
(***************************************************************************)
EXTENDS Server, Sequences, FiniteSets

CONSTANTS
  Items,          \* items of the booking's service type
  PhaseOf,        \* the phase an item belongs to
  Seeds,          \* templates and items, in the order they are seeded
  MaxMilestones   \* bound: milestones logged, settlements initialised, ratings given

Phase == {"PRE_SERVICE", "DURING_SERVICE", "POST_SERVICE"}
After == [PRE_SERVICE |-> "DURING_SERVICE", DURING_SERVICE |-> "POST_SERVICE"]

\* A template is seeded before its items, and each once; templates of other
\* service types are seeds, too.
ASSUME ExecutionAssumption ==
  /\ IsFiniteSet(Items)
  /\ PhaseOf \in [Items -> Phase]
  /\ Seeds \in Seq({Seeds[n] : n \in DOMAIN Seeds})
  /\ \A m, n \in DOMAIN Seeds : Seeds[m] = Seeds[n] => m = n
  /\ Items \cup Phase \subseteq {Seeds[n] : n \in DOMAIN Seeds}
  /\ Seeds[1] \notin Items
  /\ MaxMilestones \in Nat

Seed   == {Seeds[n] : n \in DOMAIN Seeds}
Status == {"PENDING", "IN_PROGRESS"}
Row    == [phase: Phase, status: Status, percent: 0..100]
Item   == [item: Items, done: BOOLEAN]
Column == {"phase", "status", "percent"}
Rating == {"plain", "reviewed", "removed"}

VARIABLES
  part,        \* what the behaviour is about
  up,          \* has a process come up?
  catalogue,   \* service_checklists and checklist_items
  progress,    \* booking_checklist_progress rows of the booking
  items,       \* checklist_item_progress rows of each of them
  executions,  \* booking_service_execution: how many milestones each row has
  settlements, \* how many booking_settlement rows there are
  feedback,    \* how many booking_customer_feedback rows there are
  ratings,     \* ratings the customer has given it, with a review or without
  logged       \* milestones the agent has been told are logged

checklist == <<catalogue, progress, items>>
execution == <<executions, settlements, feedback, ratings, logged>>
edata     == <<part, up, checklist, execution>>
vars      == <<server, edata>>

\* A request's step and memory.
Step ==
  {Idle}
    \cup [at: {"seed"}, n: DOMAIN Seeds]
    \cup [at: {"insertProgress", "insertExecution", "insertSettlement",
               "insertFeedback", "insertRating"}]
    \cup [at: {"addItems"}, p: Nat \ {0}, phase: Phase]
    \cup [at: {"saveItem"}, p: Nat \ {0}, j: Nat \ {0}, done: BOOLEAN]
    \cup [at: {"count"}, p: Nat \ {0}]
    \cup [at: {"writePercent"}, p: Nat \ {0}, percent: 0..100]
    \cup [at: {"select", "update"}, p: Nat \ {0}, mem: Row, dirty: SUBSET Column]
    \cup [at: {"milestone"}, e: Nat \ {0}, count: Nat]
    \cup [at: {"insertReview", "unreview", "unrate"}, i: Nat \ {0}]

TypeOK ==
  /\ part \in {"checklist", "execution"} /\ up \in BOOLEAN
  /\ catalogue \subseteq Seed
  /\ progress \in Seq(Row) /\ items \in Seq(Seq(Item))
  /\ DOMAIN items = DOMAIN progress
  /\ executions \in Seq(Nat)
  /\ settlements \in Nat /\ feedback \in Nat /\ ratings \in Seq(Rating) /\ logged \in Nat
  /\ req \in [Requests -> Step] /\ overlaps \in Nat /\ deaths \in Nat

Init ==
  /\ ServerInit
  /\ part \in {"checklist", "execution"} /\ up = FALSE
  /\ catalogue = {} /\ progress = <<>> /\ items = <<>>
  /\ executions = <<>> /\ settlements = 0 /\ feedback = 0 /\ ratings = <<>> /\ logged = 0

-----------------------------------------------------------------------------
(* Booting.                                                                *)

\* onModuleInit, awaited before the process serves requests: nothing to seed
\* if there is any template.
Boot(q) ==
  /\ part = "checklist"
  /\ IF catalogue = {}
     THEN Start(q, [at |-> "seed", n |-> 1]) /\ UNCHANGED up
     ELSE ~up /\ up' = TRUE /\ UNCHANGED server
  /\ UNCHANGED <<part, checklist, execution>>

\* One template or item after the other.  A template that another process
\* has seeded meanwhile is refused; the error is logged and the process
\* comes up.
SeedNext(q) ==
  /\ At(q, "seed")
  /\ LET n == req[q].n
         refused == Seeds[n] \notin Items /\ Seeds[n] \in catalogue
     IN  IF refused \/ n = Len(Seeds)
         THEN /\ Answer(q) /\ up' = TRUE
              /\ catalogue' = catalogue \cup {Seeds[n]}
         ELSE /\ Go(q, [req[q] EXCEPT !.n = n + 1]) /\ UNCHANGED up
              /\ catalogue' = catalogue \cup {Seeds[n]}
  /\ UNCHANGED <<part, progress, items, execution>>

-----------------------------------------------------------------------------
(* The checklist.                                                          *)

Serving(which) == part = which /\ up

\* accept, or the first look at the checklist if accept failed to: the
\* booking has no checklist yet.
OpenChecklist(q) ==
  /\ Serving("checklist") /\ progress = <<>>
  /\ Start(q, [at |-> "insertProgress"])
  /\ UNCHANGED <<part, up, checklist, execution>>

InsertProgress(q) ==
  /\ At(q, "insertProgress")
  /\ progress' = Append(progress, [phase |-> "PRE_SERVICE", status |-> "PENDING",
                                   percent |-> 0])
  /\ items' = Append(items, <<>>)
  /\ Go(q, [at |-> "addItems", p |-> Len(progress) + 1, phase |-> "PRE_SERVICE"])
  /\ UNCHANGED <<part, up, catalogue, execution>>

\* The items of a phase's template, as far as it is seeded.
TemplateItems(phase) ==
  {i \in Items : PhaseOf[i] = phase /\ phase \in catalogue /\ i \in catalogue}

\* They come in some order, which nothing depends on.
Listed(S) == CHOOSE s \in [1..Cardinality(S) -> S] :
               \A m, n \in DOMAIN s : s[m] = s[n] => m = n

\* Mutant: moving on adds no items.
AddOnlyFirstItems(q) ==
  /\ At(q, "addItems")
  /\ LET r == req[q]
         new == IF r.phase = "PRE_SERVICE" THEN TemplateItems(r.phase) ELSE {}
     IN  items' = [items EXCEPT ![r.p] =
           @ \o [n \in 1..Cardinality(new) |->
                   [item |-> Listed(new)[n], done |-> FALSE]]]
  /\ Answer(q)
  /\ UNCHANGED <<part, up, catalogue, progress, execution>>

\* initializePhaseItems.
AddItems(q) ==
  /\ At(q, "addItems")
  /\ LET r == req[q]  new == TemplateItems(r.phase)
     IN  items' = [items EXCEPT ![r.p] =
           @ \o [n \in 1..Cardinality(new) |->
                   [item |-> Listed(new)[n], done |-> FALSE]]]
  /\ Answer(q)
  /\ UNCHANGED <<part, up, catalogue, progress, execution>>

\* completeChecklistItem, uncompleteChecklistItem: an item of the checklist,
\* of whatever phase.
TickItem(q) ==
  /\ Serving("checklist")
  /\ \E p \in DOMAIN progress : \E j \in DOMAIN items[p], done \in BOOLEAN :
       Start(q, [at |-> "saveItem", p |-> p, j |-> j, done |-> done])
  /\ UNCHANGED <<part, up, checklist, execution>>

SaveItem(q) ==
  /\ At(q, "saveItem")
  /\ items' = [items EXCEPT ![req[q].p][req[q].j].done = req[q].done]
  /\ Go(q, [at |-> "count", p |-> req[q].p])
  /\ UNCHANGED <<part, up, catalogue, progress, execution>>

DoneOf(s) == {j \in DOMAIN s : s[j].done}

\* Math.round of the share that is done, in percent.
Percentage(s) == (200 * Cardinality(DoneOf(s)) + Len(s)) \div (2 * Len(s))

\* updateCompletionPercentage: count the items, then write the percentage.
CountItems(q) ==
  /\ At(q, "count")
  /\ Go(q, [at |-> "writePercent", p |-> req[q].p,
            percent |-> Percentage(items[req[q].p])])
  /\ UNCHANGED <<part, up, checklist, execution>>

WritePercent(q) ==
  /\ At(q, "writePercent")
  /\ progress' = [progress EXCEPT ![req[q].p].percent = req[q].percent]
  /\ Answer(q)
  /\ UNCHANGED <<part, up, catalogue, items, execution>>

Entering(row) == [row EXCEPT !.phase = After[row.phase], !.status = "IN_PROGRESS"]

\* moveToNextPhase, called for itself or on arrival: nothing is checked.
MoveOn(q) ==
  /\ Serving("checklist")
  /\ \E p \in DOMAIN progress :
       /\ progress[p].phase # "POST_SERVICE"
       /\ Start(q, [at |-> "select", p |-> p, mem |-> Entering(progress[p]),
                    dirty |-> {}])
  /\ UNCHANGED <<part, up, checklist, execution>>

\* After the save the items of the phase entered are added.
Saved(q) == Go(q, [at |-> "addItems", p |-> req[q].p, phase |-> req[q].mem.phase])

\* TypeORM save(progress): SELECT and compare, UPDATE what differs.
SelectProgress(q) ==
  /\ At(q, "select")
  /\ LET diff == {c \in Column : progress[req[q].p][c] # req[q].mem[c]}
     IN  IF diff = {} THEN Saved(q)
         ELSE Go(q, [req[q] EXCEPT !.at = "update", !.dirty = diff])
  /\ UNCHANGED <<part, up, checklist, execution>>

UpdateProgress(q) ==
  /\ At(q, "update")
  /\ progress' = [progress EXCEPT ![req[q].p] =
       [c \in Column |-> IF c \in req[q].dirty THEN req[q].mem[c] ELSE @[c]]]
  /\ Saved(q)
  /\ UNCHANGED <<part, up, catalogue, items, execution>>

-----------------------------------------------------------------------------
(* The execution, its settlement and its feedback.                         *)

Find(q, there, next) ==
  /\ part = "execution" /\ ~there
  /\ Start(q, [at |-> next])
  /\ UNCHANGED <<part, up, checklist, execution>>

\* Mutant: a service can be started any number of times.
StartAgain(q) == Find(q, Len(executions) > 2, "insertExecution")

\* onServiceStarted, unless the service has been started.
StartService(q) == Find(q, executions # <<>>, "insertExecution")

InsertExecution(q) ==
  /\ At(q, "insertExecution")
  /\ executions' = Append(executions, 0)
  /\ Answer(q)
  /\ UNCHANGED <<part, up, checklist, settlements, feedback, ratings, logged>>

\* logServiceMilestone loads the array.
LogMilestone(q) ==
  /\ part = "execution" /\ logged < MaxMilestones
  /\ \E e \in DOMAIN executions :
       Start(q, [at |-> "milestone", e |-> e, count |-> executions[e]])
  /\ UNCHANGED <<part, up, checklist, execution>>

\* Mutant: the milestone replaces the last one.
ReplaceMilestone(q) ==
  /\ At(q, "milestone")
  /\ executions' = [executions EXCEPT ![req[q].e] = 1]
  /\ logged' = logged + 1
  /\ Answer(q)
  /\ UNCHANGED <<part, up, checklist, settlements, feedback, ratings>>

\* It writes the array it has loaded, with the milestone appended.
WriteMilestones(q) ==
  /\ At(q, "milestone")
  /\ executions' = [executions EXCEPT ![req[q].e] = req[q].count + 1]
  /\ logged' = logged + 1
  /\ Answer(q)
  /\ UNCHANGED <<part, up, checklist, settlements, feedback, ratings>>

\* initializePayment looks for no settlement before it adds one.
InitializePayment(q) == Find(q, settlements >= MaxMilestones, "insertSettlement")

InsertSettlement(q) ==
  /\ At(q, "insertSettlement")
  /\ settlements' = settlements + 1
  /\ Answer(q)
  /\ UNCHANGED <<part, up, checklist, executions, feedback, ratings, logged>>

\* requestCustomerFeedback.
RequestFeedback(q) == Find(q, feedback > 0, "insertFeedback")

InsertFeedback(q) ==
  /\ At(q, "insertFeedback")
  /\ feedback' = feedback + 1
  /\ Answer(q)
  /\ UNCHANGED <<part, up, checklist, executions, settlements, ratings, logged>>

\* Ratings that no admin has removed.
Given == {i \in DOMAIN ratings : ratings[i] # "removed"}

\* The customer's ratings.create, of a completed booking ...
Rate(q) == Find(q, Given # {} \/ Len(ratings) >= MaxMilestones, "insertRating")

\* ... which may have a review.
InsertRating(q) ==
  /\ At(q, "insertRating")
  /\ ratings' = Append(ratings, "plain")
  /\ \/ Answer(q)
     \/ Go(q, [at |-> "insertReview", i |-> Len(ratings) + 1])
  /\ UNCHANGED <<part, up, checklist, executions, settlements, feedback, logged>>

\* Refused if the rating has been removed.
InsertReview(q) ==
  /\ At(q, "insertReview")
  /\ ratings' = [ratings EXCEPT ![req[q].i] = IF @ = "plain" THEN "reviewed" ELSE @]
  /\ Answer(q)
  /\ UNCHANGED <<part, up, checklist, executions, settlements, feedback, logged>>

\* An admin's ratings.remove: "reviews go first because they point at the
\* rating row".
RemoveRating(q) ==
  /\ part = "execution"
  /\ \E i \in Given : Start(q, [at |-> "unreview", i |-> i])
  /\ UNCHANGED <<part, up, checklist, execution>>

DeleteReviews(q) ==
  /\ At(q, "unreview")
  /\ ratings' = [ratings EXCEPT ![req[q].i] = IF @ = "reviewed" THEN "plain" ELSE @]
  /\ Go(q, [req[q] EXCEPT !.at = "unrate"])
  /\ UNCHANGED <<part, up, checklist, executions, settlements, feedback, logged>>

\* Refused if a review has come in.
DeleteRating(q) ==
  /\ At(q, "unrate")
  /\ ratings' = [ratings EXCEPT ![req[q].i] = IF @ = "plain" THEN "removed" ELSE @]
  /\ Answer(q)
  /\ UNCHANGED <<part, up, checklist, executions, settlements, feedback, logged>>

Crash(q) == Die(q) /\ UNCHANGED <<part, up, checklist, execution>>

-----------------------------------------------------------------------------
\* The routes of the agent's bookings controller, and of both rating controllers.
\* The one that completes a phase is never reached: the route that completes an
\* item is declared before it, takes `phase` for the item, and refuses it.
ChecklistRoutes(q) == OpenChecklist(q) \/ TickItem(q) \/ MoveOn(q)
ExecutionRoutes(q) ==
  StartService(q) \/ LogMilestone(q) \/ InitializePayment(q) \/ RequestFeedback(q)
RatingRoutes(q)     == Rate(q)
ModerationRoutes(q) == RemoveRating(q)

Next == \E q \in Requests :
  \/ Boot(q) \/ ChecklistRoutes(q) \/ ExecutionRoutes(q)
  \/ RatingRoutes(q) \/ ModerationRoutes(q)
  \/ SeedNext(q) \/ InsertProgress(q) \/ AddItems(q) \/ SaveItem(q) \/ CountItems(q)
  \/ WritePercent(q) \/ SelectProgress(q) \/ UpdateProgress(q)
  \/ InsertExecution(q) \/ WriteMilestones(q) \/ InsertSettlement(q) \/ InsertFeedback(q)
  \/ InsertRating(q) \/ InsertReview(q) \/ DeleteReviews(q) \/ DeleteRating(q)
  \/ Crash(q)

Spec == Init /\ [][Next]_vars

-----------------------------------------------------------------------------
(* Properties.                                                             *)

Copies(p, i) == {j \in DOMAIN items[p] : items[p][j].item = i}

\* A booking has one checklist, one execution, one feedback row and one rating,
\* and a checklist each item once, plus at most one for every overlap.
OncePerBooking ==
  /\ Len(progress) <= 1 + overlaps
  /\ Len(executions) <= 1 + overlaps
  /\ feedback <= 1 + overlaps
  /\ Cardinality(Given) <= 1 + overlaps
  /\ \A p \in DOMAIN progress, i \in Items :
       Cardinality(Copies(p, i)) <= 1 + overlaps

Entered(row) ==
  CASE row.phase = "PRE_SERVICE"    -> {"PRE_SERVICE"}
    [] row.phase = "DURING_SERVICE" -> {"PRE_SERVICE", "DURING_SERVICE"}
    [] row.phase = "POST_SERVICE"   -> Phase

\* "Bookings always have a checklist to initialize instead of silently
\* getting an empty one": every item of every phase entered is there, unless
\* a process died, or two processes booted at once.
ChecklistWhole ==
  Quiet /\ deaths = 0 /\ overlaps = 0 =>
    \A p \in DOMAIN progress, i \in Items :
      PhaseOf[i] \in Entered(progress[p]) => Copies(p, i) # {}

Total(s) ==
  LET sum[n \in 0..Len(s)] == IF n = 0 THEN 0 ELSE sum[n - 1] + s[n]
  IN  sum[Len(s)]

\* A milestone the agent has been told is logged is in the table; each
\* overlap loses at most one.
MilestonesKept == logged <= Total(executions) + overlaps
=============================================================================
