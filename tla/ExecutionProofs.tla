--------------------------- MODULE ExecutionProofs ---------------------------
(***************************************************************************)
(* Theorems about the checklist and the execution of one booking, for any  *)
(* number of requests, overlaps and deaths: the types first, then the      *)
(* invariants behind the properties.                                       *)
(***************************************************************************)
EXTENDS ServiceExecution, ServerProofs, FunctionTheorems, NaturalsInduction,
        WellFoundedInduction

-----------------------------------------------------------------------------
(* Service execution: types.                                               *)

ExecRows ==
  /\ part \in {"checklist", "execution"} /\ up \in BOOLEAN
  /\ catalogue \subseteq Seed
  /\ progress \in Seq(Row) /\ items \in Seq(Seq(Item)) /\ Len(items) = Len(progress)
  /\ executions \in Seq(Nat)
  /\ settlements \in Nat /\ feedback \in Nat /\ ratings \in Seq(Rating) /\ logged \in Nat

\* The steps about a checklist.
Listing == {"addItems", "saveItem", "count", "writePercent", "select", "update"}

\* What a request is about is there; a checklist with a percentage has items,
\* and no checklist is saved as it was at first.
Aimed(r) ==
  /\ r.at \in Listing => r.p \in DOMAIN progress
  /\ r.at = "saveItem" => r.j \in DOMAIN items[r.p]
  /\ r.at = "count" => Len(items[r.p]) # 0
  /\ r.at \in {"select", "update"} => r.mem.phase # "PRE_SERVICE"
  /\ r.at = "milestone" => r.e \in DOMAIN executions
  /\ r.at \in {"insertReview", "unreview", "unrate"} => r.i \in DOMAIN ratings

ExecInv == ExecRows /\ ServerTyped(Step) /\ \A q \in Requests : Aimed(req[q])

LEMMA ExecTypes ==
  ASSUME ExecInv
  PROVE  TypeOK
BY DEF ExecInv, ExecRows, ServerTyped, TypeOK

\* A request that has just arrived.
ExecComes(r) ==
  /\ r \in Step /\ Aimed(r)
  /\ r.at \in {"seed", "insertProgress", "saveItem", "select", "insertExecution",
               "milestone", "insertSettlement", "insertFeedback", "insertRating", "unreview"}
  /\ r.at = "seed" => catalogue = {} /\ r.n = 1
  /\ r.at \in Listing \cup {"insertProgress"} => up
  /\ r.at = "insertProgress" => progress = <<>>
  /\ r.at = "select" => progress[r.p].phase # "POST_SERVICE" /\ r.mem = Entering(progress[r.p])
                        /\ r.dirty = {}
  /\ r.at = "insertExecution" => executions = <<>>
  /\ r.at = "milestone" => r.count = executions[r.e]
  /\ r.at = "insertFeedback" => feedback = 0
  /\ r.at = "insertRating" => Given = {}

ExecArrives(q) ==
  \/ Boot(q) \/ ChecklistRoutes(q) \/ ExecutionRoutes(q) \/ RatingRoutes(q)
  \/ ModerationRoutes(q)

\* A process comes up without anything to seed.
ComesUp == catalogue # {} /\ up' = TRUE /\ UNCHANGED <<server, part, checklist, execution>>

LEMMA EnteringTyped ==
  ASSUME NEW row \in Row, row.phase # "POST_SERVICE"
  PROVE  /\ Entering(row) \in Row /\ Entering(row).phase = After[row.phase]
         /\ Entering(row).phase # "PRE_SERVICE" /\ Entering(row).status = "IN_PROGRESS"
         /\ Entering(row).percent = row.percent
         /\ row.phase = "PRE_SERVICE" => Entering(row).phase = "DURING_SERVICE"
         /\ row.phase = "DURING_SERVICE" => Entering(row).phase = "POST_SERVICE"
<1>1. PICK o : o = [row EXCEPT !.phase = After[row.phase]]
  OBVIOUS
<1>2. PICK n : n = [o EXCEPT !.status = "IN_PROGRESS"]
  OBVIOUS
<1>3. n = Entering(row)
  BY <1>1, <1>2 DEF Entering
<1>4. row = [phase |-> row.phase, status |-> row.status, percent |-> row.percent]
      /\ row.phase \in {"PRE_SERVICE", "DURING_SERVICE"} /\ row.percent \in 0..100
  BY DEF Row, Phase
<1>5. o = [phase |-> After[row.phase], status |-> row.status, percent |-> row.percent]
  BY <1>1, <1>4
<1>6. n = [phase |-> After[row.phase], status |-> "IN_PROGRESS", percent |-> row.percent]
  BY <1>2, <1>5
<1>7. /\ row.phase = "PRE_SERVICE" => After[row.phase] = "DURING_SERVICE"
      /\ row.phase = "DURING_SERVICE" => After[row.phase] = "POST_SERVICE"
  BY DEF After
<1>8. n.phase = After[row.phase] /\ n.status = "IN_PROGRESS" /\ n.percent = row.percent
  BY <1>6
<1>9. n \in Row
  BY <1>4, <1>6, <1>7 DEF Row, Phase, Status
<1>10. QED
  BY <1>3, <1>4, <1>7, <1>8, <1>9

LEMMA FoundNone ==
  ASSUME NEW q \in Requests, NEW there, NEW next, Find(q, there, next),
         next \in {"insertExecution", "insertSettlement", "insertFeedback", "insertRating"},
         next = "insertExecution" /\ ~there => executions = <<>>,
         next = "insertFeedback" /\ ~there => feedback = 0,
         next = "insertRating" /\ ~there => Given = {}
  PROVE  /\ UNCHANGED <<part, up, checklist, execution>>
         /\ \E r : ExecComes(r) /\ Start(q, r)
<1>1. PICK r : r = [at |-> next]
  OBVIOUS
<1>2. ~there /\ Start(q, r) /\ UNCHANGED <<part, up, checklist, execution>>
  BY <1>1 DEF Find
<1>3. r \in Step /\ r.at = next
  BY <1>1 DEF Step
<1>4. Aimed(r)
  BY <1>3 DEF Aimed, Listing
<1>5. r.at \notin Listing \cup {"insertProgress"}
  BY <1>3 DEF Listing
<1>6. ExecComes(r)
  BY <1>2, <1>3, <1>4, <1>5 DEF ExecComes
<1>7. QED
  BY <1>2, <1>6

LEMMA SeedsAre ==
  ASSUME ExecutionAssumption
  PROVE  /\ Seeds \in Seq(Seed) /\ DOMAIN Seeds = 1..Len(Seeds) /\ Len(Seeds) \in Nat
         /\ 1 \in DOMAIN Seeds
<1>1. Seeds \in Seq(Seed)
  BY DEF ExecutionAssumption, Seed
<1>2. Phase \subseteq Seed /\ "PRE_SERVICE" \in Phase
  BY DEF ExecutionAssumption, Seed, Phase
<1>3. PICK n \in DOMAIN Seeds : TRUE
  BY <1>2 DEF Seed
<1>4. QED
  BY <1>1, <1>3

LEMMA ChecklistsAre ==
  ASSUME ExecInv
  PROVE  /\ DOMAIN progress = 1..Len(progress) /\ Len(progress) \in Nat
         /\ DOMAIN items = DOMAIN progress
         /\ \A p \in DOMAIN progress : /\ p \in Nat \ {0} /\ progress[p] \in Row
                                      /\ items[p] \in Seq(Item)
                                      /\ DOMAIN items[p] = 1..Len(items[p])
                                      /\ DOMAIN items[p] \subseteq Nat \ {0}
BY DEF ExecInv, ExecRows

LEMMA ExecArrived ==
  ASSUME ExecInv, ExecutionAssumption, NEW q \in Requests, ExecArrives(q)
  PROVE  \/ ComesUp
         \/ /\ UNCHANGED <<part, up, checklist, execution>>
            /\ \E r : ExecComes(r) /\ Start(q, r)
<1>1. CASE Boot(q)
  <2>1. CASE catalogue = {}
    <3>1. PICK r : r = [at |-> "seed", n |-> 1]
      OBVIOUS
    <3>2. Start(q, r) /\ UNCHANGED <<part, up, checklist, execution>>
      BY <1>1, <2>1, <3>1 DEF Boot
    <3>3. 1 \in DOMAIN Seeds
      BY SeedsAre
    <3>4. r \in Step /\ r.at = "seed" /\ r.n = 1
      BY <3>1, <3>3 DEF Step
    <3>5. ExecComes(r)
      BY <2>1, <3>4 DEF ExecComes, Aimed, Listing
    <3>6. QED
      BY <3>2, <3>5
  <2>2. CASE catalogue # {}
    BY <1>1, <2>2 DEF Boot, ComesUp
  <2>3. QED
    BY <2>1, <2>2
<1>2. CASE OpenChecklist(q)
  <2>1. PICK r : r = [at |-> "insertProgress"]
    OBVIOUS
  <2>2. Start(q, r) /\ UNCHANGED <<part, up, checklist, execution>> /\ progress = <<>> /\ up
    BY <1>2, <2>1 DEF OpenChecklist, Serving
  <2>3. r \in Step /\ r.at = "insertProgress"
    BY <2>1 DEF Step
  <2>4. ExecComes(r)
    BY <2>2, <2>3 DEF ExecComes, Aimed, Listing
  <2>5. QED
    BY <2>2, <2>4
<1>3. CASE TickItem(q)
  <2>1. PICK p \in DOMAIN progress : \E j \in DOMAIN items[p], done \in BOOLEAN :
          Start(q, [at |-> "saveItem", p |-> p, j |-> j, done |-> done])
    BY <1>3 DEF TickItem
  <2>2. PICK j \in DOMAIN items[p], done \in BOOLEAN :
          Start(q, [at |-> "saveItem", p |-> p, j |-> j, done |-> done])
    BY <2>1
  <2>3. PICK r : r = [at |-> "saveItem", p |-> p, j |-> j, done |-> done]
    OBVIOUS
  <2>4. p \in Nat \ {0} /\ j \in Nat \ {0}
    BY ChecklistsAre
  <2>5. r \in Step /\ r.at = "saveItem" /\ r.p = p /\ r.j = j
    BY <2>3, <2>4 DEF Step
  <2>6. ExecComes(r)
    BY <1>3, <2>5 DEF ExecComes, Aimed, Listing, TickItem, Serving
  <2>7. QED
    BY <1>3, <2>2, <2>3, <2>6 DEF TickItem
<1>4. CASE MoveOn(q)
  <2>1. PICK p \in DOMAIN progress :
          /\ progress[p].phase # "POST_SERVICE"
          /\ Start(q, [at |-> "select", p |-> p, mem |-> Entering(progress[p]), dirty |-> {}])
    BY <1>4 DEF MoveOn
  <2>2. PICK r : r = [at |-> "select", p |-> p, mem |-> Entering(progress[p]), dirty |-> {}]
    OBVIOUS
  <2>3. p \in Nat \ {0} /\ progress[p] \in Row
    BY ChecklistsAre
  <2>4. Entering(progress[p]) \in Row /\ Entering(progress[p]).phase # "PRE_SERVICE"
    BY <2>1, <2>3, EnteringTyped
  <2>5. /\ r \in Step /\ r.at = "select" /\ r.p = p /\ r.mem = Entering(progress[p])
        /\ r.dirty = {}
    BY <2>2, <2>3, <2>4 DEF Step
  <2>6. ExecComes(r)
    BY <1>4, <2>1, <2>4, <2>5 DEF ExecComes, Aimed, Listing, MoveOn, Serving
  <2>7. QED
    BY <1>4, <2>1, <2>2, <2>6 DEF MoveOn
<1>6. CASE StartService(q)
  BY <1>6, FoundNone DEF StartService
<1>7. CASE InitializePayment(q)
  BY <1>7, FoundNone DEF InitializePayment
<1>8. CASE RequestFeedback(q)
  <2>1. ~(feedback > 0) => feedback = 0
    BY DEF ExecInv, ExecRows
  <2>2. QED
    BY <1>8, <2>1, FoundNone DEF RequestFeedback
<1>9. CASE Rate(q)
  BY <1>9, FoundNone DEF Rate
<1>10. CASE LogMilestone(q)
  <2>1. PICK e \in DOMAIN executions :
          Start(q, [at |-> "milestone", e |-> e, count |-> executions[e]])
    BY <1>10 DEF LogMilestone
  <2>2. PICK r : r = [at |-> "milestone", e |-> e, count |-> executions[e]]
    OBVIOUS
  <2>3. e \in Nat \ {0} /\ executions[e] \in Nat
    BY DEF ExecInv, ExecRows
  <2>4. r \in Step /\ r.at = "milestone" /\ r.e = e /\ r.count = executions[e]
    BY <2>2, <2>3 DEF Step
  <2>5. ExecComes(r)
    BY <2>4 DEF ExecComes, Aimed, Listing
  <2>6. QED
    BY <1>10, <2>1, <2>2, <2>5 DEF LogMilestone
<1>11. CASE RemoveRating(q)
  <2>1. PICK i \in Given : Start(q, [at |-> "unreview", i |-> i])
    BY <1>11 DEF RemoveRating
  <2>2. PICK r : r = [at |-> "unreview", i |-> i]
    OBVIOUS
  <2>3. i \in Nat \ {0} /\ i \in DOMAIN ratings
    BY DEF ExecInv, ExecRows, Given
  <2>4. r \in Step /\ r.at = "unreview" /\ r.i = i
    BY <2>2, <2>3 DEF Step
  <2>5. ExecComes(r)
    BY <2>3, <2>4 DEF ExecComes, Aimed, Listing
  <2>6. QED
    BY <1>11, <2>1, <2>2, <2>5 DEF RemoveRating
<1>12. QED
  BY <1>1, <1>2, <1>3, <1>4, <1>6, <1>7, <1>8, <1>9, <1>10, <1>11
     DEF ExecArrives, ChecklistRoutes, ExecutionRoutes, RatingRoutes, ModerationRoutes

\* The later statements of a handler.
ChecklistStatement(q) ==
  \/ SeedNext(q) \/ InsertProgress(q) \/ AddItems(q) \/ SaveItem(q) \/ CountItems(q)
  \/ WritePercent(q) \/ SelectProgress(q) \/ UpdateProgress(q)
ExecutionStatement(q) ==
  \/ InsertExecution(q) \/ WriteMilestones(q) \/ InsertSettlement(q) \/ InsertFeedback(q)
  \/ InsertRating(q) \/ InsertReview(q) \/ DeleteReviews(q) \/ DeleteRating(q)
ExecStatement(q) == ChecklistStatement(q) \/ ExecutionStatement(q)

LEMMA ExecStepIs ==
  ASSUME Next
  PROVE  \E q \in Requests : ExecArrives(q) \/ ExecStatement(q) \/ Crash(q)
BY DEF Next, ExecArrives, ExecStatement, ChecklistStatement, ExecutionStatement

\* The fields of a request's memory.
LEMMA ExecMemory ==
  ASSUME NEW r \in Step
  PROVE  /\ r.at = "seed" => r.n \in DOMAIN Seeds /\ r = [at |-> "seed", n |-> r.n]
         /\ r.at \in Listing => r.p \in Nat \ {0}
         /\ r.at = "addItems" => r.phase \in Phase
         /\ r.at = "saveItem" => r.j \in Nat \ {0} /\ r.done \in BOOLEAN
         /\ r.at = "writePercent" => r.percent \in 0..100
         /\ r.at \in {"select", "update"} =>
              /\ r.mem \in Row /\ r.dirty \in SUBSET Column
              /\ r = [at |-> r.at, p |-> r.p, mem |-> r.mem, dirty |-> r.dirty]
         /\ r.at = "milestone" => r.e \in Nat \ {0} /\ r.count \in Nat
         /\ r.at \in {"insertReview", "unreview", "unrate"} =>
              r.i \in Nat \ {0} /\ r = [at |-> r.at, i |-> r.i]
<1>1. CASE r.at \in {"seed", "milestone", "insertReview", "unreview", "unrate"}
  BY <1>1 DEF Step, Listing, Idle
<1>2. CASE r.at \in Listing
  BY <1>2 DEF Step, Listing, Idle
<1>3. CASE r.at \notin Listing \cup {"seed", "milestone", "insertReview", "unreview", "unrate"}
  BY <1>3 DEF Listing
<1>4. QED
  BY <1>1, <1>2, <1>3

LEMMA IdleAimed == Idle \in Step /\ Aimed(Idle)
BY DEF Step, Aimed, Idle, Listing

LEMMA ExecRequest ==
  ASSUME ExecInv, NEW q \in Requests
  PROVE  req[q] \in Step /\ Aimed(req[q]) /\ req \in [Requests -> Step] /\ overlaps \in Nat
BY DEF ExecInv, ServerTyped

LEMMA ExecGoesHome ==
  ASSUME ExecInv, NEW q \in Requests, ExecStatement(q) \/ Crash(q)
  PROVE  /\ InFlight(q) /\ overlaps' = overlaps
         /\ \A p \in Requests : p # q => req'[p] = req[p]
<1>1. req \in [Requests -> Step]
  BY ExecRequest
<1>2. CASE SeedNext(q)
  BY <1>1, <1>2 DEF SeedNext, At, Answer, Go, InFlight
<1>3. CASE SelectProgress(q)
  BY <1>1, <1>3, Zenon DEF SelectProgress, Saved, At, Answer, Go, InFlight
<1>4. CASE UpdateProgress(q)
  BY <1>1, <1>4 DEF UpdateProgress, Saved, At, Answer, Go, InFlight
<1>5. CASE InsertProgress(q) \/ AddItems(q) \/ SaveItem(q) \/ CountItems(q) \/ WritePercent(q)
  BY <1>1, <1>5
     DEF InsertProgress, AddItems, SaveItem, CountItems, WritePercent, At, Answer, Go, InFlight
<1>7. CASE ExecutionStatement(q)
  BY <1>1, <1>7
     DEF ExecutionStatement, InsertExecution, WriteMilestones, InsertSettlement, InsertFeedback,
         InsertRating, InsertReview, DeleteReviews, DeleteRating, At, Answer, Go, InFlight
<1>8. CASE Crash(q)
  BY <1>1, <1>8 DEF Crash, Die
<1>9. QED
  BY <1>2, <1>3, <1>4, <1>5, <1>7, <1>8 DEF ExecStatement, ChecklistStatement

\* Nothing that requests are about is taken away.
LEMMA ExecStays ==
  ASSUME ExecInv, NEW q \in Requests, ServerTyped(Step)', ExecRows',
         \A p \in Requests : p # q => req'[p] = req[p], Aimed(req[q])',
         DOMAIN progress \subseteq DOMAIN progress',
         \A p \in DOMAIN progress : DOMAIN items[p] \subseteq DOMAIN items'[p],
         DOMAIN executions \subseteq DOMAIN executions', DOMAIN ratings \subseteq DOMAIN ratings'
  PROVE  ExecInv'
<1>1. ASSUME NEW p \in Requests, p # q PROVE Aimed(req[p])'
  <2>1. req'[p] = req[p] /\ Aimed(req[p]) /\ req[p] \in Step
    BY <1>1, ExecRequest
  <2>2. req[p].at = "count" => Len(items'[req[p].p]) # 0
    <3>1. SUFFICES ASSUME req[p].at = "count" PROVE Len(items'[req[p].p]) # 0
      OBVIOUS
    <3>2. PICK s, ss : s = items[req[p].p] /\ ss = items'[req[p].p]
      OBVIOUS
    <3>3. req[p].p \in DOMAIN progress /\ Len(s) # 0
      BY <2>1, <3>1, <3>2 DEF Aimed, Listing
    <3>4. s \in Seq(Item) /\ DOMAIN s \subseteq DOMAIN ss
      BY <3>2, <3>3, ChecklistsAre
    <3>5. ss \in Seq(Item)
      BY <3>2, <3>3 DEF ExecRows
    <3>6. 1 \in DOMAIN s
      BY <3>3, <3>4
    <3>7. QED
      BY <3>2, <3>4, <3>5, <3>6
  <2>3. QED
    BY <2>1, <2>2 DEF Aimed, Listing
<1>2. QED
  BY <1>1 DEF ExecInv

\* A step that changes only what request q has in memory, and no row.
LEMMA ExecOnly ==
  ASSUME ExecInv, NEW q \in Requests, NEW r \in Step, Aimed(r), Go(q, r),
         up' \in BOOLEAN, catalogue' \subseteq Seed, settlements' \in Nat, feedback' \in Nat,
         UNCHANGED <<part, progress, items, executions, ratings, logged>>
  PROVE  ExecInv'
<1>1. ServerTyped(Step)' /\ req'[q] = r /\ \A p \in Requests : p # q => req'[p] = req[p]
  BY GoTyped DEF ExecInv, ServerTyped, Go
<1>2. ExecRows'
  BY DEF ExecInv, ExecRows
<1>3. Aimed(req[q])'
  BY <1>1 DEF Aimed
<1>4. QED
  BY <1>1, <1>2, <1>3, ExecStays

LEMMA ExecArrivedTyped ==
  ASSUME ExecInv, ExecutionAssumption, NEW q \in Requests, ExecArrives(q)
  PROVE  ExecInv'
<1>1. CASE ComesUp
  BY <1>1 DEF ComesUp, ExecInv, ExecRows, ServerTyped, Aimed, server, checklist, execution
<1>2. ASSUME UNCHANGED <<part, up, checklist, execution>>, NEW r, ExecComes(r), Start(q, r)
      PROVE  ExecInv'
  <2>1. /\ ServerTyped(Step)' /\ req'[q] = r
        /\ \A p \in Requests : p # q => req'[p] = req[p]
    BY <1>2, StartTyped DEF ExecInv, ServerTyped, Start, ExecComes
  <2>2. ExecRows'
    BY <1>2 DEF ExecInv, ExecRows, checklist, execution
  <2>3. Aimed(req[q])'
    BY <1>2, <2>1 DEF Aimed, ExecComes, checklist, execution
  <2>4. QED
    BY <1>2, <2>1, <2>2, <2>3, ExecStays DEF checklist, execution
<1>3. QED
  BY <1>1, <1>2, ExecArrived

LEMMA CrashTyped ==
  ASSUME ExecInv, NEW q \in Requests, Crash(q)
  PROVE  ExecInv'
<1>1. /\ ServerTyped(Step)' /\ req'[q] = Idle
      /\ \A p \in Requests : p # q => req'[p] = req[p]
  BY IdleAimed, DieTyped DEF ExecInv, ServerTyped, Crash, Die
<1>2. ExecRows'
  BY DEF ExecInv, ExecRows, Crash, checklist, execution
<1>3. Aimed(req[q])'
  BY <1>1 DEF Aimed, Idle, Listing
<1>4. QED
  BY <1>1, <1>2, <1>3, ExecStays DEF Crash, checklist, execution

\* Items come in a list that has each of them once.
LEMMA ListedIs ==
  ASSUME NEW S, IsFiniteSet(S)
  PROVE  /\ Cardinality(S) \in Nat /\ Listed(S) \in [1..Cardinality(S) -> S]
         /\ \A m, n \in 1..Cardinality(S) : Listed(S)[m] = Listed(S)[n] => m = n
         /\ \A x \in S : \E n \in 1..Cardinality(S) : Listed(S)[n] = x
<1>1. PICK c : c = Cardinality(S)
  OBVIOUS
<1>2. c \in Nat /\ ExistsBijection(1..c, S)
  BY <1>1, FS_CardinalityType
<1>3. PICK f : f \in Bijection(1..c, S)
  BY <1>2, Fun_ExistsBij
<1>4. f \in [1..c -> S] /\ \A m, n \in DOMAIN f : f[m] = f[n] => m = n
  BY <1>3 DEF Bijection, Injection, IsInjective
<1>5. PICK g : g = Listed(S)
  OBVIOUS
<1>6. g = CHOOSE s \in [1..c -> S] : \A m, n \in DOMAIN s : s[m] = s[n] => m = n
  BY <1>1, <1>5 DEF Listed
<1>7. g \in [1..c -> S] /\ \A m, n \in DOMAIN g : g[m] = g[n] => m = n
  BY <1>4, <1>6
<1>8. g \in Injection(1..c, S)
  BY <1>7 DEF Injection, IsInjective
<1>9. Cardinality(1..c) = c
  BY <1>2, FS_Interval
<1>10. g \in Surjection(1..c, S)
  BY <1>1, <1>8, <1>9, FS_Injection
<1>11. \A x \in S : \E n \in 1..c : g[n] = x
  BY <1>10 DEF Surjection
<1>12. QED
  BY <1>1, <1>2, <1>5, <1>7, <1>11

\* What is added to a checklist that enters a phase.
Added(phase) ==
  [n \in 1..Cardinality(TemplateItems(phase)) |->
     [item |-> Listed(TemplateItems(phase))[n], done |-> FALSE]]

LEMMA AddedIs ==
  ASSUME ExecutionAssumption, NEW phase
  PROVE  /\ Added(phase) \in Seq(Item)
         /\ \A n \in 1..Len(Added(phase)) : Added(phase)[n].item \in TemplateItems(phase)
         /\ \A m, n \in 1..Len(Added(phase)) :
              Added(phase)[m].item = Added(phase)[n].item => m = n
         /\ \A i \in TemplateItems(phase) :
              \E n \in 1..Len(Added(phase)) : Added(phase)[n].item = i
         /\ \A n \in 1..Len(Added(phase)) : ~Added(phase)[n].done
<1>1. PICK S, c, l, a : /\ S = TemplateItems(phase) /\ c = Cardinality(S) /\ l = Listed(S)
                        /\ a = Added(phase)
  OBVIOUS
<1>2. S \subseteq Items /\ IsFiniteSet(S)
  BY <1>1, FS_Subset DEF TemplateItems, ExecutionAssumption
<1>3. /\ c \in Nat /\ l \in [1..c -> S]
      /\ \A m, n \in 1..c : l[m] = l[n] => m = n
      /\ \A x \in S : \E n \in 1..c : l[n] = x
  BY <1>1, <1>2, ListedIs
<1>4. a = [n \in 1..c |-> [item |-> l[n], done |-> FALSE]]
  BY <1>1 DEF Added
<1>5. \A n \in 1..c : /\ a[n] = [item |-> l[n], done |-> FALSE] /\ a[n].item = l[n]
                      /\ a[n].done = FALSE
  BY <1>4
<1>6. \A n \in 1..c : a[n] \in Item
  <2>1. \A x \in Items : [item |-> x, done |-> FALSE] \in Item
    BY DEF Item
  <2>2. \A n \in 1..c : l[n] \in Items
    BY <1>2, <1>3
  <2>3. QED
    BY <1>5, <2>1, <2>2
<1>7. a \in Seq(Item) /\ Len(a) = c
  BY <1>3, <1>4, <1>6
<1>8. \A n \in 1..c : a[n].item = l[n] /\ a[n].done = FALSE
  BY <1>5
<1>9. \A n \in 1..c : a[n].item \in S /\ ~a[n].done
  BY <1>3, <1>8
<1>10. \A m, n \in 1..c : a[m].item = a[n].item => m = n
  BY <1>3, <1>8
<1>11. \A i \in S : \E n \in 1..c : a[n].item = i
  BY <1>3, <1>8
<1>12. QED
  BY <1>1, <1>7, <1>9, <1>10, <1>11

-----------------------------------------------------------------------------
(* Service execution: what the statements do.                              *)

NewList == [phase |-> "PRE_SERVICE", status |-> "PENDING", percent |-> 0]

LEMMA SeedIs ==
  ASSUME ExecInv, NEW q \in Requests, SeedNext(q), NEW n, n = req[q].n
  PROVE  /\ req[q].at = "seed" /\ n \in DOMAIN Seeds
         /\ UNCHANGED <<part, progress, items, execution>>
         /\ catalogue' = catalogue \cup {Seeds[n]}
         /\ \/ /\ Go(q, Idle) /\ up' = TRUE
               /\ n = Len(Seeds) \/ Seeds[n] \in catalogue
            \/ /\ Go(q, [at |-> "seed", n |-> n + 1]) /\ UNCHANGED up
               /\ n # Len(Seeds)
<1>1. req[q].at = "seed" /\ req[q] \in Step
  BY ExecRequest DEF SeedNext, At
<1>2. n \in DOMAIN Seeds /\ req[q] = [at |-> "seed", n |-> n]
  BY <1>1, ExecMemory
<1>3. [req[q] EXCEPT !.n = n + 1] = [at |-> "seed", n |-> n + 1]
  BY <1>2
<1>4. QED
  BY <1>1, <1>2, <1>3 DEF SeedNext, Answer

LEMMA InsertProgressIs ==
  ASSUME ExecInv, NEW q \in Requests, InsertProgress(q)
  PROVE  /\ req[q].at = "insertProgress" /\ UNCHANGED <<part, up, catalogue, execution>>
         /\ progress' = Append(progress, NewList) /\ items' = Append(items, <<>>)
         /\ Go(q, [at |-> "addItems", p |-> Len(progress) + 1, phase |-> "PRE_SERVICE"])
BY DEF InsertProgress, At, NewList

LEMMA AddItemsIs ==
  ASSUME ExecInv, NEW q \in Requests, AddItems(q), NEW p, p = req[q].p
  PROVE  /\ req[q].at = "addItems" /\ UNCHANGED <<part, up, catalogue, progress, execution>>
         /\ p \in DOMAIN progress /\ req[q].phase \in Phase /\ Go(q, Idle)
         /\ items' = [items EXCEPT ![p] = @ \o Added(req[q].phase)]
<1>1. req[q].at = "addItems" /\ req[q] \in Step /\ Aimed(req[q])
  BY ExecRequest DEF AddItems, At
<1>2. p \in DOMAIN progress /\ req[q].phase \in Phase
  BY <1>1, ExecMemory DEF Aimed, Listing
<1>3. QED
  BY <1>1, <1>2 DEF AddItems, Answer, Added

LEMMA SaveItemIs ==
  ASSUME ExecInv, NEW q \in Requests, SaveItem(q), NEW p, NEW j, p = req[q].p, j = req[q].j
  PROVE  /\ req[q].at = "saveItem" /\ UNCHANGED <<part, up, catalogue, progress, execution>>
         /\ p \in DOMAIN progress /\ j \in DOMAIN items[p] /\ req[q].done \in BOOLEAN
         /\ Go(q, [at |-> "count", p |-> p])
         /\ items' = [items EXCEPT ![p][j].done = req[q].done]
<1>1. req[q].at = "saveItem" /\ req[q] \in Step /\ Aimed(req[q])
  BY ExecRequest DEF SaveItem, At
<1>2. p \in DOMAIN progress /\ j \in DOMAIN items[p] /\ req[q].done \in BOOLEAN
  BY <1>1, ExecMemory DEF Aimed, Listing
<1>3. QED
  BY <1>1, <1>2 DEF SaveItem

LEMMA CountItemsIs ==
  ASSUME ExecInv, NEW q \in Requests, CountItems(q), NEW p, p = req[q].p
  PROVE  /\ req[q].at = "count" /\ UNCHANGED <<part, up, checklist, execution>>
         /\ p \in DOMAIN progress /\ Len(items[p]) # 0
         /\ Go(q, [at |-> "writePercent", p |-> p, percent |-> Percentage(items[p])])
BY ExecRequest DEF CountItems, At, Aimed, Listing

LEMMA WritePercentIs ==
  ASSUME ExecInv, NEW q \in Requests, WritePercent(q), NEW p, p = req[q].p
  PROVE  /\ req[q].at = "writePercent" /\ UNCHANGED <<part, up, catalogue, items, execution>>
         /\ p \in DOMAIN progress /\ req[q].percent \in 0..100 /\ Go(q, Idle)
         /\ progress' = [progress EXCEPT ![p].percent = req[q].percent]
<1>1. req[q].at = "writePercent" /\ req[q] \in Step /\ Aimed(req[q])
  BY ExecRequest DEF WritePercent, At
<1>2. p \in DOMAIN progress /\ req[q].percent \in 0..100
  BY <1>1, ExecMemory DEF Aimed, Listing
<1>3. QED
  BY <1>1, <1>2 DEF WritePercent, Answer

\* What a request does once its checklist is saved.
Adds(q, p, mem) == Go(q, [at |-> "addItems", p |-> p, phase |-> mem.phase])

Differing(row, mem) == {c \in Column : row[c] # mem[c]}
Merged(row, mem, dirty) == [c \in Column |-> IF c \in dirty THEN mem[c] ELSE row[c]]

LEMMA SelectProgressIs ==
  ASSUME ExecInv, NEW q \in Requests, SelectProgress(q), NEW p, NEW mem,
         p = req[q].p, mem = req[q].mem
  PROVE  /\ req[q].at = "select" /\ UNCHANGED <<part, up, checklist, execution>>
         /\ p \in DOMAIN progress /\ mem \in Row /\ mem.phase # "PRE_SERVICE"
         /\ \/ Differing(progress[p], mem) = {} /\ Adds(q, p, mem)
            \/ Go(q, [at |-> "update", p |-> p, mem |-> mem,
                      dirty |-> Differing(progress[p], mem)])
<1>1. req[q].at = "select" /\ req[q] \in Step /\ Aimed(req[q])
  BY ExecRequest DEF SelectProgress, At
<1>2. /\ p \in DOMAIN progress /\ mem \in Row /\ mem.phase # "PRE_SERVICE"
      /\ req[q] = [at |-> "select", p |-> p, mem |-> mem, dirty |-> req[q].dirty]
  BY <1>1, ExecMemory DEF Aimed, Listing
<1>3. PICK d : d = Differing(progress[p], mem)
  OBVIOUS
<1>4. [req[q] EXCEPT !.at = "update", !.dirty = d] =
        [at |-> "update", p |-> p, mem |-> mem, dirty |-> d]
  <2>1. PICK o : o = [req[q] EXCEPT !.at = "update"]
    OBVIOUS
  <2>2. PICK dd : dd = req[q].dirty
    OBVIOUS
  <2>3. req[q] = [at |-> "select", p |-> p, mem |-> mem, dirty |-> dd]
    BY <1>2, <2>2
  <2>4. o = [at |-> "update", p |-> p, mem |-> mem, dirty |-> dd]
    BY <2>1, <2>3
  <2>5. PICK n : n = [o EXCEPT !.dirty = d]
    OBVIOUS
  <2>6. n = [at |-> "update", p |-> p, mem |-> mem, dirty |-> d]
    BY <2>4, <2>5
  <2>7. QED
    BY <2>1, <2>5, <2>6
<1>5. d = {c \in Column : progress[req[q].p][c] # req[q].mem[c]}
  BY <1>3 DEF Differing
<1>6. IF d = {} THEN Saved(q) ELSE Go(q, [at |-> "update", p |-> p, mem |-> mem, dirty |-> d])
  BY <1>4, <1>5 DEF SelectProgress
<1>7. Saved(q) => Adds(q, p, mem)
  BY DEF Saved, Adds
<1>8. QED
  BY <1>1, <1>2, <1>3, <1>6, <1>7 DEF SelectProgress

LEMMA UpdateProgressIs ==
  ASSUME ExecInv, NEW q \in Requests, UpdateProgress(q), NEW p, NEW mem,
         p = req[q].p, mem = req[q].mem
  PROVE  /\ req[q].at = "update" /\ UNCHANGED <<part, up, catalogue, items, execution>>
         /\ p \in DOMAIN progress /\ mem \in Row /\ mem.phase # "PRE_SERVICE"
         /\ progress' = [progress EXCEPT ![p] = Merged(@, mem, req[q].dirty)]
         /\ Adds(q, p, mem)
<1>1. req[q].at = "update" /\ req[q] \in Step /\ Aimed(req[q])
  BY ExecRequest DEF UpdateProgress, At
<1>2. p \in DOMAIN progress /\ mem \in Row /\ mem.phase # "PRE_SERVICE"
  BY <1>1, ExecMemory DEF Aimed, Listing
<1>3. progress' = [progress EXCEPT ![p] = Merged(@, mem, req[q].dirty)]
  BY DEF UpdateProgress, Merged
<1>4. Adds(q, p, mem)
  BY DEF UpdateProgress, Saved, Adds
<1>5. QED
  BY <1>1, <1>2, <1>3, <1>4 DEF UpdateProgress

LEMMA MergedTyped ==
  ASSUME NEW row \in Row, NEW mem \in Row, NEW dirty
  PROVE  /\ Merged(row, mem, dirty) \in Row
         /\ Merged(row, mem, dirty).phase = IF "phase" \in dirty THEN mem.phase ELSE row.phase
         /\ Merged(row, mem, dirty).status = IF "status" \in dirty THEN mem.status ELSE row.status
<1>1. PICK n : n = Merged(row, mem, dirty)
  OBVIOUS
<1>2. n = [c \in Column |-> IF c \in dirty THEN mem[c] ELSE row[c]]
  BY <1>1 DEF Merged
<1>3. /\ n.phase = IF "phase" \in dirty THEN mem.phase ELSE row.phase
      /\ n.status = IF "status" \in dirty THEN mem.status ELSE row.status
      /\ n.percent = IF "percent" \in dirty THEN mem.percent ELSE row.percent
      /\ n = [phase |-> n.phase, status |-> n.status, percent |-> n.percent]
  BY <1>2 DEF Column
<1>4. /\ row.phase \in Phase /\ row.status \in Status /\ row.percent \in 0..100
      /\ mem.phase \in Phase /\ mem.status \in Status /\ mem.percent \in 0..100
  BY DEF Row
<1>5. n.phase \in Phase /\ n.status \in Status /\ n.percent \in 0..100
  BY <1>3, <1>4
<1>6. n \in Row
  BY <1>3, <1>5 DEF Row
<1>7. QED
  BY <1>1, <1>3, <1>6

\* A checklist is written.
LEMMA ListWritten ==
  ASSUME ExecInv, NEW p \in DOMAIN progress, NEW row \in Row,
         progress' = [progress EXCEPT ![p] = row]
  PROVE  /\ progress' \in Seq(Row) /\ DOMAIN progress' = DOMAIN progress
         /\ Len(progress') = Len(progress)
         /\ progress'[p] = row /\ \A o \in DOMAIN progress : o # p => progress'[o] = progress[o]
BY DEF ExecInv, ExecRows

\* So are the items of one.
LEMMA ItemsWritten ==
  ASSUME ExecInv, NEW p \in DOMAIN progress, NEW s \in Seq(Item),
         items' = [items EXCEPT ![p] = s]
  PROVE  /\ items' \in Seq(Seq(Item)) /\ DOMAIN items' = DOMAIN items /\ Len(items') = Len(items)
         /\ items'[p] = s /\ \A o \in DOMAIN items : o # p => items'[o] = items[o]
BY ChecklistsAre DEF ExecInv, ExecRows

LEMMA PercentageTyped ==
  ASSUME NEW s \in Seq(Item), Len(s) # 0
  PROVE  Percentage(s) \in 0..100
<1>1. Len(s) \in Nat /\ DOMAIN s = 1..Len(s)
  OBVIOUS
<1>2. IsFiniteSet(1..Len(s)) /\ Cardinality(1..Len(s)) = Len(s)
  BY <1>1, FS_Interval
<1>3. DoneOf(s) \in SUBSET (1..Len(s))
  BY <1>1 DEF DoneOf
<1>4. PICK c, l : c = Cardinality(DoneOf(s)) /\ l = Len(s)
  OBVIOUS
<1>5. c \in Nat /\ l \in Nat /\ c <= l /\ l # 0
  BY <1>1, <1>2, <1>3, <1>4, Fewer
<1>6. PICK x : x = (200 * c + l) \div (2 * l)
  OBVIOUS
<1>7. x \in Int /\ (2 * l) * x <= 200 * c + l /\ 200 * c + l < (2 * l) * (x + 1)
  BY <1>5, <1>6
<1>8. x >= 0
  <2>1. CASE x <= -1
    <3>1. (2 * l) * (x + 1) <= 0
      BY <1>5, <1>7, <2>1
    <3>2. QED
      BY <1>5, <1>7, <3>1
  <2>2. QED
    BY <1>7, <2>1
<1>9. x <= 100
  <2>1. CASE x >= 101
    <3>1. (2 * l) * x >= (2 * l) * 101
      BY <1>5, <1>7, <2>1
    <3>2. QED
      BY <1>5, <1>7, <3>1
  <2>2. QED
    BY <1>7, <2>1
<1>10. Percentage(s) = (200 * c + l) \div (2 * l)
  BY <1>4 DEF Percentage
<1>11. x \in 0..100
  BY <1>7, <1>8, <1>9
<1>12. QED
  BY <1>6, <1>10, <1>11

\* A statement that changes what request q has in memory and only adds to the rows.
LEMMA ExecWrites ==
  ASSUME ExecInv, NEW q \in Requests, NEW r \in Step, Aimed(r)', Go(q, r), ExecRows',
         DOMAIN progress \subseteq DOMAIN progress',
         \A p \in DOMAIN progress : DOMAIN items[p] \subseteq DOMAIN items'[p],
         DOMAIN executions \subseteq DOMAIN executions', DOMAIN ratings \subseteq DOMAIN ratings'
  PROVE  ExecInv'
<1>1. ServerTyped(Step)' /\ req'[q] = r /\ \A p \in Requests : p # q => req'[p] = req[p]
  BY GoTyped DEF ExecInv, ServerTyped, Go
<1>2. Aimed(req[q])'
  BY <1>1 DEF Aimed
<1>3. QED
  BY <1>1, <1>2, ExecStays

LEMMA SeedTyped ==
  ASSUME ExecInv, ExecutionAssumption, NEW q \in Requests, SeedNext(q)
  PROVE  ExecInv'
<1>1. PICK n : n = req[q].n
  OBVIOUS
<1>2. /\ n \in DOMAIN Seeds /\ UNCHANGED <<part, progress, items, execution>>
      /\ catalogue' = catalogue \cup {Seeds[n]}
      /\ \/ Go(q, Idle) /\ up' = TRUE
         \/ Go(q, [at |-> "seed", n |-> n + 1]) /\ UNCHANGED up /\ n # Len(Seeds)
  BY <1>1, SeedIs
<1>3. up' \in BOOLEAN /\ catalogue' \subseteq Seed
  BY <1>2 DEF ExecInv, ExecRows, Seed
<1>4. settlements' \in Nat /\ feedback' \in Nat
      /\ UNCHANGED <<part, progress, items, executions, ratings, logged>>
  BY <1>2 DEF ExecInv, ExecRows, execution
<1>5. CASE Go(q, Idle)
  BY <1>3, <1>4, <1>5, IdleAimed, ExecOnly
<1>6. CASE Go(q, [at |-> "seed", n |-> n + 1]) /\ n # Len(Seeds)
  <2>1. PICK r : r = [at |-> "seed", n |-> n + 1]
    OBVIOUS
  <2>2. n + 1 \in DOMAIN Seeds
    BY <1>2, <1>6, SeedsAre
  <2>3. r \in Step /\ r.at = "seed"
    BY <2>1, <2>2 DEF Step
  <2>4. Aimed(r)
    BY <2>3 DEF Aimed, Listing
  <2>5. QED
    BY <1>3, <1>4, <1>6, <2>1, <2>3, <2>4, ExecOnly
<1>7. QED
  BY <1>2, <1>5, <1>6

LEMMA InsertProgressTyped ==
  ASSUME ExecInv, NEW q \in Requests, InsertProgress(q)
  PROVE  ExecInv'
<1>1. PICK r, l : r = [at |-> "addItems", p |-> Len(progress) + 1, phase |-> "PRE_SERVICE"]
                  /\ l = Len(progress) + 1
  OBVIOUS
<1>2. /\ UNCHANGED <<part, up, catalogue, execution>>
      /\ progress' = Append(progress, NewList) /\ items' = Append(items, <<>>) /\ Go(q, r)
  BY <1>1, InsertProgressIs
<1>3. NewList \in Row
  BY DEF NewList, Row, Phase, Status
<1>4. progress \in Seq(Row) /\ items \in Seq(Seq(Item)) /\ Len(items) = Len(progress)
  BY DEF ExecInv, ExecRows
<1>5. /\ progress' \in Seq(Row) /\ Len(progress') = l /\ l \in Nat \ {0}
      /\ DOMAIN progress \subseteq DOMAIN progress' /\ l \in DOMAIN progress'
  BY <1>1, <1>2, <1>3, <1>4
<1>6. /\ items' \in Seq(Seq(Item)) /\ Len(items') = l
      /\ \A p \in DOMAIN items : items'[p] = items[p]
  <2>1. <<>> \in Seq(Item)
    OBVIOUS
  <2>2. QED
    BY <1>1, <1>2, <1>4, <2>1
<1>7. ExecRows'
  BY <1>2, <1>5, <1>6 DEF ExecInv, ExecRows, execution
<1>8. r \in Step /\ r.at = "addItems" /\ r.p = l
  BY <1>1, <1>5 DEF Step, Phase
<1>9. Aimed(r)'
  BY <1>5, <1>8 DEF Aimed
<1>10. DOMAIN items = DOMAIN progress
  BY ChecklistsAre
<1>11. \A p \in DOMAIN progress : DOMAIN items[p] \subseteq DOMAIN items'[p]
  BY <1>6, <1>10
<1>12. UNCHANGED executions /\ UNCHANGED ratings
  BY <1>2 DEF execution
<1>13. QED
  BY <1>2, <1>5, <1>7, <1>8, <1>9, <1>11, <1>12, ExecWrites

LEMMA AddItemsTyped ==
  ASSUME ExecInv, ExecutionAssumption, NEW q \in Requests, AddItems(q)
  PROVE  ExecInv'
<1>1. PICK p, s, a : p = req[q].p /\ s = items[p] /\ a = Added(req[q].phase)
  OBVIOUS
<1>2. /\ UNCHANGED <<part, up, catalogue, progress, execution>> /\ p \in DOMAIN progress
      /\ Go(q, Idle) /\ items' = [items EXCEPT ![p] = @ \o Added(req[q].phase)]
  BY <1>1, AddItemsIs
<1>3. s \in Seq(Item) /\ a \in Seq(Item)
  BY <1>1, <1>2, AddedIs, ChecklistsAre
<1>4. s \o a \in Seq(Item) /\ DOMAIN s \subseteq DOMAIN (s \o a)
  BY <1>3
<1>5. items' = [items EXCEPT ![p] = s \o a]
  BY <1>1, <1>2
<1>6. /\ items' \in Seq(Seq(Item)) /\ Len(items') = Len(items) /\ items'[p] = s \o a
      /\ \A o \in DOMAIN items : o # p => items'[o] = items[o]
  BY <1>2, <1>4, <1>5, ItemsWritten
<1>7. DOMAIN items = DOMAIN progress
  BY ChecklistsAre
<1>8. \A o \in DOMAIN progress : DOMAIN items[o] \subseteq DOMAIN items'[o]
  BY <1>1, <1>4, <1>6, <1>7
<1>9. ExecRows'
  BY <1>2, <1>6 DEF ExecInv, ExecRows, execution
<1>10. UNCHANGED executions /\ UNCHANGED ratings
  BY <1>2 DEF execution
<1>11. Idle \in Step /\ Aimed(Idle)'
  BY IdleAimed DEF Aimed, Idle, Listing
<1>12. QED
  BY <1>2, <1>8, <1>9, <1>10, <1>11, ExecWrites

\* The items of checklist p after one of them has been saved.
Ticked(s, j, done) == [s EXCEPT ![j].done = done]

LEMMA TickedIs ==
  ASSUME NEW s \in Seq(Item), NEW j \in DOMAIN s, NEW done \in BOOLEAN
  PROVE  /\ Ticked(s, j, done) \in Seq(Item) /\ DOMAIN Ticked(s, j, done) = DOMAIN s
         /\ Len(Ticked(s, j, done)) = Len(s)
         /\ \A k \in DOMAIN s : Ticked(s, j, done)[k].item = s[k].item
<1>1. PICK t : t = Ticked(s, j, done)
  OBVIOUS
<1>2. PICK x : x = s[j]
  OBVIOUS
<1>3. x \in Item /\ x = [item |-> x.item, done |-> x.done] /\ x.item \in Items
  <2>1. x \in Item
    BY <1>2
  <2>2. QED
    BY <2>1 DEF Item
<1>4. PICK y : y = [x EXCEPT !.done = done]
  OBVIOUS
<1>5. y = [item |-> x.item, done |-> done]
  BY <1>3, <1>4
<1>6. y \in Item /\ y.item = x.item
  BY <1>3, <1>5 DEF Item
<1>7. t = [s EXCEPT ![j] = y]
  BY <1>1, <1>2, <1>4 DEF Ticked
<1>8. t \in Seq(Item) /\ DOMAIN t = DOMAIN s /\ Len(t) = Len(s)
      /\ t[j] = y /\ \A k \in DOMAIN s : k # j => t[k] = s[k]
  BY <1>6, <1>7
<1>9. \A k \in DOMAIN s : t[k].item = s[k].item
  BY <1>2, <1>6, <1>8
<1>10. QED
  BY <1>1, <1>8, <1>9

LEMMA SaveItemTyped ==
  ASSUME ExecInv, NEW q \in Requests, SaveItem(q)
  PROVE  ExecInv'
<1>1. PICK p, j, s, t, r : /\ p = req[q].p /\ j = req[q].j /\ s = items[p]
                           /\ t = Ticked(s, j, req[q].done) /\ r = [at |-> "count", p |-> p]
  OBVIOUS
<1>2. /\ UNCHANGED <<part, up, catalogue, progress, execution>>
      /\ p \in DOMAIN progress /\ j \in DOMAIN s /\ req[q].done \in BOOLEAN
      /\ Go(q, r) /\ items' = [items EXCEPT ![p][j].done = req[q].done]
  BY <1>1, SaveItemIs
<1>3. s \in Seq(Item) /\ p \in Nat \ {0} /\ DOMAIN items = DOMAIN progress
  BY <1>1, <1>2, ChecklistsAre
<1>4. t \in Seq(Item) /\ DOMAIN t = DOMAIN s /\ Len(t) = Len(s)
  BY <1>1, <1>2, <1>3, TickedIs
<1>5. items' = [items EXCEPT ![p] = t]
  BY <1>1, <1>2 DEF Ticked
<1>6. /\ items' \in Seq(Seq(Item)) /\ Len(items') = Len(items) /\ items'[p] = t
      /\ \A o \in DOMAIN items : o # p => items'[o] = items[o]
  BY <1>2, <1>4, <1>5, ItemsWritten
<1>7. \A o \in DOMAIN progress : DOMAIN items[o] \subseteq DOMAIN items'[o]
  BY <1>1, <1>3, <1>4, <1>6
<1>8. ExecRows'
  BY <1>2, <1>6 DEF ExecInv, ExecRows, execution
<1>9. UNCHANGED executions /\ UNCHANGED ratings
  BY <1>2 DEF execution
<1>10. r \in Step /\ r.at = "count" /\ r.p = p
  BY <1>1, <1>3 DEF Step
<1>11. Len(t) # 0
  BY <1>2, <1>3, <1>4
<1>12. Aimed(r)'
  BY <1>2, <1>6, <1>10, <1>11 DEF Aimed
<1>13. QED
  BY <1>2, <1>7, <1>8, <1>9, <1>10, <1>12, ExecWrites

LEMMA CountItemsTyped ==
  ASSUME ExecInv, NEW q \in Requests, CountItems(q)
  PROVE  ExecInv'
<1>1. PICK p, r, x : /\ p = req[q].p /\ x = Percentage(items[p])
                     /\ r = [at |-> "writePercent", p |-> p, percent |-> x]
  OBVIOUS
<1>2. /\ UNCHANGED <<part, up, checklist, execution>> /\ p \in DOMAIN progress
      /\ Len(items[p]) # 0 /\ Go(q, r)
  BY <1>1, CountItemsIs
<1>3. x \in 0..100 /\ p \in Nat \ {0}
  BY <1>1, <1>2, ChecklistsAre, PercentageTyped
<1>4. r \in Step /\ r.at = "writePercent" /\ r.p = p
  BY <1>1, <1>3 DEF Step
<1>5. Aimed(r)
  BY <1>2, <1>4 DEF Aimed
<1>6. QED
  BY <1>2, <1>4, <1>5, ExecOnly DEF ExecInv, ExecRows, checklist, execution

LEMMA WritePercentTyped ==
  ASSUME ExecInv, NEW q \in Requests, WritePercent(q)
  PROVE  ExecInv'
<1>1. PICK p, row, x, n : /\ p = req[q].p /\ row = progress[p] /\ x = req[q].percent
                          /\ n = [row EXCEPT !.percent = x]
  OBVIOUS
<1>2. /\ UNCHANGED <<part, up, catalogue, items, execution>>
      /\ p \in DOMAIN progress /\ x \in 0..100 /\ Go(q, Idle)
      /\ progress' = [progress EXCEPT ![p].percent = req[q].percent]
  BY <1>1, WritePercentIs
<1>3. row \in Row
  BY <1>1, <1>2, ChecklistsAre
<1>4. n \in Row
  BY <1>1, <1>2, <1>3 DEF Row
<1>5. progress' = [progress EXCEPT ![p] = n]
  BY <1>1, <1>2
<1>6. /\ progress' \in Seq(Row) /\ DOMAIN progress' = DOMAIN progress
      /\ Len(progress') = Len(progress)
  BY <1>2, <1>4, <1>5, ListWritten
<1>7. ExecRows'
  BY <1>2, <1>6 DEF ExecInv, ExecRows, execution
<1>8. UNCHANGED <<items, executions, ratings>>
  BY <1>2 DEF execution
<1>9. Idle \in Step /\ Aimed(Idle)'
  BY IdleAimed DEF Aimed, Idle, Listing
<1>10. QED
  BY <1>2, <1>6, <1>7, <1>8, <1>9, ExecWrites

\* A checklist that is to be saved.
LEMMA SelectAimed ==
  ASSUME ExecInv, NEW p \in DOMAIN progress, NEW mem \in Row, mem.phase # "PRE_SERVICE",
         NEW at \in {"select", "update"}, NEW d \in SUBSET Column
  PROVE  LET r == [at |-> at, p |-> p, mem |-> mem, dirty |-> d]
         IN  r \in Step /\ Aimed(r) /\ r.at = at /\ r.p = p /\ r.mem = mem /\ r.dirty = d
<1>1. PICK r : r = [at |-> at, p |-> p, mem |-> mem, dirty |-> d]
  OBVIOUS
<1>2. p \in Nat \ {0}
  BY ChecklistsAre
<1>3. r \in Step /\ r.at = at /\ r.p = p /\ r.mem = mem /\ r.dirty = d
  BY <1>1, <1>2 DEF Step
<1>4. Aimed(r)
  BY <1>3 DEF Aimed
<1>5. QED
  BY <1>1, <1>3, <1>4

\* What a request does after a save.
LEMMA AddsAimed ==
  ASSUME ExecInv, NEW q \in Requests, NEW p \in DOMAIN progress, NEW mem \in Row,
         Adds(q, p, mem)
  PROVE  \E r \in Step : Aimed(r) /\ Go(q, r) /\ r.at = "addItems" /\ r.p = p
<1>1. PICK r : r = [at |-> "addItems", p |-> p, phase |-> mem.phase]
  OBVIOUS
<1>2. mem.phase \in Phase /\ p \in Nat \ {0}
  BY ChecklistsAre DEF Row
<1>3. r \in Step /\ r.at = "addItems" /\ r.p = p
  BY <1>1, <1>2 DEF Step
<1>4. Aimed(r)
  BY <1>3 DEF Aimed
<1>5. QED
  BY <1>1, <1>3, <1>4 DEF Adds

LEMMA SelectProgressTyped ==
  ASSUME ExecInv, NEW q \in Requests, SelectProgress(q)
  PROVE  ExecInv'
<1>1. PICK p, mem, d : p = req[q].p /\ mem = req[q].mem /\ d = Differing(progress[p], mem)
  OBVIOUS
<1>2. /\ UNCHANGED <<part, up, checklist, execution>> /\ p \in DOMAIN progress
      /\ mem \in Row /\ mem.phase # "PRE_SERVICE"
      /\ \/ Adds(q, p, mem)
         \/ Go(q, [at |-> "update", p |-> p, mem |-> mem, dirty |-> d])
  BY <1>1, SelectProgressIs
<1>3. /\ up' \in BOOLEAN /\ catalogue' \subseteq Seed /\ settlements' \in Nat /\ feedback' \in Nat
      /\ UNCHANGED <<part, progress, items, executions, ratings, logged>>
  BY <1>2 DEF ExecInv, ExecRows, checklist, execution
<1>4. CASE Adds(q, p, mem)
  BY <1>2, <1>3, <1>4, AddsAimed, ExecOnly
<1>5. CASE Go(q, [at |-> "update", p |-> p, mem |-> mem, dirty |-> d])
  <2>1. PICK r : r = [at |-> "update", p |-> p, mem |-> mem, dirty |-> d]
    OBVIOUS
  <2>2. d \in SUBSET Column
    BY <1>1 DEF Differing
  <2>3. r \in Step /\ Aimed(r)
    BY <1>2, <2>1, <2>2, SelectAimed
  <2>4. QED
    BY <1>3, <1>5, <2>1, <2>3, ExecOnly
<1>6. QED
  BY <1>2, <1>4, <1>5

LEMMA UpdateProgressTyped ==
  ASSUME ExecInv, NEW q \in Requests, UpdateProgress(q)
  PROVE  ExecInv'
<1>1. PICK p, mem, n : /\ p = req[q].p /\ mem = req[q].mem
                       /\ n = Merged(progress[p], mem, req[q].dirty)
  OBVIOUS
<1>2. /\ UNCHANGED <<part, up, catalogue, items, execution>>
      /\ p \in DOMAIN progress /\ mem \in Row
      /\ progress' = [progress EXCEPT ![p] = Merged(@, mem, req[q].dirty)]
      /\ Adds(q, p, mem)
  BY <1>1, UpdateProgressIs
<1>3. n \in Row
  BY <1>1, <1>2, MergedTyped, ChecklistsAre
<1>4. progress' = [progress EXCEPT ![p] = n]
  BY <1>1, <1>2
<1>5. /\ progress' \in Seq(Row) /\ DOMAIN progress' = DOMAIN progress
      /\ Len(progress') = Len(progress)
  BY <1>2, <1>3, <1>4, ListWritten
<1>6. ExecRows'
  BY <1>2, <1>5 DEF ExecInv, ExecRows, execution
<1>7. UNCHANGED <<items, executions, ratings>>
  BY <1>2 DEF execution
<1>8. PICK r \in Step : Aimed(r) /\ Go(q, r) /\ r.at = "addItems" /\ r.p = p
  BY <1>2, AddsAimed
<1>9. Aimed(r)'
  BY <1>2, <1>5, <1>8 DEF Aimed
<1>10. QED
  BY <1>5, <1>6, <1>7, <1>8, <1>9, ExecWrites

-----------------------------------------------------------------------------
(* The statements about the execution.                                     *)

\* A statement that writes only the execution and leaves its request with r.
LEMMA ExecutionWrites ==
  ASSUME ExecInv, NEW q \in Requests, NEW r \in Step, Aimed(r)', Go(q, r),
         UNCHANGED <<part, up, checklist>>,
         executions' \in Seq(Nat), settlements' \in Nat, feedback' \in Nat,
         ratings' \in Seq(Rating), logged' \in Nat,
         DOMAIN executions \subseteq DOMAIN executions', DOMAIN ratings \subseteq DOMAIN ratings'
  PROVE  ExecInv'
<1>1. UNCHANGED <<progress, items, catalogue>>
  BY DEF checklist
<1>2. ExecRows'
  BY <1>1 DEF ExecInv, ExecRows
<1>3. QED
  BY <1>1, <1>2, ExecWrites

\* A rating changes from one state to another.
Rerated(i, from, to) == ratings' = [ratings EXCEPT ![i] = IF @ = from THEN to ELSE @]

LEMMA ReratedTyped ==
  ASSUME ExecInv, NEW i \in DOMAIN ratings, NEW from, NEW to \in Rating, Rerated(i, from, to)
  PROVE  ratings' \in Seq(Rating) /\ DOMAIN ratings' = DOMAIN ratings
<1>1. PICK x : x = (IF ratings[i] = from THEN to ELSE ratings[i])
  OBVIOUS
<1>2. ratings \in Seq(Rating) /\ ratings[i] \in Rating
  BY DEF ExecInv, ExecRows
<1>3. x \in Rating
  BY <1>1, <1>2
<1>4. ratings' = [ratings EXCEPT ![i] = x]
  BY <1>1 DEF Rerated
<1>5. QED
  BY <1>2, <1>3, <1>4

LEMMA RatingStatementIs ==
  ASSUME ExecInv, NEW q \in Requests, InsertReview(q) \/ DeleteReviews(q) \/ DeleteRating(q),
         NEW i, i = req[q].i
  PROVE  /\ i \in DOMAIN ratings
         /\ UNCHANGED <<part, up, checklist, executions, settlements, feedback, logged>>
         /\ \/ req[q].at = "insertReview" /\ Go(q, Idle) /\ Rerated(i, "plain", "reviewed")
            \/ /\ req[q].at = "unreview" /\ Go(q, [at |-> "unrate", i |-> i])
               /\ Rerated(i, "reviewed", "plain")
            \/ req[q].at = "unrate" /\ Go(q, Idle) /\ Rerated(i, "plain", "removed")
<1>1. req[q].at \in {"insertReview", "unreview", "unrate"} /\ req[q] \in Step /\ Aimed(req[q])
  BY ExecRequest DEF InsertReview, DeleteReviews, DeleteRating, At
<1>2. i \in DOMAIN ratings
  BY <1>1 DEF Aimed
<1>3. CASE InsertReview(q)
  BY <1>2, <1>3 DEF InsertReview, At, Answer, Rerated
<1>4. CASE DeleteReviews(q)
  <2>1. PICK x : x = req[q].at
    OBVIOUS
  <2>2. req[q] = [at |-> x, i |-> i]
    BY <1>1, <2>1, ExecMemory
  <2>3. [req[q] EXCEPT !.at = "unrate"] = [at |-> "unrate", i |-> i]
    BY <2>2
  <2>4. QED
    BY <1>2, <1>4, <2>3 DEF DeleteReviews, At, Rerated
<1>5. CASE DeleteRating(q)
  BY <1>2, <1>5 DEF DeleteRating, At, Answer, Rerated
<1>6. QED
  BY <1>3, <1>4, <1>5

LEMMA RatingStatementTyped ==
  ASSUME ExecInv, NEW q \in Requests, InsertReview(q) \/ DeleteReviews(q) \/ DeleteRating(q)
  PROVE  ExecInv'
<1>1. PICK i, r : i = req[q].i /\ r = [at |-> "unrate", i |-> i]
  OBVIOUS
<1>2. /\ i \in DOMAIN ratings
      /\ UNCHANGED <<part, up, checklist, executions, settlements, feedback, logged>>
      /\ \/ Go(q, Idle) /\ Rerated(i, "plain", "reviewed")
         \/ Go(q, r) /\ Rerated(i, "reviewed", "plain")
         \/ Go(q, Idle) /\ Rerated(i, "plain", "removed")
  BY <1>1, RatingStatementIs
<1>3. \A x \in Rating : \A y : Rerated(i, y, x) =>
        ratings' \in Seq(Rating) /\ DOMAIN ratings' = DOMAIN ratings
  BY <1>2, ReratedTyped
<1>4. ratings' \in Seq(Rating) /\ DOMAIN ratings' = DOMAIN ratings
  BY <1>2, <1>3 DEF Rating
<1>5. i \in Nat \ {0}
  BY <1>2 DEF ExecInv, ExecRows
<1>6. r \in Step /\ r.at = "unrate" /\ r.i = i
  BY <1>1, <1>5 DEF Step
<1>7. Aimed(r)'
  BY <1>2, <1>4, <1>6 DEF Aimed, Listing
<1>8. Idle \in Step /\ Aimed(Idle)'
  BY IdleAimed DEF Aimed, Idle, Listing
<1>9. /\ executions' \in Seq(Nat) /\ settlements' \in Nat /\ feedback' \in Nat
      /\ logged' \in Nat /\ DOMAIN executions \subseteq DOMAIN executions'
  BY <1>2 DEF ExecInv, ExecRows
<1>10. CASE Go(q, Idle)
  BY <1>2, <1>4, <1>8, <1>9, <1>10, ExecutionWrites
<1>11. CASE Go(q, r)
  BY <1>2, <1>4, <1>6, <1>7, <1>9, <1>11, ExecutionWrites
<1>12. QED
  BY <1>2, <1>10, <1>11

LEMMA InsertRatingTyped ==
  ASSUME ExecInv, NEW q \in Requests, InsertRating(q)
  PROVE  ExecInv'
<1>1. PICK i, r : i = Len(ratings) + 1 /\ r = [at |-> "insertReview", i |-> i]
  OBVIOUS
<1>2. /\ ratings' = Append(ratings, "plain") /\ (Go(q, Idle) \/ Go(q, r))
      /\ UNCHANGED <<part, up, checklist, executions, settlements, feedback, logged>>
  BY <1>1 DEF InsertRating, Answer
<1>3. ratings \in Seq(Rating) /\ "plain" \in Rating
  BY DEF ExecInv, ExecRows, Rating
<1>4. /\ ratings' \in Seq(Rating) /\ DOMAIN ratings \subseteq DOMAIN ratings'
      /\ i \in DOMAIN ratings' /\ i \in Nat \ {0}
  BY <1>1, <1>2, <1>3
<1>5. r \in Step /\ r.at = "insertReview" /\ r.i = i
  BY <1>1, <1>4 DEF Step
<1>6. Aimed(r)'
  BY <1>4, <1>5 DEF Aimed, Listing
<1>7. Idle \in Step /\ Aimed(Idle)'
  BY IdleAimed DEF Aimed, Idle, Listing
<1>8. /\ executions' \in Seq(Nat) /\ settlements' \in Nat /\ feedback' \in Nat
      /\ logged' \in Nat /\ DOMAIN executions \subseteq DOMAIN executions'
  BY <1>2 DEF ExecInv, ExecRows
<1>9. CASE Go(q, Idle)
  BY <1>2, <1>4, <1>7, <1>8, <1>9, ExecutionWrites
<1>10. CASE Go(q, r)
  BY <1>2, <1>4, <1>5, <1>6, <1>8, <1>10, ExecutionWrites
<1>11. QED
  BY <1>2, <1>9, <1>10

LEMMA WriteMilestonesIs ==
  ASSUME ExecInv, NEW q \in Requests, WriteMilestones(q), NEW e, NEW n,
         e = req[q].e, n = req[q].count
  PROVE  /\ req[q].at = "milestone" /\ e \in DOMAIN executions /\ n \in Nat
         /\ executions' = [executions EXCEPT ![e] = n + 1] /\ logged' = logged + 1
         /\ Go(q, Idle) /\ UNCHANGED <<part, up, checklist, settlements, feedback, ratings>>
<1>1. req[q].at = "milestone" /\ req[q] \in Step /\ Aimed(req[q])
  BY ExecRequest DEF WriteMilestones, At
<1>2. e \in DOMAIN executions /\ n \in Nat
  BY <1>1, ExecMemory DEF Aimed
<1>3. QED
  BY <1>1, <1>2 DEF WriteMilestones, Answer

LEMMA WriteMilestonesTyped ==
  ASSUME ExecInv, NEW q \in Requests, WriteMilestones(q)
  PROVE  ExecInv'
<1>1. PICK e, n : e = req[q].e /\ n = req[q].count
  OBVIOUS
<1>2. /\ e \in DOMAIN executions /\ n \in Nat
      /\ executions' = [executions EXCEPT ![e] = n + 1] /\ logged' = logged + 1
      /\ Go(q, Idle) /\ UNCHANGED <<part, up, checklist, settlements, feedback, ratings>>
  BY <1>1, WriteMilestonesIs
<1>3. executions' \in Seq(Nat) /\ DOMAIN executions' = DOMAIN executions
  BY <1>2 DEF ExecInv, ExecRows
<1>4. Idle \in Step /\ Aimed(Idle)'
  BY IdleAimed DEF Aimed, Idle, Listing
<1>5. settlements' \in Nat /\ feedback' \in Nat /\ ratings' \in Seq(Rating)
      /\ logged' \in Nat /\ DOMAIN ratings \subseteq DOMAIN ratings'
  BY <1>2 DEF ExecInv, ExecRows
<1>6. QED
  BY <1>2, <1>3, <1>4, <1>5, ExecutionWrites

LEMMA InsertedTyped ==
  ASSUME ExecInv, NEW q \in Requests,
         InsertExecution(q) \/ InsertSettlement(q) \/ InsertFeedback(q)
  PROVE  ExecInv'
<1>1. UNCHANGED <<part, up, checklist>> /\ Go(q, Idle) /\ UNCHANGED <<ratings, logged>>
  BY DEF InsertExecution, InsertSettlement, InsertFeedback, Answer
<1>2. executions' = Append(executions, 0) \/ UNCHANGED executions
  BY DEF InsertExecution, InsertSettlement, InsertFeedback
<1>3. settlements' = settlements + 1 \/ UNCHANGED settlements
  BY DEF InsertExecution, InsertSettlement, InsertFeedback
<1>4. feedback' = feedback + 1 \/ UNCHANGED feedback
  BY DEF InsertExecution, InsertSettlement, InsertFeedback
<1>5. /\ executions \in Seq(Nat) /\ settlements \in Nat /\ feedback \in Nat
      /\ ratings \in Seq(Rating) /\ logged \in Nat
  BY DEF ExecInv, ExecRows
<1>6. executions' \in Seq(Nat) /\ DOMAIN executions \subseteq DOMAIN executions'
  <2>1. CASE executions' = Append(executions, 0)
    BY <1>5, <2>1
  <2>2. CASE executions' = executions
    BY <1>5, <2>2
  <2>3. QED
    BY <1>2, <2>1, <2>2
<1>7. settlements' \in Nat /\ feedback' \in Nat
  BY <1>3, <1>4, <1>5
<1>8. Idle \in Step /\ Aimed(Idle)'
  BY IdleAimed DEF Aimed, Idle, Listing
<1>9. QED
  BY <1>1, <1>5, <1>6, <1>7, <1>8, ExecutionWrites

LEMMA ExecStatementTyped ==
  ASSUME ExecInv, ExecutionAssumption, NEW q \in Requests, ExecStatement(q)
  PROVE  ExecInv'
<1>1. CASE ChecklistStatement(q)
  BY <1>1, SeedTyped, InsertProgressTyped, AddItemsTyped, SaveItemTyped, CountItemsTyped,
     WritePercentTyped, SelectProgressTyped, UpdateProgressTyped
     DEF ChecklistStatement
<1>2. CASE ExecutionStatement(q)
  BY <1>2, RatingStatementTyped, InsertRatingTyped, WriteMilestonesTyped, InsertedTyped
     DEF ExecutionStatement
<1>3. QED
  BY <1>1, <1>2 DEF ExecStatement

LEMMA ExecBegins ==
  ASSUME Init
  PROVE  ExecInv
<1>1. req = [q \in Requests |-> Idle] /\ overlaps = 0 /\ deaths = 0
  BY DEF Init, ServerInit
<1>2. ServerTyped(Step) /\ \A q \in Requests : req[q] = Idle
  BY <1>1, IdleAimed DEF ServerTyped
<1>3. \A q \in Requests : Aimed(req[q])
  BY <1>2, IdleAimed
<1>4. ExecRows
  <2>1. \A S : <<>> \in Seq(S)
    OBVIOUS
  <2>2. progress \in Seq(Row) /\ items \in Seq(Seq(Item)) /\ Len(items) = Len(progress)
    BY <2>1 DEF Init
  <2>3. executions \in Seq(Nat) /\ ratings \in Seq(Rating)
    BY <2>1 DEF Init
  <2>4. QED
    BY <2>2, <2>3 DEF Init, ExecRows
<1>5. QED
  BY <1>2, <1>3, <1>4 DEF ExecInv

LEMMA ExecStutters ==
  ASSUME ExecInv, UNCHANGED vars
  PROVE  ExecInv'
BY DEF ExecInv, ExecRows, ServerTyped, Aimed, vars, server, edata, checklist, execution

LEMMA ExecStep ==
  ASSUME ExecInv, ExecutionAssumption, [Next]_vars
  PROVE  ExecInv'
<1>1. CASE Next
  BY <1>1, ExecStepIs, ExecArrivedTyped, ExecStatementTyped, CrashTyped
<1>2. QED
  BY <1>1, ExecStutters

LEMMA ExecSafe == Spec => []ExecInv
<1>1. Init => ExecInv
  BY ExecBegins
<1>2. ExecInv /\ [Next]_vars => ExecInv'
  BY ExecStep, ExecutionAssumption
<1>3. QED
  BY <1>1, <1>2, PTL DEF Spec

\* The rows of checklist and execution, the memory of every request and what it
\* points at keep their types, however requests overlap, die and boot.
THEOREM ExecutionTypeCorrect == Spec => []TypeOK
<1>1. ExecInv => TypeOK
  BY ExecTypes
<1>2. QED
  BY <1>1, ExecSafe, PTL

-----------------------------------------------------------------------------
(* One checklist, one execution, one rating.                               *)

\* What a request is about to do to the phase and the items of checklist p:
\* nothing, add the items of a phase, enter a phase, or add the items of a phase
\* that the checklist was in already when it was saved.
Role(r, p) ==
  IF r.at \notin Listing \/ r.p # p THEN "away"
  ELSE IF r.at = "addItems" THEN r.phase
  ELSE IF r.at \notin {"select", "update"} THEN "away"
  ELSE IF r.mem.phase = "DURING_SERVICE"
  THEN IF r.at = "update" /\ "phase" \notin r.dirty THEN "late DURING" ELSE "to DURING"
  ELSE IF r.at = "update" /\ "phase" \notin r.dirty THEN "late POST" ELSE "to POST"

\* What a statement may do to a checklist: it was in phase f and is in ff, the
\* request had role a and has b.
Turns(f, a, ff, b) ==
  \/ ff = f /\ b \in {a, "away"}
  \/ ff = f /\ a = "to DURING" /\ f = "DURING_SERVICE" /\ b \in {"late DURING", "DURING_SERVICE"}
  \/ a = "to DURING" /\ ff = "DURING_SERVICE" /\ b = "DURING_SERVICE"
  \/ ff = f /\ a = "late DURING" /\ b = "DURING_SERVICE"
  \/ ff = f /\ a = "to POST" /\ f = "POST_SERVICE" /\ b \in {"late POST", "POST_SERVICE"}
  \/ a = "to POST" /\ ff = "POST_SERVICE" /\ b = "POST_SERVICE"
  \/ ff = f /\ a = "late POST" /\ b = "POST_SERVICE"

\* What an arriving request may be.
Enters(f, b) ==
  \/ b = "away"
  \/ f = "PRE_SERVICE" /\ b = "to DURING"
  \/ f = "DURING_SERVICE" /\ b = "to POST"

LEMMA RoleIdle == \A p : Role(Idle, p) = "away"
BY DEF Role, Idle, Listing

LEMMA ArrivedRole ==
  ASSUME ExecInv, NEW r, ExecComes(r), NEW p \in DOMAIN progress
  PROVE  Enters(progress[p].phase, Role(r, p))
<1>1. CASE r.at \notin Listing \/ r.p # p
  BY <1>1 DEF Role, Enters
<1>2. CASE r.at \in Listing /\ r.p = p
  <2>1. r \in Step /\ r.at \in {"saveItem", "select"}
    BY <1>2 DEF ExecComes, Listing
  <2>2. progress[p] \in Row /\ progress[p].phase \in Phase
    BY ChecklistsAre DEF Row
  <2>3. CASE r.at = "saveItem"
    BY <1>2, <2>3 DEF Role, Enters
  <2>5. CASE r.at = "select"
    <3>1. r.mem = Entering(progress[p]) /\ progress[p].phase # "POST_SERVICE"
      BY <1>2, <2>5 DEF ExecComes
    <3>2. /\ r.mem.status = "IN_PROGRESS"
          /\ progress[p].phase = "PRE_SERVICE" => r.mem.phase = "DURING_SERVICE"
          /\ progress[p].phase = "DURING_SERVICE" => r.mem.phase = "POST_SERVICE"
      BY <2>2, <3>1, EnteringTyped
    <3>3. CASE progress[p].phase = "PRE_SERVICE"
      BY <1>2, <2>5, <3>2, <3>3 DEF Role, Enters
    <3>4. CASE progress[p].phase = "DURING_SERVICE"
      BY <1>2, <2>5, <3>2, <3>4 DEF Role, Enters
    <3>5. QED
      BY <2>2, <3>1, <3>3, <3>4 DEF Phase
  <2>6. QED
    BY <2>1, <2>3, <2>5
<1>3. QED
  BY <1>1, <1>2

\* What a request goes on with, if not with a checklist.
LEMMA RoleAway ==
  ASSUME ExecInv, NEW q \in Requests, NEW r, Go(q, r), NEW p, r.at \notin Listing \/ r.p # p
  PROVE  Role(req'[q], p) = "away"
<1>1. req'[q] = r
  BY ExecRequest DEF Go
<1>2. QED
  BY <1>1 DEF Role

\* After a save.
LEMMA AddsRole ==
  ASSUME ExecInv, NEW q \in Requests, NEW p, NEW mem \in Row, Adds(q, p, mem)
  PROVE  /\ \A o : o # p => Role(req'[q], o) = "away"
         /\ Role(req'[q], p) = mem.phase
<1>1. req \in [Requests -> Step]
  BY ExecRequest
<1>2. PICK r : r = [at |-> "addItems", p |-> p, phase |-> mem.phase]
  OBVIOUS
<1>3. req'[q] = r
  BY <1>1, <1>2 DEF Adds, Go
<1>4. r.at = "addItems" /\ r.p = p /\ r.phase = mem.phase
  BY <1>2
<1>5. QED
  BY <1>3, <1>4 DEF Role, Listing

Turned(q, o) == Turns(progress[o].phase, Role(req[q], o), progress'[o].phase, Role(req'[q], o))

\* A request that is done with the checklists, or goes on elsewhere.
LEMMA TurnsAway ==
  ASSUME ExecInv, NEW q \in Requests, NEW r, Go(q, r), NEW o,
         progress'[o].phase = progress[o].phase, r.at \notin Listing \/ r.p # o
  PROVE  Turned(q, o)
<1>1. Role(req'[q], o) = "away"
  BY RoleAway
<1>2. QED
  BY <1>1 DEF Turned, Turns

LEMMA PlainTurned ==
  ASSUME ExecInv, NEW q \in Requests, NEW o \in DOMAIN progress,
         \/ SeedNext(q) \/ InsertProgress(q) \/ AddItems(q) \/ SaveItem(q) \/ CountItems(q)
         \/ WritePercent(q) \/ ExecutionStatement(q) \/ Crash(q)
  PROVE  Turned(q, o)
<1>1. CASE SeedNext(q)
  <2>1. PICK r : Go(q, r) /\ r.at \notin Listing /\ UNCHANGED progress
    <3>1. PICK n : n = req[q].n
      OBVIOUS
    <3>2. \/ Go(q, Idle) /\ UNCHANGED progress
          \/ Go(q, [at |-> "seed", n |-> n + 1]) /\ UNCHANGED progress
      BY <1>1, <3>1, SeedIs
    <3>3. \A r : r = Idle \/ r = [at |-> "seed", n |-> n + 1] => r.at \notin Listing
      BY DEF Idle, Listing
    <3>4. QED
      BY <3>2, <3>3
  <2>2. QED
    BY <2>1, TurnsAway
<1>2. CASE InsertProgress(q)
  <2>1. PICK r, n : /\ r = [at |-> "addItems", p |-> n, phase |-> "PRE_SERVICE"]
                    /\ n = Len(progress) + 1
    OBVIOUS
  <2>2. progress' = Append(progress, NewList) /\ Go(q, r)
    BY <1>2, <2>1, InsertProgressIs
  <2>3. progress \in Seq(Row) /\ o \in 1..Len(progress)
    BY ChecklistsAre DEF ExecInv, ExecRows
  <2>4. progress'[o] = progress[o] /\ o # n
    BY <2>1, <2>2, <2>3
  <2>5. r.p # o
    BY <2>1, <2>4
  <2>6. QED
    BY <2>2, <2>4, <2>5, TurnsAway
<1>3. CASE AddItems(q)
  <2>1. Go(q, Idle) /\ UNCHANGED progress
    BY <1>3, AddItemsIs
  <2>2. QED
    BY <2>1, TurnsAway DEF Idle, Listing
<1>4. CASE SaveItem(q)
  <2>1. PICK p, r : p = req[q].p /\ r = [at |-> "count", p |-> p]
    OBVIOUS
  <2>2. Go(q, r) /\ UNCHANGED progress
    BY <1>4, <2>1, SaveItemIs
  <2>3. req'[q] = r
    BY <2>2, ExecRequest DEF Go
  <2>4. Role(r, o) = "away"
    BY <2>1 DEF Role
  <2>5. QED
    BY <2>2, <2>3, <2>4 DEF Turned, Turns
<1>5. CASE CountItems(q)
  <2>1. PICK p, x, r : p = req[q].p /\ x = Percentage(items[p])
                       /\ r = [at |-> "writePercent", p |-> p, percent |-> x]
    OBVIOUS
  <2>2. Go(q, r) /\ UNCHANGED progress
    BY <1>5, <2>1, CountItemsIs DEF checklist
  <2>3. req'[q] = r
    BY <2>2, ExecRequest DEF Go
  <2>4. Role(r, o) = "away"
    BY <2>1 DEF Role
  <2>5. QED
    BY <2>2, <2>3, <2>4 DEF Turned, Turns
<1>6. CASE WritePercent(q)
  <2>1. PICK p, n : p = req[q].p /\ n = [progress[p] EXCEPT !.percent = req[q].percent]
    OBVIOUS
  <2>2. /\ p \in DOMAIN progress /\ Go(q, Idle) /\ req[q].percent \in 0..100
        /\ progress' = [progress EXCEPT ![p].percent = req[q].percent]
    BY <1>6, <2>1, WritePercentIs
  <2>3. progress[p] \in Row
    BY <2>2, ChecklistsAre
  <2>4. n \in Row /\ n.phase = progress[p].phase
    BY <2>1, <2>2, <2>3 DEF Row
  <2>5. progress' = [progress EXCEPT ![p] = n]
    BY <2>1, <2>2
  <2>6. progress'[p] = n /\ \A oo \in DOMAIN progress : oo # p => progress'[oo] = progress[oo]
    BY <2>2, <2>4, <2>5, ListWritten
  <2>7. progress'[o].phase = progress[o].phase
    BY <2>4, <2>6
  <2>8. QED
    BY <2>2, <2>7, TurnsAway DEF Idle, Listing
<1>7. CASE ExecutionStatement(q)
  <2>1. UNCHANGED progress
    BY <1>7 DEF ExecutionStatement, InsertExecution, WriteMilestones, InsertSettlement,
       InsertFeedback, InsertRating, InsertReview, DeleteReviews, DeleteRating, checklist
  <2>2. PICK r : Go(q, r) /\ r.at \notin Listing
    <3>1. CASE InsertReview(q) \/ DeleteReviews(q) \/ DeleteRating(q)
      <4>1. PICK i, r : i = req[q].i /\ r = [at |-> "unrate", i |-> i]
        OBVIOUS
      <4>2. Go(q, Idle) \/ Go(q, r)
        BY <3>1, <4>1, RatingStatementIs
      <4>3. r.at \notin Listing /\ Idle.at \notin Listing
        BY <4>1 DEF Idle, Listing
      <4>4. QED
        BY <4>2, <4>3
    <3>2. CASE InsertRating(q)
      <4>1. PICK r : r = [at |-> "insertReview", i |-> Len(ratings) + 1]
        OBVIOUS
      <4>2. Go(q, Idle) \/ Go(q, r)
        BY <3>2, <4>1 DEF InsertRating, Answer
      <4>3. r.at \notin Listing /\ Idle.at \notin Listing
        BY <4>1 DEF Idle, Listing
      <4>4. QED
        BY <4>2, <4>3
    <3>3. CASE \/ InsertExecution(q) \/ InsertSettlement(q) \/ InsertFeedback(q)
               \/ WriteMilestones(q)
      <4>1. Go(q, Idle)
        BY <3>3 DEF InsertExecution, InsertSettlement, InsertFeedback, WriteMilestones, Answer
      <4>2. QED
        BY <4>1 DEF Idle, Listing
    <3>4. QED
      BY <1>7, <3>1, <3>2, <3>3 DEF ExecutionStatement
  <2>3. QED
    BY <2>1, <2>2, TurnsAway
<1>8. CASE Crash(q)
  <2>1. req'[q] = Idle /\ UNCHANGED progress
    BY <1>8, ExecRequest DEF Crash, Die, checklist
  <2>2. QED
    BY <2>1, RoleIdle DEF Turned, Turns
<1>9. QED
  BY <1>1, <1>2, <1>3, <1>4, <1>5, <1>6, <1>7, <1>8

LEMMA SelectTurned ==
  ASSUME ExecInv, NEW q \in Requests, NEW o \in DOMAIN progress, SelectProgress(q)
  PROVE  Turned(q, o)
<1>1. PICK p, mem, d, r, row : /\ p = req[q].p /\ mem = req[q].mem /\ row = progress[p]
                               /\ d = Differing(progress[p], mem)
                               /\ r = [at |-> "update", p |-> p, mem |-> mem, dirty |-> d]
  OBVIOUS
<1>2. /\ req[q].at = "select" /\ UNCHANGED progress /\ p \in DOMAIN progress
      /\ mem \in Row /\ mem.phase # "PRE_SERVICE"
      /\ (d = {} /\ Adds(q, p, mem)) \/ Go(q, r)
  BY <1>1, SelectProgressIs DEF checklist
<1>3. "phase" \notin d => row.phase = mem.phase
  BY <1>1 DEF Differing, Column
<1>4. mem.phase \in {"DURING_SERVICE", "POST_SERVICE"}
  BY <1>2 DEF Row, Phase
<1>5. Role(req[q], p) = IF mem.phase = "DURING_SERVICE" THEN "to DURING" ELSE "to POST"
  BY <1>1, <1>2 DEF Role, Listing
<1>6. CASE o # p
  <2>1. CASE Go(q, r)
    <3>1. r.p # o
      BY <1>1, <1>6
    <3>2. QED
      BY <1>2, <2>1, <3>1, TurnsAway
  <2>2. CASE Adds(q, p, mem)
    <3>1. Role(req'[q], o) = "away"
      BY <1>2, <1>6, <2>2, AddsRole
    <3>2. QED
      BY <1>2, <3>1 DEF Turned, Turns
  <2>3. QED
    BY <1>2, <2>1, <2>2
<1>7. CASE o = p /\ d = {} /\ Adds(q, p, mem)
  <2>1. row.phase = mem.phase /\ progress'[o].phase = row.phase /\ progress[o].phase = row.phase
    BY <1>1, <1>2, <1>3, <1>7
  <2>2. Role(req'[q], o) = mem.phase
    BY <1>2, <1>7, AddsRole
  <2>3. QED
    BY <1>4, <1>5, <1>7, <2>1, <2>2 DEF Turned, Turns
<1>8. CASE o = p /\ Go(q, r)
  <2>1. req'[q] = r
    BY <1>8, ExecRequest DEF Go
  <2>2. r.at = "update" /\ r.p = p /\ r.mem = mem /\ r.dirty = d
    BY <1>1
  <2>3. Role(r, p) = IF mem.phase = "DURING_SERVICE"
                     THEN IF "phase" \notin d THEN "late DURING" ELSE "to DURING"
                     ELSE IF "phase" \notin d THEN "late POST" ELSE "to POST"
    BY <2>2 DEF Role, Listing
  <2>4. progress'[o].phase = row.phase /\ progress[o].phase = row.phase
    BY <1>1, <1>2, <1>8
  <2>5. QED
    BY <1>3, <1>4, <1>5, <1>8, <2>1, <2>3, <2>4 DEF Turned, Turns
<1>9. QED
  BY <1>2, <1>6, <1>7, <1>8

LEMMA UpdateTurned ==
  ASSUME ExecInv, NEW q \in Requests, NEW o \in DOMAIN progress, UpdateProgress(q)
  PROVE  Turned(q, o)
<1>1. PICK p, mem, d, row, n : /\ p = req[q].p /\ mem = req[q].mem /\ row = progress[p]
                               /\ d = req[q].dirty /\ n = Merged(progress[p], mem, d)
  OBVIOUS
<1>2. /\ req[q].at = "update" /\ p \in DOMAIN progress
      /\ mem \in Row /\ mem.phase # "PRE_SERVICE"
      /\ progress' = [progress EXCEPT ![p] = Merged(@, mem, req[q].dirty)] /\ Adds(q, p, mem)
  BY <1>1, UpdateProgressIs
<1>3. row \in Row
  BY <1>1, <1>2, ChecklistsAre
<1>4. n \in Row /\ n.phase = IF "phase" \in d THEN mem.phase ELSE row.phase
  BY <1>1, <1>2, <1>3, MergedTyped
<1>5. progress' = [progress EXCEPT ![p] = n]
  BY <1>1, <1>2
<1>6. progress'[p] = n /\ \A oo \in DOMAIN progress : oo # p => progress'[oo] = progress[oo]
  BY <1>2, <1>4, <1>5, ListWritten
<1>7. mem.phase \in {"DURING_SERVICE", "POST_SERVICE"}
  BY <1>2 DEF Row, Phase
<1>8. Role(req[q], p) = IF mem.phase = "DURING_SERVICE"
                        THEN IF "phase" \notin d THEN "late DURING" ELSE "to DURING"
                        ELSE IF "phase" \notin d THEN "late POST" ELSE "to POST"
  BY <1>1, <1>2 DEF Role, Listing
<1>9. CASE o # p
  <2>1. Role(req'[q], o) = "away"
    BY <1>2, <1>9, AddsRole
  <2>2. QED
    BY <1>6, <1>9, <2>1 DEF Turned, Turns
<1>10. CASE o = p
  <2>1. Role(req'[q], o) = mem.phase
    BY <1>2, <1>10, AddsRole
  <2>2. progress[o].phase = row.phase
        /\ progress'[o].phase = IF "phase" \in d THEN mem.phase ELSE row.phase
    BY <1>1, <1>4, <1>6, <1>10
  <2>3. QED
    BY <1>7, <1>8, <1>10, <2>1, <2>2 DEF Turned, Turns
<1>11. QED
  BY <1>9, <1>10

LEMMA StatementTurned ==
  ASSUME ExecInv, NEW q \in Requests, NEW o \in DOMAIN progress, ExecStatement(q) \/ Crash(q)
  PROVE  Turned(q, o)
BY PlainTurned, SelectTurned, UpdateTurned DEF ExecStatement, ChecklistStatement

-----------------------------------------------------------------------------
(* The items of a checklist.                                               *)

LEMMA CopiesFinite ==
  ASSUME ExecInv, NEW p \in DOMAIN progress, NEW i
  PROVE  IsFiniteSet(Copies(p, i)) /\ Cardinality(Copies(p, i)) \in Nat
<1>1. items[p] \in Seq(Item) /\ Copies(p, i) \in SUBSET (1..Len(items[p]))
  BY ChecklistsAre DEF Copies
<1>2. Len(items[p]) \in Nat
  BY <1>1
<1>3. IsFiniteSet(1..Len(items[p]))
  BY <1>2, FS_Interval
<1>4. QED
  BY <1>1, <1>3, Fewer

\* A statement adds at most one copy of an item to a checklist, and only the one
\* that adds the items of its phase.
Brought(q, p, i) ==
  \/ Copies(p, i)' = Copies(p, i)
  \/ /\ Role(req[q], p) = PhaseOf[i] /\ Role(req'[q], p) = "away"
     /\ \E x : Copies(p, i)' \in SUBSET (Copies(p, i) \cup {x})

LEMMA AddItemsBrings ==
  ASSUME ExecInv, ExecutionAssumption, NEW q \in Requests, NEW o \in DOMAIN progress,
         NEW i \in Items, AddItems(q)
  PROVE  Brought(q, o, i)
<1>1. PICK p, s, a, f : p = req[q].p /\ s = items[p] /\ f = req[q].phase /\ a = Added(f)
  OBVIOUS
<1>2. /\ req[q].at = "addItems" /\ p \in DOMAIN progress /\ Go(q, Idle)
      /\ items' = [items EXCEPT ![p] = @ \o Added(req[q].phase)]
  BY <1>1, AddItemsIs
<1>3. s \in Seq(Item) /\ a \in Seq(Item) /\ s \o a \in Seq(Item)
  BY <1>1, <1>2, AddedIs, ChecklistsAre
<1>4. items' = [items EXCEPT ![p] = s \o a]
  BY <1>1, <1>2
<1>5. /\ items'[p] = s \o a
      /\ \A oo \in DOMAIN items : oo # p => items'[oo] = items[oo]
  BY <1>2, <1>3, <1>4, ItemsWritten
<1>6. DOMAIN items = DOMAIN progress
  BY ChecklistsAre
<1>7. CASE o # p
  BY <1>5, <1>6, <1>7 DEF Brought, Copies
<1>8. CASE o = p
  <2>1. PICK l, m : l = Len(s) /\ m = Len(a)
    OBVIOUS
  <2>2. /\ l \in Nat /\ m \in Nat /\ DOMAIN s = 1..l /\ DOMAIN (s \o a) = 1..(l + m)
        /\ \A j \in 1..l : (s \o a)[j] = s[j]
        /\ \A j \in 1..(l + m) : j \notin 1..l => j - l \in 1..m /\ (s \o a)[j] = a[j - l]
    BY <1>3, <2>1
  <2>3. Copies(o, i) = {j \in 1..l : s[j].item = i}
    BY <1>1, <1>8, <2>2 DEF Copies
  <2>4. Copies(o, i)' = {j \in 1..(l + m) : (s \o a)[j].item = i}
    BY <1>5, <1>8, <2>2 DEF Copies
  <2>5. /\ \A j \in 1..m : a[j].item \in TemplateItems(f)
        /\ \A j, k \in 1..m : a[j].item = a[k].item => j = k
    BY <1>1, <2>1, AddedIs
  <2>6. CASE i \notin TemplateItems(f)
    <3>1. \A j \in 1..(l + m) : (s \o a)[j].item = i => j \in 1..l
      BY <2>2, <2>5, <2>6
    <3>2. Copies(o, i)' = Copies(o, i)
      BY <2>2, <2>3, <2>4, <3>1
    <3>3. QED
      BY <3>2 DEF Brought
  <2>7. CASE i \in TemplateItems(f)
    <3>1. f = PhaseOf[i]
      BY <2>7 DEF TemplateItems
    <3>2. Role(req[q], o) = f /\ Role(req'[q], o) = "away"
      <4>1. req'[q] = Idle
        BY <1>2, ExecRequest DEF Go
      <4>2. QED
        BY <1>1, <1>2, <1>8, <4>1, RoleIdle DEF Role, Listing
    <3>3. PICK x : \A j \in 1..m : a[j].item = i => x = l + j
      <4>1. CASE \E j \in 1..m : a[j].item = i
        <5>1. PICK k \in 1..m : a[k].item = i
          BY <4>1
        <5>2. \A j \in 1..m : a[j].item = i => l + k = l + j
          BY <2>5, <5>1
        <5>3. QED
          BY <5>2
      <4>2. QED
        BY <4>1
    <3>4. \A j \in 1..(l + m) : j \notin 1..l /\ (s \o a)[j].item = i => j = x
      <4>1. SUFFICES ASSUME NEW j \in 1..(l + m), j \notin 1..l, (s \o a)[j].item = i
                     PROVE  j = x
        OBVIOUS
      <4>2. j - l \in 1..m /\ (s \o a)[j] = a[j - l]
        BY <2>2, <4>1
      <4>3. x = l + (j - l)
        BY <3>3, <4>1, <4>2
      <4>4. QED
        BY <2>2, <4>1, <4>3
    <3>5. \A j \in 1..(l + m) : (s \o a)[j].item = i => j = x \/ (j \in 1..l /\ s[j].item = i)
      BY <2>2, <3>4
    <3>6. Copies(o, i)' \in SUBSET (Copies(o, i) \cup {x})
      BY <2>3, <2>4, <3>5
    <3>7. QED
      BY <3>1, <3>2, <3>6 DEF Brought
  <2>8. QED
    BY <2>6, <2>7
<1>9. QED
  BY <1>7, <1>8

LEMMA SaveItemBrings ==
  ASSUME ExecInv, NEW q \in Requests, NEW o \in DOMAIN progress, NEW i \in Items, SaveItem(q)
  PROVE  Brought(q, o, i)
<1>1. PICK p, j, s, t, r : /\ p = req[q].p /\ j = req[q].j /\ s = items[p]
                           /\ t = Ticked(s, j, req[q].done) /\ r = [at |-> "count", p |-> p]
  OBVIOUS
<1>2. /\ UNCHANGED <<part, up, catalogue, progress, execution>>
      /\ p \in DOMAIN progress /\ j \in DOMAIN s /\ req[q].done \in BOOLEAN
      /\ Go(q, r) /\ items' = [items EXCEPT ![p][j].done = req[q].done]
  BY <1>1, SaveItemIs
<1>3. s \in Seq(Item) /\ DOMAIN items = DOMAIN progress
  BY <1>1, <1>2, ChecklistsAre
<1>4. t \in Seq(Item) /\ DOMAIN t = DOMAIN s /\ \A k \in DOMAIN s : t[k].item = s[k].item
  BY <1>1, <1>2, <1>3, TickedIs
<1>5. items' = [items EXCEPT ![p] = t]
  BY <1>1, <1>2 DEF Ticked
<1>6. items'[p] = t /\ \A oo \in DOMAIN items : oo # p => items'[oo] = items[oo]
  BY <1>2, <1>4, <1>5, ItemsWritten
<1>7. CASE o # p
  BY <1>3, <1>6, <1>7 DEF Brought, Copies
<1>8. CASE o = p
  <2>1. Copies(o, i) = {k \in DOMAIN s : s[k].item = i}
    BY <1>1, <1>8 DEF Copies
  <2>2. Copies(o, i)' = {k \in DOMAIN s : t[k].item = i}
    BY <1>4, <1>6, <1>8 DEF Copies
  <2>3. QED
    BY <1>4, <2>1, <2>2 DEF Brought
<1>9. QED
  BY <1>7, <1>8

LEMMA StatementBrings ==
  ASSUME ExecInv, ExecutionAssumption, NEW q \in Requests, NEW o \in DOMAIN progress,
         NEW i \in Items, ExecStatement(q) \/ Crash(q)
  PROVE  Brought(q, o, i)
<1>1. CASE AddItems(q)
  BY <1>1, AddItemsBrings
<1>2. CASE SaveItem(q)
  BY <1>2, SaveItemBrings
<1>3. CASE InsertProgress(q)
  <2>1. items' = Append(items, <<>>)
    BY <1>3, InsertProgressIs
  <2>2. items \in Seq(Seq(Item)) /\ o \in 1..Len(items)
    BY ChecklistsAre DEF ExecInv, ExecRows
  <2>3. items'[o] = items[o]
    BY <2>1, <2>2
  <2>4. QED
    BY <2>3 DEF Brought, Copies
<1>4. CASE SeedNext(q)
  BY <1>4 DEF SeedNext, Brought, Copies
<1>5. CASE CountItems(q) \/ WritePercent(q)
  BY <1>5 DEF CountItems, WritePercent, Brought, Copies, checklist
<1>6. CASE SelectProgress(q) \/ UpdateProgress(q)
  BY <1>6 DEF SelectProgress, UpdateProgress, Brought, Copies, checklist
<1>7. CASE ExecutionStatement(q)
  BY <1>7 DEF ExecutionStatement, InsertExecution, WriteMilestones, InsertSettlement,
     InsertFeedback, InsertRating, InsertReview, DeleteReviews, DeleteRating, checklist,
     Brought, Copies
<1>8. CASE Crash(q)
  BY <1>8 DEF Crash, Brought, Copies, checklist
<1>9. QED
  BY <1>1, <1>2, <1>3, <1>4, <1>5, <1>6, <1>7, <1>8 DEF ExecStatement, ChecklistStatement

-----------------------------------------------------------------------------
(* Who is about to bring the items of a phase.                             *)

WithRole(p, S) == {q \in Requests : Role(req[q], p) \in S}

RolesDuring == {"to DURING", "late DURING", "DURING_SERVICE"}
RolesPost   == {"to DURING", "to POST", "late POST", "POST_SERVICE"}
RolesFree   == {"to POST"}
RolesLater  == {"late DURING", "DURING_SERVICE", "to POST", "late POST", "POST_SERVICE"}

\* Nobody is beyond the first phase while the checklist is in it, and only its
\* items are there.
AtFirst(p) ==
  progress[p].phase = "PRE_SERVICE" =>
    /\ WithRole(p, RolesLater) = {}
    /\ \A i \in Items : PhaseOf[i] # "PRE_SERVICE" => Copies(p, i) = {}

\* The request that opens the checklist brings the items of the first phase.
BringsPre(p, i) ==
  Cardinality(Copies(p, i)) + Cardinality(WithRole(p, {"PRE_SERVICE"})) <= 1

\* Those that bring the items of the second have all looked in the first.
BringsDuring(p, i) ==
  progress[p].phase # "PRE_SERVICE" =>
    Cardinality(Copies(p, i)) + Cardinality(WithRole(p, RolesDuring)) <= 1 + overlaps

\* A checklist in the second phase that nobody is about to take further will be
\* taken further by a request that starts alone.
Spare(p) ==
  IF progress[p].phase = "DURING_SERVICE" /\ WithRole(p, RolesFree) = {} THEN 1 ELSE 0

\* One that goes back to the second phase is taken further again: who takes it
\* back is counted with those who bring the items of the last.
BringsPost(p, i) ==
  progress[p].phase # "PRE_SERVICE" =>
    Cardinality(Copies(p, i)) + Cardinality(WithRole(p, RolesPost)) + Spare(p) <= 1 + overlaps

Brings(p) ==
  /\ AtFirst(p)
  /\ \A i \in Items : /\ PhaseOf[i] = "PRE_SERVICE" => BringsPre(p, i)
                      /\ PhaseOf[i] = "DURING_SERVICE" => BringsDuring(p, i)
                      /\ PhaseOf[i] = "POST_SERVICE" => BringsPost(p, i)

LEMMA WithRoleFinite ==
  ASSUME BusyInv, NEW p, NEW S, "away" \notin S
  PROVE  /\ WithRole(p, S) \in SUBSET Busy /\ IsFiniteSet(WithRole(p, S))
         /\ Cardinality(WithRole(p, S)) \in Nat
         /\ Cardinality(WithRole(p, S)) <= 1 + overlaps \/ overlaps \notin Nat
<1>1. \A q \in Requests : ~InFlight(q) => Role(req[q], p) = "away"
  BY DEF InFlight, Role, Listing
<1>2. WithRole(p, S) \in SUBSET Busy
  BY <1>1 DEF WithRole, Busy
<1>3. /\ IsFiniteSet(WithRole(p, S)) /\ Cardinality(WithRole(p, S)) \in Nat
      /\ Cardinality(WithRole(p, S)) <= Cardinality(Busy) /\ Cardinality(Busy) \in Nat
  BY <1>2, Fewer DEF BusyInv
<1>4. QED
  BY <1>2, <1>3 DEF BusyInv

LEMMA WithRoleCounts ==
  BusyInv => \A p, S : "away" \notin S =>
    /\ WithRole(p, S) \in SUBSET Busy /\ IsFiniteSet(WithRole(p, S))
    /\ Cardinality(WithRole(p, S)) \in Nat
    /\ Cardinality(WithRole(p, S)) <= 1 + overlaps \/ overlaps \notin Nat
BY WithRoleFinite

LEMMA WithRoleCountsNext ==
  BusyInv' => (\A p, S : "away" \notin S =>
    /\ WithRole(p, S) \in SUBSET Busy /\ IsFiniteSet(WithRole(p, S))
    /\ Cardinality(WithRole(p, S)) \in Nat
    /\ Cardinality(WithRole(p, S)) <= 1 + overlaps \/ overlaps \notin Nat)'
BY WithRoleCounts, PTL

LEMMA WithRoleMoves ==
  ASSUME NEW q \in Requests, NEW p, NEW S, \A o \in Requests : o # q => req'[o] = req[o]
  PROVE  WithRole(p, S)' = IF Role(req'[q], p) \in S THEN WithRole(p, S) \cup {q}
                           ELSE WithRole(p, S) \ {q}
BY DEF WithRole

\* What c copies and the requests of A, which are about to bring one, and a spare
\* one, k, may become when o overlaps pay for them.
Budget(q, A, AA, c, cc, k, kk, o, oo) ==
  \/ AA \subseteq A /\ cc <= c /\ kk <= k /\ o <= oo
  \/ q \in A /\ AA \subseteq A \ {q} /\ o <= oo /\ cc + kk <= c + k + 1
  \/ AA \subseteq A \cup {q} /\ cc <= c /\ o <= oo /\ k = 1 /\ kk = 0
  \/ AA \subseteq A \cup {q} /\ cc <= c /\ kk <= k /\ oo = o + 1

LEMMA BudgetKept ==
  ASSUME NEW q, NEW A, IsFiniteSet(A), NEW AA, NEW c \in Nat, NEW cc \in Nat, NEW k \in {0, 1},
         NEW kk \in {0, 1}, NEW o \in Nat, NEW oo \in Nat,
         c + Cardinality(A) + k <= 1 + o, Budget(q, A, AA, c, cc, k, kk, o, oo)
  PROVE  cc + Cardinality(AA) + kk <= 1 + oo
<1>1. CASE AA \subseteq A /\ cc <= c /\ kk <= k /\ o <= oo
  <2>1. Cardinality(AA) \in Nat /\ Cardinality(A) \in Nat /\ Cardinality(AA) <= Cardinality(A)
    BY <1>1, Fewer
  <2>2. QED
    BY <1>1, <2>1
<1>2. CASE q \in A /\ AA \subseteq A \ {q} /\ o <= oo /\ cc + kk <= c + k + 1
  <2>1. /\ Cardinality(AA) \in Nat /\ Cardinality(A) \in Nat
        /\ Cardinality(AA) + 1 <= Cardinality(A)
    BY <1>2, OneLess
  <2>2. QED
    BY <1>2, <2>1
<1>3. CASE \/ AA \subseteq A \cup {q} /\ cc <= c /\ o <= oo /\ k = 1 /\ kk = 0
           \/ AA \subseteq A \cup {q} /\ cc <= c /\ kk <= k /\ oo = o + 1
  <2>1. /\ Cardinality(AA) \in Nat /\ Cardinality(A) \in Nat
        /\ Cardinality(AA) <= Cardinality(A) + 1
    BY <1>3, OneMore
  <2>2. QED
    BY <1>3, <2>1
<1>4. QED
  BY <1>1, <1>2, <1>3 DEF Budget

LEMMA CopiesBrought ==
  ASSUME ExecInv, ExecInv', DOMAIN progress \subseteq DOMAIN progress',
         NEW q \in Requests, NEW p \in DOMAIN progress, NEW i, Brought(q, p, i),
         NEW c, NEW cc, c = Cardinality(Copies(p, i)), cc = Cardinality(Copies(p, i)')
  PROVE  /\ c \in Nat /\ cc \in Nat
         /\ \/ cc = c
            \/ Role(req[q], p) = PhaseOf[i] /\ Role(req'[q], p) = "away" /\ cc <= c + 1
<1>1. PICK C, CC : C = Copies(p, i) /\ CC = Copies(p, i)'
  OBVIOUS
<1>2. IsFiniteSet(C) /\ c \in Nat
  BY <1>1, CopiesFinite
<1>3. CASE CC = C
  BY <1>1, <1>2, <1>3
<1>4. CASE /\ Role(req[q], p) = PhaseOf[i] /\ Role(req'[q], p) = "away"
           /\ \E x : CC \in SUBSET (C \cup {x})
  <2>1. PICK x : CC \in SUBSET (C \cup {x})
    BY <1>4
  <2>2. cc \in Nat /\ cc <= c + 1
    BY <1>1, <1>2, <2>1, OneMore
  <2>3. QED
    BY <1>2, <1>4, <2>2
<1>5. QED
  BY <1>1, <1>3, <1>4 DEF Brought

LEMMA SpareIs == \A p : Spare(p) \in {0, 1}
BY DEF Spare

\* A statement of q.
LEMMA AtFirstStays ==
  ASSUME ExecutionAssumption, NEW q \in Requests,
         \A o \in Requests : o # q => req'[o] = req[o],
         NEW p, AtFirst(p), Turned(q, p), \A i \in Items : Brought(q, p, i)
  PROVE  AtFirst(p)'
<1>1. SUFFICES ASSUME progress'[p].phase = "PRE_SERVICE"
               PROVE  /\ WithRole(p, RolesLater)' = {}
                      /\ \A i \in Items : PhaseOf[i] # "PRE_SERVICE" => Copies(p, i)' = {}
  BY DEF AtFirst
<1>2. PICK a, b, f, ff : /\ a = Role(req[q], p) /\ b = Role(req'[q], p)
                         /\ f = progress[p].phase /\ ff = progress'[p].phase
  OBVIOUS
<1>3. Turns(f, a, ff, b) /\ ff = "PRE_SERVICE"
  BY <1>1, <1>2 DEF Turned
<1>4. f = "PRE_SERVICE"
  BY <1>3 DEF Turns
<1>5. WithRole(p, RolesLater) = {} /\ a \notin RolesLater
  BY <1>2, <1>4 DEF AtFirst, WithRole
<1>6. b \notin RolesLater
  BY <1>3, <1>4, <1>5 DEF Turns, RolesLater
<1>7. WithRole(p, RolesLater)' = {}
  BY <1>2, <1>5, <1>6, WithRoleMoves
<1>8. ASSUME NEW i \in Items, PhaseOf[i] # "PRE_SERVICE" PROVE Copies(p, i)' = {}
  <2>1. PhaseOf[i] \in {"DURING_SERVICE", "POST_SERVICE"}
    BY <1>8 DEF ExecutionAssumption, Phase
  <2>2. a # PhaseOf[i]
    BY <1>5, <2>1 DEF RolesLater
  <2>3. Copies(p, i) = {}
    BY <1>2, <1>4, <1>8 DEF AtFirst
  <2>4. QED
    BY <1>2, <2>2, <2>3 DEF Brought
<1>9. QED
  BY <1>7, <1>8

LEMMA BringsPreStays ==
  ASSUME ExecInv, ExecInv', DOMAIN progress \subseteq DOMAIN progress', BusyInv,
         NEW q \in Requests, \A o \in Requests : o # q => req'[o] = req[o],
         NEW p \in DOMAIN progress, Turned(q, p), NEW i, Brought(q, p, i),
         PhaseOf[i] = "PRE_SERVICE", BringsPre(p, i)
  PROVE  BringsPre(p, i)'
<1>1. PICK a, b, A, AA, c, cc :
        /\ a = Role(req[q], p) /\ b = Role(req'[q], p)
        /\ A = WithRole(p, {"PRE_SERVICE"}) /\ AA = WithRole(p, {"PRE_SERVICE"})'
        /\ c = Cardinality(Copies(p, i)) /\ cc = Cardinality(Copies(p, i)')
  OBVIOUS
<1>2. /\ c \in Nat /\ cc \in Nat
      /\ cc = c \/ (a = "PRE_SERVICE" /\ b = "away" /\ cc <= c + 1)
  BY <1>1, CopiesBrought
<1>3. b = "PRE_SERVICE" => a = "PRE_SERVICE"
  BY <1>1 DEF Turned, Turns
<1>4. q \in A <=> a = "PRE_SERVICE"
  BY <1>1 DEF WithRole
<1>5. AA = IF b = "PRE_SERVICE" THEN A \cup {q} ELSE A \ {q}
  BY <1>1, WithRoleMoves
<1>6. Budget(q, A, AA, c, cc, 0, 0, 0, 0)
  BY <1>2, <1>3, <1>4, <1>5 DEF Budget
<1>7. IsFiniteSet(A) /\ c + Cardinality(A) <= 1 /\ Cardinality(A) \in Nat
  <2>1. "away" \notin {"PRE_SERVICE"}
    OBVIOUS
  <2>2. QED
    BY <1>1, <2>1, WithRoleFinite DEF BringsPre
<1>8. c + Cardinality(A) + 0 <= 1 + 0
  BY <1>2, <1>7
<1>9. cc + Cardinality(AA) + 0 <= 1 + 0
  BY <1>2, <1>6, <1>7, <1>8, BudgetKept
<1>10. IsFiniteSet(AA)
  BY <1>5, <1>7, FS_AddElement, FS_Subset
<1>11. cc + Cardinality(AA) <= 1
  BY <1>2, <1>9, <1>10, FS_CardinalityType
<1>12. QED
  BY <1>1, <1>11 DEF BringsPre

\* The first request that takes a checklist from the first phase to the second.
LEMMA LeavesFirst ==
  ASSUME ExecInv, ExecInv', BusyInv, BusyInv', DOMAIN progress \subseteq DOMAIN progress',
         NEW q \in Requests, \A o \in Requests : o # q => req'[o] = req[o],
         overlaps' = overlaps,
         NEW p \in DOMAIN progress, AtFirst(p), Turned(q, p), NEW i \in Items, Brought(q, p, i),
         PhaseOf[i] \in {"DURING_SERVICE", "POST_SERVICE"},
         progress[p].phase = "PRE_SERVICE", progress'[p].phase # "PRE_SERVICE"
  PROVE  /\ Copies(p, i)' = {} /\ Cardinality(Copies(p, i)') = 0
         /\ Role(req[q], p) = "to DURING" /\ Role(req'[q], p) = "DURING_SERVICE"
<1>1. PICK a, b, f, ff : /\ a = Role(req[q], p) /\ b = Role(req'[q], p)
                         /\ f = progress[p].phase /\ ff = progress'[p].phase
  OBVIOUS
<1>2. Turns(f, a, ff, b) /\ f = "PRE_SERVICE" /\ ff # "PRE_SERVICE"
  BY <1>1 DEF Turned
<1>3. WithRole(p, RolesLater) = {} /\ a \notin RolesLater
  BY <1>1 DEF AtFirst, WithRole
<1>4. a = "to DURING" /\ b = "DURING_SERVICE"
  BY <1>2, <1>3 DEF Turns, RolesLater
<1>5. Copies(p, i) = {}
  BY <1>1 DEF AtFirst
<1>6. Copies(p, i)' = {}
  BY <1>1, <1>4, <1>5 DEF Brought
<1>7. QED
  BY <1>1, <1>4, <1>6, FS_EmptySet

LEMMA BringsDuringStays ==
  ASSUME ExecInv, ExecInv', BusyInv, BusyInv', DOMAIN progress \subseteq DOMAIN progress',
         NEW q \in Requests, \A o \in Requests : o # q => req'[o] = req[o],
         overlaps' = overlaps,
         NEW p \in DOMAIN progress, AtFirst(p), Turned(q, p), NEW i \in Items, Brought(q, p, i),
         PhaseOf[i] = "DURING_SERVICE", BringsDuring(p, i)
  PROVE  BringsDuring(p, i)'
<1>1. PICK a, b, f, ff, A, AA, c, cc, n :
        /\ a = Role(req[q], p) /\ b = Role(req'[q], p)
        /\ f = progress[p].phase /\ ff = progress'[p].phase
        /\ A = WithRole(p, RolesDuring) /\ AA = WithRole(p, RolesDuring)'
        /\ c = Cardinality(Copies(p, i)) /\ cc = Cardinality(Copies(p, i)') /\ n = overlaps
  OBVIOUS
<1>2. "away" \notin RolesDuring
  BY DEF RolesDuring
<1>3. n \in Nat /\ overlaps' = n
  BY <1>1 DEF ExecInv, ServerTyped
<1>4. IsFiniteSet(A) /\ Cardinality(A) \in Nat
  BY <1>1, <1>2, WithRoleFinite
<1>6. IsFiniteSet(AA) /\ Cardinality(AA) \in Nat /\ Cardinality(AA) <= 1 + n
  BY <1>1, <1>2, <1>3, WithRoleCountsNext
<1>7. SUFFICES ASSUME ff # "PRE_SERVICE" PROVE cc + Cardinality(AA) <= 1 + n
  BY <1>1, <1>3 DEF BringsDuring
<1>8. CASE f = "PRE_SERVICE"
  <2>1. cc = 0
    BY <1>1, <1>7, <1>8, LeavesFirst
  <2>2. QED
    BY <1>3, <1>6, <2>1
<1>9. CASE f # "PRE_SERVICE"
  <2>1. /\ c \in Nat /\ cc \in Nat
        /\ cc = c \/ (a = "DURING_SERVICE" /\ b = "away" /\ cc <= c + 1)
    BY <1>1, CopiesBrought
  <2>2. Turns(f, a, ff, b)
    BY <1>1 DEF Turned
  <2>3. b \in RolesDuring => a \in RolesDuring
    BY <1>9, <2>2 DEF Turns, RolesDuring
  <2>4. q \in A <=> a \in RolesDuring
    BY <1>1 DEF WithRole
  <2>5. AA = IF b \in RolesDuring THEN A \cup {q} ELSE A \ {q}
    BY <1>1, WithRoleMoves
  <2>6. b = "away" => b \notin RolesDuring
    BY <1>2
  <2>7. a = "DURING_SERVICE" => a \in RolesDuring
    BY DEF RolesDuring
  <2>8. Budget(q, A, AA, c, cc, 0, 0, n, n)
    BY <1>3, <2>1, <2>3, <2>4, <2>5, <2>6, <2>7 DEF Budget
  <2>9. c + Cardinality(A) + 0 <= 1 + n
    BY <1>1, <1>4, <1>9, <2>1 DEF BringsDuring
  <2>10. cc + Cardinality(AA) + 0 <= 1 + n
    BY <1>3, <1>4, <2>1, <2>8, <2>9, BudgetKept
  <2>11. QED
    BY <1>3, <1>6, <2>1, <2>10
<1>10. QED
  BY <1>8, <1>9

LEMMA BringsPostStays ==
  ASSUME ExecInv, ExecInv', BusyInv, BusyInv', DOMAIN progress \subseteq DOMAIN progress',
         NEW q \in Requests, \A o \in Requests : o # q => req'[o] = req[o],
         overlaps' = overlaps,
         NEW p \in DOMAIN progress, AtFirst(p), Turned(q, p), NEW i \in Items, Brought(q, p, i),
         PhaseOf[i] = "POST_SERVICE", BringsPost(p, i)
  PROVE  BringsPost(p, i)'
<1>1. PICK a, b, f, ff, A, AA, B, BB, c, cc, k, kk, n :
        /\ a = Role(req[q], p) /\ b = Role(req'[q], p)
        /\ f = progress[p].phase /\ ff = progress'[p].phase
        /\ A = WithRole(p, RolesPost) /\ AA = WithRole(p, RolesPost)'
        /\ B = WithRole(p, RolesFree) /\ BB = WithRole(p, RolesFree)'
        /\ c = Cardinality(Copies(p, i)) /\ cc = Cardinality(Copies(p, i)')
        /\ k = Spare(p) /\ kk = Spare(p)' /\ n = overlaps
  OBVIOUS
<1>2. "away" \notin RolesPost
  BY DEF RolesPost
<1>3. n \in Nat /\ overlaps' = n
  BY <1>1 DEF ExecInv, ServerTyped
<1>4. IsFiniteSet(A) /\ Cardinality(A) \in Nat
  BY <1>1, <1>2, WithRoleFinite
<1>6. IsFiniteSet(AA) /\ Cardinality(AA) \in Nat
  BY <1>1, <1>2, WithRoleCountsNext
<1>7. /\ k = IF f = "DURING_SERVICE" /\ B = {} THEN 1 ELSE 0
      /\ kk = IF ff = "DURING_SERVICE" /\ BB = {} THEN 1 ELSE 0
  BY <1>1 DEF Spare
<1>8. SUFFICES ASSUME ff # "PRE_SERVICE" PROVE cc + Cardinality(AA) + kk <= 1 + n
  BY <1>1, <1>3 DEF BringsPost
<1>9. AA = IF b \in RolesPost THEN A \cup {q} ELSE A \ {q}
  BY <1>1, WithRoleMoves
<1>10. BB = IF b \in RolesFree THEN B \cup {q} ELSE B \ {q}
  BY <1>1, WithRoleMoves
<1>11. CASE f = "PRE_SERVICE"
  <2>1. cc = 0 /\ a = "to DURING" /\ b = "DURING_SERVICE"
    BY <1>1, <1>8, <1>11, LeavesFirst
  <2>2. b \notin RolesPost
    BY <2>1 DEF RolesPost
  <2>3. A \in SUBSET Busy /\ q \in Busy
    <3>1. q \in A
      BY <1>1, <2>1 DEF WithRole, RolesPost
    <3>2. QED
      BY <1>1, <1>2, <3>1, WithRoleFinite
  <2>4. AA \in SUBSET (Busy \ {q})
    BY <1>9, <2>2, <2>3
  <2>5. /\ Cardinality(AA) + 1 <= Cardinality(Busy) /\ Cardinality(Busy) \in Nat
        /\ Cardinality(Busy) <= 1 + n
    BY <1>1, <2>3, <2>4, OneLess DEF BusyInv
  <2>6. kk \in Nat /\ kk <= 1
    BY <1>7
  <2>7. PICK x : x = Cardinality(AA)
    OBVIOUS
  <2>8. x \in Nat /\ x + 1 <= 1 + n
    BY <1>3, <1>6, <2>5, <2>7
  <2>9. cc + x + kk <= 1 + n
    <3>1. cc = 0
      BY <2>1
    <3>2. QED
      BY <1>3, <2>6, <2>8, <3>1
  <2>10. QED
    BY <2>7, <2>9
<1>12. CASE f # "PRE_SERVICE"
  <2>1. /\ c \in Nat /\ cc \in Nat
        /\ cc = c \/ (a = "POST_SERVICE" /\ b = "away" /\ cc <= c + 1)
    BY <1>1, CopiesBrought
  <2>2. Turns(f, a, ff, b)
    BY <1>1 DEF Turned
  <2>3. q \in A <=> a \in RolesPost
    BY <1>1 DEF WithRole
  <2>4. q \in B <=> a \in RolesFree
    BY <1>1 DEF WithRole
  <2>5. k \in {0, 1} /\ kk \in {0, 1}
    BY <1>7
  <2>6. Budget(q, A, AA, c, cc, k, kk, n, n)
    <3>1. CASE b \in RolesPost
      <4>1. a \in RolesPost
        BY <1>12, <2>2, <3>1 DEF Turns, RolesPost
      <4>2. cc = c
        BY <1>2, <2>1, <3>1
      <4>3. ff = "DURING_SERVICE" /\ b \notin RolesFree => f = "DURING_SERVICE" /\ a \notin RolesFree
        BY <1>12, <2>2, <3>1 DEF Turns, RolesPost, RolesFree
      <4>4. kk = 1 => k = 1
        <5>1. SUFFICES ASSUME ff = "DURING_SERVICE", BB = {} PROVE k = 1
          BY <1>7
        <5>2. b \notin RolesFree
          BY <1>10, <5>1
        <5>3. f = "DURING_SERVICE" /\ a \notin RolesFree
          BY <4>3, <5>1, <5>2
        <5>4. B = {}
          BY <1>10, <2>4, <5>1, <5>2, <5>3
        <5>5. QED
          BY <1>7, <5>3, <5>4
      <4>5. AA \subseteq A /\ cc <= c /\ kk <= k
        BY <1>9, <2>1, <2>3, <2>5, <3>1, <4>1, <4>2, <4>4
      <4>6. Budget(q, A, AA, c, cc, k, kk, n, n)
        BY <1>3, <4>5 DEF Budget
      <4>7. QED
        BY <4>6
    <3>2. CASE b \notin RolesPost /\ a \in RolesPost
      <4>1. q \in A /\ AA \subseteq A \ {q}
        BY <1>9, <2>3, <3>2
      <4>2. cc # c => kk = k
        <5>1. SUFFICES ASSUME cc # c PROVE kk = k
          OBVIOUS
        <5>2. a = "POST_SERVICE" /\ b = "away"
          BY <2>1, <5>1
        <5>3. ff = f
          BY <2>2, <5>2 DEF Turns
        <5>4. a \notin RolesFree /\ b \notin RolesFree
          BY <5>2 DEF RolesFree
        <5>5. BB = B
          BY <1>10, <2>4, <5>4
        <5>6. QED
          BY <1>7, <5>3, <5>5
      <4>3. cc + kk <= c + k + 1
        BY <2>1, <2>5, <4>2
      <4>4. QED
        BY <1>3, <4>1, <4>3 DEF Budget
    <3>3. CASE b \notin RolesPost /\ a \notin RolesPost
      <4>1. AA \subseteq A
        BY <1>9, <3>3
      <4>2. cc = c
        BY <2>1, <3>3 DEF RolesPost
      <4>3. ff = "DURING_SERVICE" => f = "DURING_SERVICE"
        BY <2>2, <3>3 DEF Turns, RolesPost
      <4>4. a \notin RolesFree /\ b \notin RolesFree
        BY <3>3 DEF RolesPost, RolesFree
      <4>5. BB = B
        BY <1>10, <2>4, <4>4
      <4>6. kk <= k
        BY <1>7, <4>3, <4>5
      <4>7. QED
        BY <1>3, <2>1, <4>1, <4>2, <4>6 DEF Budget
    <3>4. QED
      BY <3>1, <3>2, <3>3
  <2>7. c + Cardinality(A) + k <= 1 + n
    BY <1>1, <1>12 DEF BringsPost
  <2>8. QED
    BY <1>3, <1>4, <2>1, <2>5, <2>6, <2>7, BudgetKept
<1>13. QED
  BY <1>11, <1>12

LEMMA BringsStays ==
  ASSUME ExecInv, ExecInv', ExecutionAssumption, BusyInv, BusyInv',
         DOMAIN progress \subseteq DOMAIN progress',
         NEW q \in Requests, \A o \in Requests : o # q => req'[o] = req[o], overlaps' = overlaps,
         NEW p \in DOMAIN progress, Turned(q, p), \A i \in Items : Brought(q, p, i), Brings(p)
  PROVE  Brings(p)'
<1>1. AtFirst(p) /\ AtFirst(p)'
  BY AtFirstStays DEF Brings
<1>2. ASSUME NEW i \in Items, PhaseOf[i] = "PRE_SERVICE" PROVE BringsPre(p, i)'
  BY <1>2, BringsPreStays DEF Brings
<1>3. ASSUME NEW i \in Items, PhaseOf[i] = "DURING_SERVICE" PROVE BringsDuring(p, i)'
  BY <1>1, <1>3, BringsDuringStays DEF Brings
<1>4. ASSUME NEW i \in Items, PhaseOf[i] = "POST_SERVICE" PROVE BringsPost(p, i)'
  BY <1>1, <1>4, BringsPostStays DEF Brings
<1>5. QED
  BY <1>1, <1>2, <1>3, <1>4 DEF Brings

\* A request that arrives.
LEMMA BringsArrives ==
  ASSUME ExecInv, BusyInv, NEW q \in Requests, NEW r, ExecComes(r), Start(q, r),
         UNCHANGED <<progress, items>>, NEW p \in DOMAIN progress, Brings(p)
  PROVE  Brings(p)'
<1>1. PICK b, f : b = Role(r, p) /\ f = progress[p].phase
  OBVIOUS
<1>2. Enters(f, b)
  BY <1>1, ArrivedRole
<1>3. /\ req'[q] = r /\ \A o \in Requests : o # q => req'[o] = req[o]
      /\ \A S : WithRole(p, S)' = IF b \in S THEN WithRole(p, S) \cup {q} ELSE WithRole(p, S) \ {q}
  <2>1. req \in [Requests -> Step]
    BY ExecRequest
  <2>2. req'[q] = r /\ \A o \in Requests : o # q => req'[o] = req[o]
    BY <2>1 DEF Start
  <2>3. QED
    BY <1>1, <2>2, WithRoleMoves
<1>4. Role(req[q], p) = "away"
  <2>1. req[q].at = "idle"
    BY DEF Start, InFlight
  <2>2. QED
    BY <2>1 DEF Role, Listing
<1>5. \A S : "away" \notin S => q \notin WithRole(p, S)
  BY <1>4 DEF WithRole
<1>6. /\ progress'[p].phase = f /\ progress[p].phase = f
      /\ \A i : Copies(p, i)' = Copies(p, i)
  BY <1>1 DEF Copies
<1>7. PICK n, nn : n = overlaps /\ nn = overlaps'
  OBVIOUS
<1>8. n \in Nat /\ nn \in Nat /\ n <= nn /\ (Quiet \/ nn = n + 1)
  <2>1. overlaps \in Nat /\ overlaps' = IF Quiet THEN overlaps ELSE overlaps + 1
    BY DEF ExecInv, ServerTyped, Start
  <2>2. QED
    BY <1>7, <2>1
<1>9. \A S : b \notin S /\ "away" \notin S => WithRole(p, S)' = WithRole(p, S)
  BY <1>3, <1>5
<1>10. AtFirst(p)'
  <2>1. SUFFICES ASSUME f = "PRE_SERVICE"
                 PROVE  /\ WithRole(p, RolesLater)' = {}
                        /\ \A i \in Items : PhaseOf[i] # "PRE_SERVICE" => Copies(p, i)' = {}
    BY <1>6 DEF AtFirst
  <2>2. b \notin RolesLater /\ "away" \notin RolesLater
    BY <1>2, <2>1 DEF Enters, RolesLater
  <2>3. QED
    BY <1>6, <1>9, <2>1, <2>2 DEF Brings, AtFirst
<1>11. ASSUME NEW i \in Items, PhaseOf[i] = "PRE_SERVICE" PROVE BringsPre(p, i)'
  <2>1. b \notin {"PRE_SERVICE"} /\ "away" \notin {"PRE_SERVICE"}
    BY <1>2 DEF Enters
  <2>2. WithRole(p, {"PRE_SERVICE"})' = WithRole(p, {"PRE_SERVICE"})
    BY <1>9, <2>1
  <2>3. QED
    BY <1>6, <1>11, <2>2 DEF Brings, BringsPre
<1>12. ASSUME NEW i \in Items, PhaseOf[i] = "DURING_SERVICE" PROVE BringsDuring(p, i)'
  <2>1. SUFFICES ASSUME f # "PRE_SERVICE"
                 PROVE  Cardinality(Copies(p, i)') + Cardinality(WithRole(p, RolesDuring)') <= 1 + nn
    BY <1>6, <1>7 DEF BringsDuring
  <2>2. b \notin RolesDuring /\ "away" \notin RolesDuring
    BY <1>2, <2>1 DEF Enters, RolesDuring
  <2>3. WithRole(p, RolesDuring)' = WithRole(p, RolesDuring)
    BY <1>9, <2>2
  <2>4. PICK c, m : c = Cardinality(Copies(p, i)) /\ m = Cardinality(WithRole(p, RolesDuring))
    OBVIOUS
  <2>5. c \in Nat /\ m \in Nat
    BY <2>2, <2>4, CopiesFinite, WithRoleFinite
  <2>6. c + m <= 1 + n
    BY <1>6, <1>7, <1>12, <2>1, <2>4 DEF Brings, BringsDuring
  <2>7. c + m <= 1 + nn
    BY <1>8, <2>5, <2>6
  <2>8. QED
    BY <1>6, <2>3, <2>4, <2>7
<1>13. ASSUME NEW i \in Items, PhaseOf[i] = "POST_SERVICE" PROVE BringsPost(p, i)'
  <2>1. PICK A, AA, B, BB, c, k, kk :
          /\ A = WithRole(p, RolesPost) /\ AA = WithRole(p, RolesPost)'
          /\ B = WithRole(p, RolesFree) /\ BB = WithRole(p, RolesFree)'
          /\ c = Cardinality(Copies(p, i)) /\ k = Spare(p) /\ kk = Spare(p)'
    OBVIOUS
  <2>2. SUFFICES ASSUME f # "PRE_SERVICE" PROVE c + Cardinality(AA) + kk <= 1 + nn
    BY <1>6, <1>7, <2>1 DEF BringsPost
  <2>3. /\ k = IF f = "DURING_SERVICE" /\ B = {} THEN 1 ELSE 0
        /\ kk = IF f = "DURING_SERVICE" /\ BB = {} THEN 1 ELSE 0
    BY <1>6, <2>1 DEF Spare
  <2>4. k \in {0, 1} /\ kk \in {0, 1}
    BY <2>3
  <2>5. "away" \notin RolesPost /\ "away" \notin RolesFree
    BY DEF RolesPost, RolesFree
  <2>6. IsFiniteSet(A) /\ c \in Nat
    BY <2>1, <2>5, CopiesFinite, WithRoleFinite
  <2>7. Budget(q, A, AA, c, c, k, kk, n, nn)
    <3>1. CASE b \notin RolesPost
      <4>1. b \notin RolesFree
        BY <3>1 DEF RolesPost, RolesFree
      <4>2. AA = A /\ BB = B
        BY <1>9, <2>1, <2>5, <3>1, <4>1
      <4>3. kk = k
        BY <2>3, <4>2
      <4>4. QED
        BY <1>8, <2>4, <2>6, <4>2, <4>3 DEF Budget
    <3>2. CASE b \in RolesPost
      <4>1. f = "DURING_SERVICE" /\ b \in RolesFree
        BY <1>2, <2>2, <3>2 DEF Enters, RolesPost, RolesFree
      <4>2. AA \subseteq A \cup {q} /\ BB = B \cup {q}
        BY <1>3, <2>1, <3>2, <4>1
      <4>3. kk = 0
        BY <2>3, <4>2
      <4>4. CASE Quiet
        <5>1. B = {}
          <6>1. \A o \in Requests : Role(req[o], p) = "away"
            BY <4>4 DEF Quiet, InFlight, Role, Listing
          <6>2. QED
            BY <2>1, <2>5, <6>1 DEF WithRole
        <5>2. k = 1
          BY <2>3, <4>1, <5>1
        <5>3. QED
          BY <1>8, <2>6, <4>2, <4>3, <5>2 DEF Budget
      <4>5. CASE nn = n + 1
        BY <1>8, <2>4, <2>6, <4>2, <4>3, <4>5 DEF Budget
      <4>6. QED
        BY <1>8, <4>4, <4>5
    <3>3. QED
      BY <3>1, <3>2
  <2>8. c + Cardinality(A) + k <= 1 + n
    BY <1>6, <1>7, <1>13, <2>1, <2>2 DEF Brings, BringsPost
  <2>9. PICK cc : cc = c
    OBVIOUS
  <2>10. Budget(q, A, AA, c, cc, k, kk, n, nn) /\ cc \in Nat
    BY <2>6, <2>7, <2>9
  <2>11. cc + Cardinality(AA) + kk <= 1 + nn
    <3>1. n \in Nat /\ nn \in Nat
      BY <1>8
    <3>2. IsFiniteSet(A) /\ c \in Nat /\ cc \in Nat
      BY <2>6, <2>10
    <3>3. Budget(q, A, AA, c, cc, k, kk, n, nn)
      BY <2>10
    <3>4. QED
      BY <2>4, <2>8, <3>1, <3>2, <3>3, BudgetKept
  <2>12. QED
    BY <2>9, <2>11
<1>14. QED
  BY <1>10, <1>11, <1>12, <1>13 DEF Brings

\* A checklist that has just been opened.
LEMMA BringsNew ==
  ASSUME ExecInv, ExecutionAssumption, NEW q \in Requests, InsertProgress(q),
         \A o \in Requests : o # q => req'[o] = req[o],
         NEW p, p \in DOMAIN progress', p \notin DOMAIN progress
  PROVE  Brings(p)'
<1>1. PICK r, l : r = [at |-> "addItems", p |-> l, phase |-> "PRE_SERVICE"]
                  /\ l = Len(progress) + 1
  OBVIOUS
<1>2. progress' = Append(progress, NewList) /\ items' = Append(items, <<>>) /\ Go(q, r)
  BY <1>1, InsertProgressIs
<1>3. /\ progress \in Seq(Row) /\ items \in Seq(Seq(Item)) /\ Len(items) = Len(progress)
      /\ DOMAIN progress = 1..Len(progress) /\ Len(progress) \in Nat
  BY ChecklistsAre DEF ExecInv, ExecRows
<1>4. p = l /\ items'[p] = <<>> /\ progress'[p] = NewList
  <2>1. DOMAIN progress' = 1..l /\ progress'[l] = NewList
    BY <1>1, <1>2, <1>3
  <2>2. p = l
    BY <1>1, <1>3, <2>1
  <2>3. items'[l] = <<>>
    BY <1>1, <1>2, <1>3
  <2>4. QED
    BY <2>1, <2>2, <2>3
<1>5. progress'[p].phase = "PRE_SERVICE"
  BY <1>4 DEF NewList
<1>6. \A i : Copies(p, i)' = {}
  BY <1>4 DEF Copies
<1>7. req'[q] = r
  BY <1>2, ExecRequest DEF Go
<1>8. r.at = "addItems" /\ r.p = p /\ r.phase = "PRE_SERVICE"
  BY <1>1, <1>4
<1>9. Role(req'[q], p) = "PRE_SERVICE"
  BY <1>7, <1>8 DEF Role, Listing
<1>10. ASSUME NEW o \in Requests, o # q PROVE Role(req'[o], p) = "away"
  <2>1. req'[o] = req[o] /\ Aimed(req[o])
    BY <1>10, ExecRequest
  <2>2. req[o].at \notin Listing \/ req[o].p # p
    BY <2>1 DEF Aimed
  <2>3. QED
    BY <2>1, <2>2 DEF Role
<1>11. WithRole(p, RolesLater)' = {}
  BY <1>9, <1>10 DEF WithRole, RolesLater
<1>12. WithRole(p, {"PRE_SERVICE"})' = {q}
  BY <1>9, <1>10 DEF WithRole
<1>13. AtFirst(p)'
  BY <1>6, <1>11 DEF AtFirst
<1>14. \A i : BringsPre(p, i)'
  <2>1. Cardinality({q}) = 1 /\ Cardinality({}) = 0
    BY FS_EmptySet, FS_Singleton
  <2>2. ASSUME NEW i PROVE BringsPre(p, i)'
    <3>1. /\ Cardinality(Copies(p, i)') = 0
          /\ Cardinality(WithRole(p, {"PRE_SERVICE"})') = 1
      BY <1>6, <1>12, <2>1
    <3>2. QED
      BY <3>1 DEF BringsPre
  <2>3. QED
    BY <2>2
<1>15. \A i : BringsDuring(p, i)' /\ BringsPost(p, i)'
  BY <1>5 DEF BringsDuring, BringsPost
<1>16. QED
  BY <1>13, <1>14, <1>15 DEF Brings

-----------------------------------------------------------------------------
(* Who is about to insert a row that is to be there once.                  *)

\* Steps that only a request that arrives is at.
Opening == {"insertProgress", "saveItem", "insertExecution", "milestone",
            "insertSettlement", "insertFeedback", "insertRating", "unreview"}

LEMMA StatementGoes ==
  ASSUME ExecInv, NEW q \in Requests, ExecStatement(q) \/ Crash(q)
  PROVE  req'[q].at \notin Opening
<1>1. req \in [Requests -> Step]
  BY ExecRequest
<1>2. ASSUME NEW r, Go(q, r), r.at \notin Opening PROVE req'[q].at \notin Opening
  BY <1>1, <1>2 DEF Go
<1>3. Idle.at \notin Opening
  BY DEF Idle, Opening
<1>4. CASE SeedNext(q)
  <2>1. PICK n, r : n = req[q].n /\ r = [at |-> "seed", n |-> n + 1]
    OBVIOUS
  <2>2. Go(q, Idle) \/ Go(q, r)
    BY <1>4, <2>1, SeedIs
  <2>3. r.at \notin Opening
    BY <2>1 DEF Opening
  <2>4. QED
    BY <1>2, <1>3, <2>2, <2>3
<1>5. CASE InsertProgress(q)
  <2>1. PICK r : r = [at |-> "addItems", p |-> Len(progress) + 1, phase |-> "PRE_SERVICE"]
    OBVIOUS
  <2>2. Go(q, r)
    BY <1>5, <2>1, InsertProgressIs
  <2>3. r.at \notin Opening
    BY <2>1 DEF Opening
  <2>4. QED
    BY <1>2, <2>2, <2>3
<1>6. CASE AddItems(q) \/ WritePercent(q)
  <2>1. Go(q, Idle)
    BY <1>6, AddItemsIs, WritePercentIs
  <2>2. QED
    BY <1>2, <1>3, <2>1
<1>7. CASE SaveItem(q)
  <2>1. PICK p, j, r : p = req[q].p /\ j = req[q].j /\ r = [at |-> "count", p |-> p]
    OBVIOUS
  <2>2. Go(q, r)
    BY <1>7, <2>1, SaveItemIs
  <2>3. r.at \notin Opening
    BY <2>1 DEF Opening
  <2>4. QED
    BY <1>2, <2>2, <2>3
<1>8. CASE CountItems(q)
  <2>1. PICK p, r : p = req[q].p
                    /\ r = [at |-> "writePercent", p |-> p, percent |-> Percentage(items[p])]
    OBVIOUS
  <2>2. Go(q, r)
    BY <1>8, <2>1, CountItemsIs
  <2>3. r.at \notin Opening
    BY <2>1 DEF Opening
  <2>4. QED
    BY <1>2, <2>2, <2>3
<1>11. CASE SelectProgress(q) \/ UpdateProgress(q)
  <2>1. PICK p, mem, r : /\ p = req[q].p /\ mem = req[q].mem
                         /\ r = [at |-> "update", p |-> p, mem |-> mem,
                                 dirty |-> Differing(progress[p], mem)]
    OBVIOUS
  <2>2. p \in DOMAIN progress /\ mem \in Row /\ (Adds(q, p, mem) \/ Go(q, r))
    <3>1. CASE SelectProgress(q)
      BY <2>1, <3>1, SelectProgressIs
    <3>2. CASE UpdateProgress(q)
      BY <2>1, <3>2, UpdateProgressIs
    <3>3. QED
      BY <1>11, <3>1, <3>2
  <2>3. r.at \notin Opening
    BY <2>1 DEF Opening
  <2>4. CASE Adds(q, p, mem)
    <3>1. PICK rr : Go(q, rr) /\ rr.at = "addItems"
      BY <2>2, <2>4, AddsAimed
    <3>2. QED
      BY <1>2, <3>1 DEF Opening
  <2>5. QED
    BY <1>2, <2>2, <2>3, <2>4
<1>12. CASE InsertReview(q) \/ DeleteReviews(q) \/ DeleteRating(q)
  <2>1. PICK i, r : i = req[q].i /\ r = [at |-> "unrate", i |-> i]
    OBVIOUS
  <2>2. Go(q, Idle) \/ Go(q, r)
    BY <1>12, <2>1, RatingStatementIs
  <2>3. r.at \notin Opening
    BY <2>1 DEF Opening
  <2>4. QED
    BY <1>2, <1>3, <2>2, <2>3
<1>13. CASE InsertRating(q)
  <2>1. PICK r : r = [at |-> "insertReview", i |-> Len(ratings) + 1]
    OBVIOUS
  <2>2. Go(q, Idle) \/ Go(q, r)
    BY <1>13, <2>1 DEF InsertRating, Answer
  <2>3. r.at \notin Opening
    BY <2>1 DEF Opening
  <2>4. QED
    BY <1>2, <1>3, <2>2, <2>3
<1>14. CASE InsertExecution(q) \/ InsertSettlement(q) \/ InsertFeedback(q) \/ WriteMilestones(q)
  <2>1. Go(q, Idle)
    BY <1>14 DEF InsertExecution, InsertSettlement, InsertFeedback, WriteMilestones, Answer
  <2>2. QED
    BY <1>2, <1>3, <2>1
<1>15. CASE Crash(q)
  <2>1. req'[q] = Idle
    BY <1>1, <1>15 DEF Crash, Die
  <2>2. QED
    BY <1>3, <2>1
<1>16. QED
  BY <1>4, <1>5, <1>6, <1>7, <1>8, <1>11, <1>12, <1>13, <1>14, <1>15
     DEF ExecStatement, ChecklistStatement, ExecutionStatement

Waiting(at) == {q \in Requests : req[q].at = at}

\* n rows are there, and every one that is about to be inserted once more has
\* overlapped another.
Once(at, n) == n + Cardinality(Waiting(at)) <= 1 + overlaps

LEMMA WaitingFinite ==
  BusyInv => \A at \in Opening :
    /\ Waiting(at) \in SUBSET Busy /\ IsFiniteSet(Waiting(at))
    /\ Cardinality(Waiting(at)) \in Nat
    /\ Cardinality(Waiting(at)) <= 1 + overlaps \/ overlaps \notin Nat
<1>1. SUFFICES ASSUME BusyInv, NEW at \in Opening
               PROVE  /\ Waiting(at) \in SUBSET Busy /\ IsFiniteSet(Waiting(at))
                      /\ Cardinality(Waiting(at)) \in Nat
                      /\ Cardinality(Waiting(at)) <= 1 + overlaps \/ overlaps \notin Nat
  OBVIOUS
<1>2. Waiting(at) \in SUBSET Busy
  BY DEF Waiting, Busy, InFlight, Opening
<1>3. /\ IsFiniteSet(Waiting(at)) /\ Cardinality(Waiting(at)) \in Nat
      /\ Cardinality(Waiting(at)) <= Cardinality(Busy) /\ Cardinality(Busy) \in Nat
  BY <1>1, <1>2, Fewer DEF BusyInv
<1>4. QED
  BY <1>1, <1>2, <1>3 DEF BusyInv

LEMMA WaitingFiniteNext ==
  BusyInv' => (\A at \in Opening :
    /\ Waiting(at) \in SUBSET Busy /\ IsFiniteSet(Waiting(at))
    /\ Cardinality(Waiting(at)) \in Nat
    /\ Cardinality(Waiting(at)) <= 1 + overlaps \/ overlaps \notin Nat)'
BY WaitingFinite, PTL

LEMMA OnceArrives ==
  ASSUME ExecInv, BusyInv, BusyInv', NEW q \in Requests, NEW r, Start(q, r),
         NEW at \in Opening, NEW n \in Nat, Once(at, n), r.at = at => n = 0
  PROVE  n + Cardinality(Waiting(at)') <= 1 + overlaps'
<1>1. PICK m, mm, o, oo : /\ m = Cardinality(Waiting(at)) /\ mm = Cardinality(Waiting(at)')
                          /\ o = overlaps /\ oo = overlaps'
  OBVIOUS
<1>2. /\ req'[q] = r /\ (\A p \in Requests : p # q => req'[p] = req[p])
      /\ o \in Nat /\ oo \in Nat /\ o <= oo
  BY <1>1 DEF ExecInv, ServerTyped, Start
<1>3. m \in Nat /\ mm \in Nat /\ mm <= 1 + oo
  BY <1>1, <1>2, WaitingFinite, WaitingFiniteNext
<1>4. CASE r.at = at
  BY <1>1, <1>2, <1>3, <1>4
<1>5. CASE r.at # at
  <2>1. ~InFlight(q)
    BY DEF Start
  <2>2. Waiting(at)' = Waiting(at)
    BY <1>2, <1>5, <2>1 DEF Waiting, InFlight, Opening
  <2>3. n + m <= 1 + o
    BY <1>1 DEF Once
  <2>4. mm = m
    BY <1>1, <2>2
  <2>5. n + mm <= 1 + oo
    BY <1>2, <1>3, <2>3, <2>4
  <2>6. QED
    BY <1>1, <2>5
<1>6. QED
  BY <1>4, <1>5

LEMMA OnceKept ==
  ASSUME ExecInv, BusyInv, NEW q \in Requests, ExecStatement(q) \/ Crash(q),
         NEW at \in Opening, NEW n \in Nat, NEW nn \in Nat, Once(at, n),
         nn <= n \/ (req[q].at = at /\ nn <= n + 1)
  PROVE  nn + Cardinality(Waiting(at)') <= 1 + overlaps'
<1>1. PICK A, AA, o : A = Waiting(at) /\ AA = Waiting(at)' /\ o = overlaps
  OBVIOUS
<1>2. /\ overlaps' = o /\ o \in Nat /\ \A p \in Requests : p # q => req'[p] = req[p]
  BY <1>1, ExecGoesHome DEF ExecInv, ServerTyped
<1>3. AA = A \ {q} /\ (q \in A <=> req[q].at = at)
  BY <1>1, <1>2, StatementGoes DEF Waiting
<1>4. IsFiniteSet(A) /\ Cardinality(A) \in Nat
  BY <1>1, WaitingFinite
<1>5. IsFiniteSet(AA) /\ Cardinality(AA) \in Nat
  BY <1>3, <1>4, Fewer
<1>6. Budget(q, A, AA, n, nn, 0, 0, o, o)
  BY <1>2, <1>3 DEF Budget
<1>7. n + Cardinality(A) + 0 <= 1 + o
  BY <1>1, <1>4, <1>2 DEF Once
<1>8. nn + Cardinality(AA) + 0 <= 1 + o
  BY <1>2, <1>4, <1>6, <1>7, BudgetKept
<1>9. nn + Cardinality(AA) <= 1 + o
  BY <1>2, <1>5, <1>8
<1>10. QED
  BY <1>1, <1>2, <1>9

OnceInv ==
  /\ Once("insertProgress", Len(progress))
  /\ Once("insertExecution", Len(executions))
  /\ Once("insertFeedback", feedback)
  /\ Once("insertRating", Cardinality(Given))

LEMMA GivenFinite ==
  ExecInv => IsFiniteSet(Given) /\ Cardinality(Given) \in Nat
<1>1. SUFFICES ASSUME ExecInv PROVE IsFiniteSet(Given) /\ Cardinality(Given) \in Nat
  OBVIOUS
<1>2. Given \in SUBSET (1..Len(ratings)) /\ Len(ratings) \in Nat
  <2>1. ratings \in Seq(Rating)
    BY <1>1 DEF ExecInv, ExecRows
  <2>2. DOMAIN ratings = 1..Len(ratings) /\ Len(ratings) \in Nat
    BY <2>1
  <2>3. QED
    BY <2>2 DEF Given
<1>3. IsFiniteSet(1..Len(ratings))
  BY <1>2, FS_Interval
<1>4. QED
  BY <1>2, <1>3, Fewer

LEMMA GivenFiniteNext == ExecInv' => (IsFiniteSet(Given) /\ Cardinality(Given) \in Nat)'
BY GivenFinite, PTL

\* How the rows change that are to be there once.
LEMMA RowsInserted ==
  ASSUME ExecInv, NEW q \in Requests, ExecStatement(q) \/ Crash(q)
  PROVE  /\ \/ Len(progress') = Len(progress)
            \/ req[q].at = "insertProgress" /\ Len(progress') = Len(progress) + 1
         /\ \/ Len(executions') = Len(executions)
            \/ req[q].at = "insertExecution" /\ Len(executions') = Len(executions) + 1
         /\ feedback' = feedback \/ (req[q].at = "insertFeedback" /\ feedback' = feedback + 1)
         /\ \/ Given' \subseteq Given
            \/ /\ req[q].at = "insertRating"
               /\ Given' \subseteq Given \cup {Len(ratings) + 1}
<1>1. /\ progress \in Seq(Row) /\ executions \in Seq(Nat) /\ ratings \in Seq(Rating)
      /\ feedback \in Nat
  BY DEF ExecInv, ExecRows
<1>2. CASE InsertProgress(q)
  <2>1. req[q].at = "insertProgress" /\ progress' = Append(progress, NewList)
    BY <1>2, InsertProgressIs
  <2>2. Len(progress') = Len(progress) + 1
    BY <1>1, <2>1
  <2>3. UNCHANGED <<executions, feedback, ratings>>
    BY <1>2 DEF InsertProgress, execution
  <2>4. QED
    BY <2>1, <2>2, <2>3 DEF Given
<1>3. CASE \/ SeedNext(q) \/ AddItems(q) \/ SaveItem(q) \/ CountItems(q)
           \/ SelectProgress(q) \/ Crash(q)
  BY <1>3 DEF SeedNext, AddItems, SaveItem, CountItems, SelectProgress,
     Crash, checklist, execution, Given
<1>4. CASE WritePercent(q) \/ UpdateProgress(q)
  <2>1. Len(progress') = Len(progress)
    <3>1. PICK p, x : progress' = [progress EXCEPT ![p] = x]
      <4>1. CASE WritePercent(q)
        <5>1. PICK p, x : p = req[q].p /\ x = [progress[p] EXCEPT !.percent = req[q].percent]
          OBVIOUS
        <5>2. progress' = [progress EXCEPT ![p].percent = req[q].percent]
          BY <4>1, <5>1, WritePercentIs
        <5>3. QED
          BY <5>1, <5>2
      <4>2. CASE UpdateProgress(q)
        BY <4>2 DEF UpdateProgress
      <4>3. QED
        BY <1>4, <4>1, <4>2
    <3>2. QED
      BY <1>1, <3>1
  <2>2. UNCHANGED <<executions, feedback, ratings>>
    BY <1>4 DEF WritePercent, UpdateProgress, execution
  <2>3. QED
    BY <2>1, <2>2 DEF Given
<1>5. CASE InsertExecution(q)
  <2>1. /\ req[q].at = "insertExecution" /\ executions' = Append(executions, 0)
        /\ UNCHANGED <<progress, feedback, ratings>>
    BY <1>5 DEF InsertExecution, At, checklist
  <2>2. Len(executions') = Len(executions) + 1
    BY <1>1, <2>1
  <2>3. QED
    BY <2>1, <2>2 DEF Given
<1>6. CASE WriteMilestones(q)
  <2>1. PICK e, x : executions' = [executions EXCEPT ![e] = x]
    BY <1>6 DEF WriteMilestones
  <2>2. Len(executions') = Len(executions) /\ UNCHANGED <<progress, feedback, ratings>>
    BY <1>1, <1>6, <2>1 DEF WriteMilestones, checklist
  <2>3. QED
    BY <2>2 DEF Given
<1>7. CASE InsertSettlement(q) \/ InsertFeedback(q)
  BY <1>7 DEF InsertSettlement, InsertFeedback, At, checklist, Given
<1>8. CASE InsertRating(q)
  <2>1. /\ req[q].at = "insertRating" /\ ratings' = Append(ratings, "plain")
        /\ UNCHANGED <<progress, executions, feedback>>
    BY <1>8 DEF InsertRating, At, checklist
  <2>2. \A i \in DOMAIN ratings' : i = Len(ratings) + 1
                                   \/ (i \in DOMAIN ratings /\ ratings'[i] = ratings[i])
    BY <1>1, <2>1
  <2>3. Given' \subseteq Given \cup {Len(ratings) + 1}
    BY <2>2 DEF Given
  <2>4. QED
    BY <2>1, <2>3
<1>9. CASE InsertReview(q) \/ DeleteReviews(q) \/ DeleteRating(q)
  <2>1. PICK i : i = req[q].i
    OBVIOUS
  <2>2. PICK from, to : /\ i \in DOMAIN ratings /\ Rerated(i, from, to) /\ to \in Rating
                        /\ from # "removed"
                        /\ UNCHANGED <<progress, executions, feedback>>
    <3>1. /\ i \in DOMAIN ratings /\ UNCHANGED <<progress, executions, feedback>>
          /\ \/ Rerated(i, "plain", "reviewed") \/ Rerated(i, "reviewed", "plain")
             \/ Rerated(i, "plain", "removed")
      BY <1>9, <2>1, RatingStatementIs DEF checklist
    <3>2. QED
      BY <3>1 DEF Rating
  <2>3. DOMAIN ratings' = DOMAIN ratings
    BY <2>2, ReratedTyped
  <2>4. \A j \in DOMAIN ratings : ratings[j] = "removed" => ratings'[j] = "removed"
    BY <1>1, <2>2 DEF Rerated
  <2>5. Given' \subseteq Given
    BY <2>3, <2>4 DEF Given
  <2>6. QED
    BY <2>2, <2>5
<1>10. QED
  BY <1>2, <1>3, <1>4, <1>5, <1>6, <1>7, <1>8, <1>9
     DEF ExecStatement, ChecklistStatement, ExecutionStatement

OnceAll == BusyInv /\ OnceInv /\ \A p \in DOMAIN progress : Brings(p)

LEMMA OnceAllMeans ==
  ASSUME ExecInv, ExecutionAssumption, OnceAll
  PROVE  OncePerBooking
<1>1. overlaps \in Nat /\ Len(progress) \in Nat /\ Len(executions) \in Nat /\ feedback \in Nat
      /\ Cardinality(Given) \in Nat
  BY GivenFinite DEF ExecInv, ExecRows, ServerTyped
<1>2. \A at \in Opening : Cardinality(Waiting(at)) \in Nat
  BY WaitingFinite DEF OnceAll
<1>3. \A at \in Opening, n \in Nat : Once(at, n) => n <= 1 + overlaps
  BY <1>1, <1>2 DEF Once
<1>4. /\ Len(progress) <= 1 + overlaps /\ Len(executions) <= 1 + overlaps
      /\ feedback <= 1 + overlaps /\ Cardinality(Given) <= 1 + overlaps
  BY <1>1, <1>3 DEF OnceAll, OnceInv, Opening
<1>5. ASSUME NEW p \in DOMAIN progress, NEW i \in Items
      PROVE  Cardinality(Copies(p, i)) <= 1 + overlaps
  <2>1. PICK c, o : c = Cardinality(Copies(p, i)) /\ o = overlaps
    OBVIOUS
  <2>2. c \in Nat /\ o \in Nat
    BY <1>1, <2>1, CopiesFinite
  <2>3. PhaseOf[i] \in Phase
    BY DEF ExecutionAssumption
  <2>4. /\ AtFirst(p)
        /\ PhaseOf[i] = "PRE_SERVICE" => BringsPre(p, i)
        /\ PhaseOf[i] = "DURING_SERVICE" => BringsDuring(p, i)
        /\ PhaseOf[i] = "POST_SERVICE" => BringsPost(p, i)
    BY DEF OnceAll, Brings
  <2>5. CASE PhaseOf[i] = "PRE_SERVICE"
    <3>1. PICK m : m = Cardinality(WithRole(p, {"PRE_SERVICE"}))
      OBVIOUS
    <3>2. "away" \notin {"PRE_SERVICE"}
      OBVIOUS
    <3>3. m \in Nat /\ c + m <= 1
      BY <2>1, <2>4, <2>5, <3>1, <3>2, WithRoleFinite DEF OnceAll, BringsPre
    <3>4. c <= 1 + o
      BY <2>2, <3>3
    <3>5. QED
      BY <2>1, <3>4
  <2>6. CASE PhaseOf[i] # "PRE_SERVICE" /\ progress[p].phase = "PRE_SERVICE"
    <3>1. Copies(p, i) = {}
      BY <2>4, <2>6 DEF AtFirst
    <3>2. c = 0
      BY <2>1, <3>1, FS_EmptySet
    <3>3. c <= 1 + o
      BY <2>2, <3>2
    <3>4. QED
      BY <2>1, <3>3
  <2>7. CASE PhaseOf[i] = "DURING_SERVICE" /\ progress[p].phase # "PRE_SERVICE"
    <3>1. PICK m : m = Cardinality(WithRole(p, RolesDuring))
      OBVIOUS
    <3>2. "away" \notin RolesDuring
      BY DEF RolesDuring
    <3>3. m \in Nat
      BY <3>1, <3>2, WithRoleFinite DEF OnceAll
    <3>4. c + m <= 1 + o
      BY <2>1, <2>4, <2>7, <3>1 DEF BringsDuring
    <3>5. c <= 1 + o
      BY <2>2, <3>3, <3>4
    <3>6. QED
      BY <2>1, <3>5
  <2>8. CASE PhaseOf[i] = "POST_SERVICE" /\ progress[p].phase # "PRE_SERVICE"
    <3>1. PICK m, k : m = Cardinality(WithRole(p, RolesPost)) /\ k = Spare(p)
      OBVIOUS
    <3>2. "away" \notin RolesPost
      BY DEF RolesPost
    <3>3. m \in Nat /\ k \in {0, 1}
      BY <3>1, <3>2, WithRoleFinite, SpareIs DEF OnceAll
    <3>4. c + m + k <= 1 + o
      BY <2>1, <2>4, <2>8, <3>1 DEF BringsPost
    <3>5. c <= 1 + o
      BY <2>2, <3>3, <3>4
    <3>6. QED
      BY <2>1, <3>5
  <2>9. QED
    BY <2>3, <2>5, <2>6, <2>7, <2>8 DEF Phase
<1>6. QED
  BY <1>4, <1>5 DEF OncePerBooking

LEMMA OnceAllSame ==
  ASSUME OnceAll, UNCHANGED <<server, checklist, execution>>
  PROVE  OnceAll'
<1>1. UNCHANGED <<req, overlaps, progress, items, executions, feedback, ratings>>
  BY DEF server, checklist, execution
<1>2. BusyInv'
  BY <1>1 DEF OnceAll, BusyInv, Busy, InFlight
<1>3. OnceInv'
  BY <1>1 DEF OnceAll, OnceInv, Once, Waiting, Given
<1>4. \A p : Brings(p) => Brings(p)'
  BY <1>1 DEF Brings, AtFirst, BringsPre, BringsDuring, BringsPost, Spare, WithRole, Copies
<1>5. QED
  BY <1>1, <1>2, <1>3, <1>4 DEF OnceAll

LEMMA OnceAllArrives ==
  ASSUME ExecInv, OnceAll, NEW q \in Requests, NEW r, ExecComes(r), Start(q, r),
         UNCHANGED <<part, up, checklist, execution>>
  PROVE  OnceAll'
<1>1. UNCHANGED <<progress, items, executions, feedback, ratings>>
  BY DEF checklist, execution
<1>2. BusyInv /\ BusyInv'
  BY StartBusy DEF OnceAll, ExecInv
<1>3. ASSUME NEW at \in Opening, NEW n \in Nat, Once(at, n), r.at = at => n = 0
      PROVE  n + Cardinality(Waiting(at)') <= 1 + overlaps'
  BY <1>2, <1>3, OnceArrives
<1>4. /\ progress \in Seq(Row) /\ executions \in Seq(Nat) /\ feedback \in Nat
      /\ Cardinality(Given) \in Nat
  BY GivenFinite DEF ExecInv, ExecRows
<1>5. Len(progress) \in Nat /\ Len(executions) \in Nat
  BY <1>4
<1>6. /\ r.at = "insertProgress" => Len(progress) = 0
      /\ r.at = "insertExecution" => Len(executions) = 0
      /\ r.at = "insertFeedback" => feedback = 0
      /\ r.at = "insertRating" => Cardinality(Given) = 0
  BY FS_EmptySet DEF ExecComes
<1>7. \A at \in Opening, n \in Nat : Once(at, n) /\ (r.at = at => n = 0) =>
        n + Cardinality(Waiting(at)') <= 1 + overlaps'
  BY <1>3
<1>8. /\ Len(progress) + Cardinality(Waiting("insertProgress")') <= 1 + overlaps'
      /\ Len(executions) + Cardinality(Waiting("insertExecution")') <= 1 + overlaps'
      /\ feedback + Cardinality(Waiting("insertFeedback")') <= 1 + overlaps'
      /\ Cardinality(Given) + Cardinality(Waiting("insertRating")') <= 1 + overlaps'
  <2>1. /\ "insertProgress" \in Opening /\ "insertExecution" \in Opening
        /\ "insertFeedback" \in Opening /\ "insertRating" \in Opening
    BY DEF Opening
  <2>2. /\ Once("insertProgress", Len(progress)) /\ Once("insertExecution", Len(executions))
        /\ Once("insertFeedback", feedback) /\ Once("insertRating", Cardinality(Given))
    BY DEF OnceAll, OnceInv
  <2>3. QED
    BY <1>4, <1>5, <1>6, <1>7, <2>1, <2>2
<1>9. Given' = Given
  BY <1>1 DEF Given
<1>10. OnceInv'
  BY <1>1, <1>8, <1>9 DEF OnceInv, Once
<1>11. ASSUME NEW p \in DOMAIN progress PROVE Brings(p)'
  BY <1>1, <1>2, <1>11, BringsArrives DEF OnceAll
<1>12. \A p \in DOMAIN progress' : Brings(p)'
  BY <1>1, <1>11
<1>13. QED
  BY <1>2, <1>10, <1>12 DEF OnceAll

LEMMA OnceAllKept ==
  ASSUME ExecInv, ExecInv', ExecutionAssumption, OnceAll, NEW q \in Requests,
         ExecStatement(q) \/ Crash(q)
  PROVE  OnceAll'
<1>1. InFlight(q) /\ overlaps' = overlaps /\ \A p \in Requests : p # q => req'[p] = req[p]
  BY ExecGoesHome
<1>2. BusyInv /\ BusyInv'
  BY <1>1, StepBusy DEF OnceAll, ExecInv, ServerTyped
<1>3. \A at \in Opening, n, nn \in Nat :
        Once(at, n) /\ (nn <= n \/ (req[q].at = at /\ nn <= n + 1)) =>
          nn + Cardinality(Waiting(at)') <= 1 + overlaps'
  BY <1>2, OnceKept
<1>4. PICK a, aa, b, bb, c, cc, d, dd :
        /\ a = Len(progress) /\ aa = Len(progress') /\ b = Len(executions)
        /\ bb = Len(executions') /\ c = feedback /\ cc = feedback'
        /\ d = Cardinality(Given) /\ dd = Cardinality(Given')
  OBVIOUS
<1>5. a \in Nat /\ b \in Nat /\ c \in Nat
  BY <1>4 DEF ExecInv, ExecRows
<1>6. aa \in Nat /\ bb \in Nat /\ cc \in Nat
  BY <1>4 DEF ExecInv, ExecRows
<1>7. d \in Nat /\ dd \in Nat /\ IsFiniteSet(Given)
  BY <1>4, GivenFinite, GivenFiniteNext
<1>8. /\ aa = a \/ (req[q].at = "insertProgress" /\ aa = a + 1)
      /\ bb = b \/ (req[q].at = "insertExecution" /\ bb = b + 1)
      /\ cc = c \/ (req[q].at = "insertFeedback" /\ cc = c + 1)
      /\ \/ Given' \subseteq Given
         \/ req[q].at = "insertRating" /\ Given' \subseteq Given \cup {Len(ratings) + 1}
  BY <1>4, RowsInserted
<1>9. dd <= d \/ (req[q].at = "insertRating" /\ dd <= d + 1)
  <2>1. CASE Given' \subseteq Given
    BY <1>4, <1>7, <2>1, Fewer
  <2>2. CASE req[q].at = "insertRating" /\ Given' \subseteq Given \cup {Len(ratings) + 1}
    BY <1>4, <1>7, <2>2, OneMore
  <2>3. QED
    BY <1>8, <2>1, <2>2
<1>10. /\ aa <= a \/ (req[q].at = "insertProgress" /\ aa <= a + 1)
       /\ bb <= b \/ (req[q].at = "insertExecution" /\ bb <= b + 1)
       /\ cc <= c \/ (req[q].at = "insertFeedback" /\ cc <= c + 1)
  BY <1>5, <1>8
<1>11. /\ "insertProgress" \in Opening /\ "insertExecution" \in Opening
       /\ "insertFeedback" \in Opening /\ "insertRating" \in Opening
  BY DEF Opening
<1>12. /\ Once("insertProgress", a) /\ Once("insertExecution", b)
       /\ Once("insertFeedback", c) /\ Once("insertRating", d)
  BY <1>4 DEF OnceAll, OnceInv
<1>13. /\ aa + Cardinality(Waiting("insertProgress")') <= 1 + overlaps'
       /\ bb + Cardinality(Waiting("insertExecution")') <= 1 + overlaps'
       /\ cc + Cardinality(Waiting("insertFeedback")') <= 1 + overlaps'
       /\ dd + Cardinality(Waiting("insertRating")') <= 1 + overlaps'
  BY <1>3, <1>5, <1>6, <1>7, <1>9, <1>10, <1>11, <1>12
<1>14. OnceInv'
  BY <1>4, <1>13 DEF OnceInv, Once
<1>15. ASSUME NEW p, p \in DOMAIN progress', p \notin DOMAIN progress PROVE Brings(p)'
  <2>1. InsertProgress(q)
    <3>1. CASE req[q].at = "insertProgress" /\ ~Crash(q)
      BY <3>1 DEF ExecStatement, ChecklistStatement, ExecutionStatement, SeedNext, AddItems,
         SaveItem, CountItems, WritePercent, SelectProgress, UpdateProgress,
         InsertExecution, WriteMilestones, InsertSettlement, InsertFeedback, InsertRating,
         InsertReview, DeleteReviews, DeleteRating, At
    <3>2. Len(progress') # Len(progress)
      BY <1>15 DEF ExecInv, ExecRows
    <3>3. req[q].at = "insertProgress"
      BY <3>2, RowsInserted
    <3>4. ~Crash(q)
      BY <3>2 DEF Crash, checklist
    <3>5. QED
      BY <3>1, <3>3, <3>4
  <2>2. QED
    BY <1>1, <1>15, <2>1, BringsNew
<1>16. DOMAIN progress \subseteq DOMAIN progress'
  <2>1. Len(progress) <= Len(progress')
    BY <1>4, <1>5, <1>8
  <2>2. QED
    BY <1>4, <1>5, <1>6, <2>1 DEF ExecInv, ExecRows
<1>17. ASSUME NEW p \in DOMAIN progress PROVE Brings(p)'
  <2>1. Turned(q, p) /\ \A i \in Items : Brought(q, p, i)
    BY StatementTurned, StatementBrings
  <2>2. QED
    BY <1>1, <1>2, <1>16, <2>1, BringsStays DEF OnceAll
<1>18. QED
  BY <1>2, <1>14, <1>15, <1>17 DEF OnceAll

LEMMA OnceAllBegins ==
  ASSUME Init
  PROVE  OnceAll
<1>1. \A q \in Requests : req[q].at = "idle"
  BY DEF Init, ServerInit, Idle
<1>2. Busy = {} /\ overlaps = 0
  BY <1>1 DEF Busy, InFlight, Init, ServerInit
<1>3. IsFiniteSet({}) /\ Cardinality({}) = 0
  BY FS_EmptySet
<1>4. BusyInv
  BY <1>2, <1>3 DEF BusyInv
<1>5. \A at \in Opening : Waiting(at) = {}
  BY <1>1 DEF Waiting, Opening
<1>6. /\ Len(progress) = 0 /\ Len(executions) = 0 /\ feedback = 0 /\ Given = {}
      /\ DOMAIN progress = {}
  BY DEF Init, Given
<1>7. \A at \in Opening : Once(at, 0)
  BY <1>2, <1>3, <1>5 DEF Once
<1>8. OnceInv
  BY <1>3, <1>6, <1>7 DEF OnceInv, Opening
<1>9. QED
  BY <1>4, <1>6, <1>8 DEF OnceAll

LEMMA OnceSafe == Spec => [](ExecInv /\ OnceAll)
<1> DEFINE Inv == ExecInv /\ OnceAll
<1>1. Init => Inv
  BY ExecBegins, OnceAllBegins
<1>2. Inv /\ [Next]_vars => Inv'
  <2>1. SUFFICES ASSUME ExecInv, OnceAll, [Next]_vars PROVE ExecInv' /\ OnceAll'
    OBVIOUS
  <2>2. ExecInv'
    BY <2>1, ExecStep, ExecutionAssumption
  <2>3. UNCHANGED vars => OnceAll'
    BY <2>1, OnceAllSame DEF vars, edata
  <2>4. ASSUME NEW q \in Requests, ExecArrives(q) PROVE OnceAll'
    <3>1. ComesUp => OnceAll'
      BY <2>1, OnceAllSame DEF ComesUp
    <3>2. ASSUME UNCHANGED <<part, up, checklist, execution>>, NEW r, ExecComes(r), Start(q, r)
          PROVE  OnceAll'
      BY <2>1, <3>2, OnceAllArrives
    <3>3. QED
      BY <2>1, <2>4, <3>1, <3>2, ExecArrived, ExecutionAssumption
  <2>5. ASSUME NEW q \in Requests, ExecStatement(q) \/ Crash(q) PROVE OnceAll'
    BY <2>1, <2>2, <2>5, OnceAllKept, ExecutionAssumption
  <2>6. Next => OnceAll'
    BY <2>4, <2>5, ExecStepIs
  <2>7. QED
    BY <2>1, <2>2, <2>3, <2>6
<1>3. Inv => ExecInv /\ OnceAll
  OBVIOUS
<1> HIDE DEF Inv
<1>4. QED
  BY <1>1, <1>2, <1>3, PTL DEF Spec

\* However requests overlap and die, a booking has one checklist, one execution,
\* one feedback row and one rating, and each checklist each item once, but for one
\* more for each overlap.
THEOREM RowsAlwaysOnce == Spec => []OncePerBooking
<1>1. ExecInv /\ OnceAll => OncePerBooking
  BY OnceAllMeans, ExecutionAssumption
<1>2. QED
  BY <1>1, OnceSafe, PTL

-----------------------------------------------------------------------------
(* The checklist while no request overlaps another and none dies.          *)

Undisturbed == overlaps = 0 /\ deaths = 0

\* The templates are seeded, all or none, unless a process is seeding them.
Ready ==
  /\ up => catalogue # {}
  /\ (\A q \in Requests : req[q].at # "seed") => catalogue \in {{}, Seed}

\* What a request has in memory still holds.
Sure(r) ==
  /\ r.at = "seed" => catalogue = {Seeds[m] : m \in 1..(r.n - 1)}
  /\ r.at \in Listing \cup {"insertProgress"} => catalogue = Seed
  /\ r.at \in {"select", "update"} => /\ progress[r.p].phase # "POST_SERVICE"
                                     /\ r.mem.phase = After[progress[r.p].phase]

\* An item of a phase that checklist p has entered is there, or about to come.
Coming(p, i) == \E q \in Requests : /\ req[q].at = "addItems" /\ req[q].p = p
                                    /\ req[q].phase = PhaseOf[i]
Whole(p, i) == PhaseOf[i] \in Entered(progress[p]) => Copies(p, i) # {} \/ Coming(p, i)

WholeInv ==
  /\ Alone
  /\ Undisturbed => /\ Ready
                    /\ \A q \in Requests : Sure(req[q])
                    /\ \A p \in DOMAIN progress, i \in Items : Whole(p, i)

LEMMA IdleSure == Sure(Idle)
BY DEF Sure, Idle, Listing

\* The step of the one request in flight.
LEMMA WholeGoes ==
  ASSUME ExecInv, WholeInv, NEW q \in Requests, InFlight(q), NEW r, Go(q, r),
         Undisturbed, Ready', Sure(r)',
         \A p \in DOMAIN progress', i \in Items : Whole(p, i)'
  PROVE  WholeInv'
<1>1. /\ Alone' /\ req'[q] = r /\ \A p \in Requests \ {q} : req'[p] = req[p]
  BY GoAlone DEF ExecInv, WholeInv
<1>2. \A p \in Requests \ {q} : req[p].at = "idle"
  BY DEF WholeInv, Alone, Undisturbed, InFlight
<1>3. \A p \in Requests : req[p] \in Step
  BY ExecRequest
<1>4. ASSUME NEW p \in Requests PROVE Sure(req[p])'
  <2>1. CASE p = q
    BY <1>1, <2>1 DEF Sure
  <2>2. CASE p # q
    <3>1. req'[p].at = "idle"
      BY <1>1, <1>2, <2>2
    <3>2. QED
      BY <3>1 DEF Sure, Listing
  <2>3. QED
    BY <2>1, <2>2
<1>5. QED
  BY <1>1, <1>4 DEF WholeInv

\* What the one request in flight knows.
LEMMA WholeKnown ==
  ASSUME ExecInv, WholeInv, Undisturbed, NEW q \in Requests, InFlight(q)
  PROVE  /\ Ready /\ Sure(req[q])
         /\ req[q].at # "seed" => catalogue \in {{}, Seed}
         /\ req[q].at # "addItems" =>
              \A p \in DOMAIN progress, i \in Items :
                PhaseOf[i] \in Entered(progress[p]) => Copies(p, i) # {}
<1>1. \A p \in Requests \ {q} : req[p].at = "idle"
  BY DEF WholeInv, Alone, Undisturbed, InFlight
<1>2. Ready /\ Sure(req[q]) /\ \A p \in DOMAIN progress, i \in Items : Whole(p, i)
  BY DEF WholeInv
<1>3. req[q].at # "seed" => catalogue \in {{}, Seed}
  BY <1>1, <1>2 DEF Ready
<1>4. req[q].at # "addItems" => \A p, i : ~Coming(p, i)
  BY <1>1 DEF Coming
<1>5. QED
  BY <1>2, <1>3, <1>4 DEF Whole

\* A step that does not seed.
LEMMA ReadyStays ==
  ASSUME ExecInv, WholeInv, Undisturbed, NEW q \in Requests, InFlight(q), req[q].at # "seed",
         UNCHANGED <<up, catalogue>>
  PROVE  Ready'
BY WholeKnown DEF Ready

\* Neither the rows nor what is in the lists changes.
LEMMA WholeStays ==
  ASSUME ExecInv, WholeInv, Undisturbed, NEW q \in Requests, InFlight(q),
         req[q].at \notin {"seed", "addItems"}, NEW r, Go(q, r), Sure(r)',
         UNCHANGED <<up, catalogue>>, DOMAIN progress' = DOMAIN progress,
         \A p \in DOMAIN progress : progress'[p].phase = progress[p].phase,
         \A p \in DOMAIN progress, i \in Items : Copies(p, i)' = Copies(p, i)
  PROVE  WholeInv'
<1>1. Ready'
  BY ReadyStays
<1>2. \A p \in DOMAIN progress : Entered(progress'[p]) = Entered(progress[p])
  BY DEF Entered
<1>3. \A p \in DOMAIN progress, i \in Items :
        PhaseOf[i] \in Entered(progress'[p]) => Copies(p, i)' # {}
  BY <1>2, WholeKnown
<1>4. \A p \in DOMAIN progress', i \in Items : Whole(p, i)'
  BY <1>3 DEF Whole
<1>5. QED
  BY <1>1, <1>4, WholeGoes

LEMMA SeedWhole ==
  ASSUME ExecInv, ExecutionAssumption, WholeInv, Undisturbed, NEW q \in Requests, SeedNext(q)
  PROVE  WholeInv'
<1>1. PICK n, k : n = req[q].n /\ k = Len(Seeds)
  OBVIOUS
<1>2. /\ req[q].at = "seed" /\ n \in DOMAIN Seeds
      /\ UNCHANGED <<part, progress, items, execution>>
      /\ catalogue' = catalogue \cup {Seeds[n]}
      /\ \/ /\ Go(q, Idle) /\ up' = TRUE
            /\ n = k \/ Seeds[n] \in catalogue
         \/ /\ Go(q, [at |-> "seed", n |-> n + 1]) /\ UNCHANGED up
            /\ n # k
  BY <1>1, SeedIs
<1>3. InFlight(q) /\ DOMAIN Seeds = 1..k /\ k \in Nat /\ n \in 1..k
  BY <1>1, <1>2, SeedsAre DEF InFlight
<1>4. catalogue = {Seeds[m] : m \in 1..(n - 1)}
  BY <1>1, <1>2, <1>3, WholeKnown DEF Sure
<1>5. Seeds[n] \notin catalogue
  <2>1. \A m \in 1..(n - 1) : m \in DOMAIN Seeds /\ m # n
    BY <1>3
  <2>2. QED
    BY <1>2, <1>4, <2>1 DEF ExecutionAssumption
<1>6. catalogue' = {Seeds[m] : m \in 1..n}
  <2>1. 1..n = (1..(n - 1)) \cup {n}
    BY <1>3
  <2>2. QED
    BY <1>2, <1>4, <2>1
<1>7. Seeds[n] \in catalogue'
  BY <1>2
<1>8. \A p \in DOMAIN progress', i \in Items : Whole(p, i)'
  <2>1. \A p \in DOMAIN progress, i \in Items :
          PhaseOf[i] \in Entered(progress[p]) => Copies(p, i) # {}
    BY <1>2, <1>3, WholeKnown
  <2>2. \A p, i : Copies(p, i)' = Copies(p, i)
    BY <1>2 DEF Copies
  <2>3. QED
    BY <1>2, <2>1, <2>2 DEF Whole, Entered
<1>9. CASE Go(q, Idle) /\ (n = k \/ Seeds[n] \in catalogue)
  <2>1. catalogue' = Seed
    <3>1. n = k
      BY <1>5, <1>9
    <3>2. QED
      BY <1>3, <1>6, <3>1 DEF Seed
  <2>2. Ready'
    BY <1>7, <2>1 DEF Ready
  <2>3. Sure(Idle)'
    BY DEF Sure, Idle, Listing
  <2>4. QED
    BY <1>3, <1>8, <1>9, <2>2, <2>3, WholeGoes
<1>10. CASE Go(q, [at |-> "seed", n |-> n + 1])
  <2>1. PICK r : r = [at |-> "seed", n |-> n + 1]
    OBVIOUS
  <2>2. r.at = "seed" /\ r.n - 1 = n
    BY <1>3, <2>1
  <2>3. Sure(r)'
    BY <1>6, <2>2 DEF Sure, Listing
  <2>4. req'[q] = r
    BY <1>10, <2>1, ExecRequest DEF Go
  <2>5. Ready'
    BY <1>7, <2>2, <2>4 DEF Ready
  <2>6. QED
    BY <1>3, <1>8, <1>10, <2>1, <2>3, <2>5, WholeGoes
<1>11. QED
  BY <1>2, <1>9, <1>10

LEMMA InsertProgressWhole ==
  ASSUME ExecInv, ExecutionAssumption, WholeInv, Undisturbed, NEW q \in Requests,
         InsertProgress(q)
  PROVE  WholeInv'
<1>1. PICK l, r : /\ l = Len(progress)
                  /\ r = [at |-> "addItems", p |-> Len(progress) + 1, phase |-> "PRE_SERVICE"]
  OBVIOUS
<1>2. /\ req[q].at = "insertProgress" /\ UNCHANGED <<part, up, catalogue, execution>>
      /\ progress' = Append(progress, NewList) /\ items' = Append(items, <<>>) /\ Go(q, r)
  BY <1>1, InsertProgressIs
<1>3. InFlight(q)
  BY <1>2 DEF InFlight
<1>4. /\ l \in Nat /\ DOMAIN progress' = 1..(l + 1) /\ DOMAIN progress = 1..l
      /\ progress'[l + 1] = NewList
      /\ \A p \in 1..l : progress'[p] = progress[p] /\ items'[p] = items[p]
  <2>1. progress \in Seq(Row) /\ items \in Seq(Seq(Item)) /\ Len(items) = l
    BY <1>1 DEF ExecInv, ExecRows
  <2>2. NewList \in Row
    BY DEF NewList, Row, Phase, Status
  <2>3. <<>> \in Seq(Item)
    OBVIOUS
  <2>4. l \in Nat /\ DOMAIN progress = 1..l
    BY <1>1, <2>1
  <2>5. DOMAIN progress' = 1..(l + 1) /\ progress'[l + 1] = NewList
        /\ \A p \in 1..l : progress'[p] = progress[p]
    BY <1>1, <1>2, <2>1, <2>2
  <2>6. \A p \in 1..l : items'[p] = items[p]
    BY <1>2, <2>1, <2>3, <2>4
  <2>7. QED
    BY <2>4, <2>5, <2>6
<1>5. req'[q] = r
  BY <1>2, ExecRequest DEF Go
<1>6. ASSUME NEW p \in DOMAIN progress', NEW i \in Items PROVE Whole(p, i)'
  <2>1. CASE p = l + 1
    <3>1. progress'[p].phase = "PRE_SERVICE"
      BY <1>4, <2>1 DEF NewList
    <3>2. Entered(progress'[p]) = {"PRE_SERVICE"}
      BY <3>1 DEF Entered
    <3>3. r.at = "addItems" /\ r.p = p /\ r.phase = "PRE_SERVICE"
      BY <1>1, <2>1
    <3>4. PhaseOf[i] \in Entered(progress'[p]) => Coming(p, i)'
      BY <1>5, <3>2, <3>3 DEF Coming
    <3>5. QED
      BY <3>4 DEF Whole
  <2>2. CASE p # l + 1
    <3>1. p \in 1..l
      BY <1>4, <2>2
    <3>2. PhaseOf[i] \in Entered(progress[p]) => Copies(p, i) # {}
      BY <1>2, <1>3, <1>4, <3>1, WholeKnown
    <3>3. Copies(p, i)' = Copies(p, i) /\ progress'[p] = progress[p]
      BY <1>4, <3>1 DEF Copies
    <3>4. QED
      BY <3>2, <3>3 DEF Whole
  <2>3. QED
    BY <2>1, <2>2
<1>7. Ready'
  BY <1>2, <1>3, ReadyStays
<1>8. Sure(r)'
  <2>1. catalogue = Seed
    BY <1>2, <1>3, WholeKnown DEF Sure
  <2>2. QED
    BY <1>1, <1>2, <2>1 DEF Sure, Listing
<1>9. QED
  BY <1>2, <1>3, <1>6, <1>7, <1>8, WholeGoes

LEMMA SaveItemKeeps ==
  ASSUME ExecInv, NEW q \in Requests, SaveItem(q), NEW p \in DOMAIN progress, NEW i \in Items
  PROVE  Copies(p, i)' = Copies(p, i)
<1>1. req[q].at = "saveItem"
  BY DEF SaveItem, At
<1>2. Role(req[q], p) = "away"
  BY <1>1 DEF Role, Listing
<1>3. Brought(q, p, i)
  BY SaveItemBrings
<1>4. PhaseOf[i] # "away"
  BY ExecutionAssumption DEF ExecutionAssumption, Phase
<1>5. QED
  BY <1>2, <1>3, <1>4 DEF Brought

\* What is added has every item of the phase.
LEMMA AddItemsWhole ==
  ASSUME ExecInv, ExecutionAssumption, WholeInv, Undisturbed, NEW q \in Requests, AddItems(q)
  PROVE  WholeInv'
<1>1. PICK p, s, a, f : p = req[q].p /\ s = items[p] /\ f = req[q].phase /\ a = Added(f)
  OBVIOUS
<1>2. /\ req[q].at = "addItems" /\ p \in DOMAIN progress /\ Go(q, Idle)
      /\ UNCHANGED <<part, up, catalogue, progress, execution>>
      /\ items' = [items EXCEPT ![p] = @ \o Added(req[q].phase)]
  BY <1>1, AddItemsIs
<1>3. InFlight(q)
  BY <1>2 DEF InFlight
<1>4. s \in Seq(Item) /\ a \in Seq(Item) /\ s \o a \in Seq(Item) /\ DOMAIN items = DOMAIN progress
  BY <1>1, <1>2, AddedIs, ChecklistsAre
<1>5. items' = [items EXCEPT ![p] = s \o a]
  BY <1>1, <1>2
<1>6. items'[p] = s \o a /\ \A o \in DOMAIN items : o # p => items'[o] = items[o]
  BY <1>2, <1>4, <1>5, ItemsWritten
<1>7. catalogue = Seed
  BY <1>2, <1>3, WholeKnown DEF Sure, Listing
<1>8. PICK l, m : l = Len(s) /\ m = Len(a)
  OBVIOUS
<1>9. /\ l \in Nat /\ m \in Nat /\ DOMAIN s = 1..l /\ DOMAIN (s \o a) = 1..(l + m)
      /\ \A j \in 1..l : (s \o a)[j] = s[j] /\ j \in 1..(l + m)
      /\ \A j \in 1..m : (s \o a)[l + j] = a[j] /\ l + j \in 1..(l + m)
  BY <1>4, <1>8
<1>10. \A i : Copies(p, i) \subseteq Copies(p, i)'
  <2>1. \A i : Copies(p, i) = {j \in 1..l : s[j].item = i}
    BY <1>1, <1>9 DEF Copies
  <2>2. \A i : Copies(p, i)' = {j \in 1..(l + m) : (s \o a)[j].item = i}
    BY <1>6, <1>9 DEF Copies
  <2>3. QED
    BY <1>9, <2>1, <2>2
<1>11. \A i \in TemplateItems(f) : Copies(p, i)' # {}
  <2>1. SUFFICES ASSUME NEW i \in TemplateItems(f) PROVE Copies(p, i)' # {}
    OBVIOUS
  <2>2. PICK j \in 1..m : a[j].item = i
    BY <1>1, <1>8, AddedIs
  <2>3. l + j \in Copies(p, i)'
    BY <1>6, <1>9, <2>2 DEF Copies
  <2>4. QED
    BY <2>3
<1>12. \A i \in Items : PhaseOf[i] = f => i \in TemplateItems(f)
  BY <1>7 DEF TemplateItems, ExecutionAssumption, Seed
<1>13. ASSUME NEW o \in DOMAIN progress', NEW i \in Items PROVE Whole(o, i)'
  <2>1. o \in DOMAIN progress /\ progress'[o] = progress[o] /\ Whole(o, i)
    BY <1>2, <1>3, WholeKnown DEF WholeInv
  <2>2. Copies(o, i) # {} => Copies(o, i)' # {}
    <3>1. CASE o = p
      BY <1>10, <3>1
    <3>2. CASE o # p
      BY <1>4, <1>6, <2>1, <3>2 DEF Copies
    <3>3. QED
      BY <3>1, <3>2
  <2>3. Coming(o, i) => o = p /\ PhaseOf[i] = f
    BY <1>1, <1>2, <1>3 DEF Coming, WholeInv, Alone, Undisturbed, InFlight
  <2>4. Coming(o, i) => Copies(o, i)' # {}
    BY <1>11, <1>12, <2>3
  <2>5. QED
    BY <2>1, <2>2, <2>4 DEF Whole
<1>14. Sure(Idle)'
  BY DEF Sure, Idle, Listing
<1>15. Ready'
  BY <1>2, <1>3, ReadyStays
<1>16. QED
  BY <1>2, <1>3, <1>13, <1>14, <1>15, WholeGoes

LEMMA SaveItemWhole ==
  ASSUME ExecInv, ExecutionAssumption, WholeInv, Undisturbed, NEW q \in Requests, SaveItem(q)
  PROVE  WholeInv'
<1>1. PICK p, r : p = req[q].p /\ r = [at |-> "count", p |-> p]
  OBVIOUS
<1>2. /\ req[q].at = "saveItem" /\ UNCHANGED <<part, up, catalogue, progress, execution>>
      /\ Go(q, r)
  BY <1>1, SaveItemIs
<1>3. InFlight(q)
  BY <1>2 DEF InFlight
<1>4. Sure(r)'
  <2>1. catalogue = Seed
    BY <1>2, <1>3, WholeKnown DEF Sure, Listing
  <2>2. QED
    BY <1>1, <1>2, <2>1 DEF Sure
<1>5. \A o \in DOMAIN progress, i \in Items : Copies(o, i)' = Copies(o, i)
  BY SaveItemKeeps
<1>6. QED
  BY <1>2, <1>3, <1>4, <1>5, WholeStays

\* Steps that change no list and no catalogue, and leave an answered request or
\* one that knows as much.
LEMMA PlainWhole ==
  ASSUME ExecInv, WholeInv, Undisturbed, NEW q \in Requests, InFlight(q),
         req[q].at \notin {"seed", "addItems"}, UNCHANGED <<up, checklist>>,
         NEW r, Go(q, r), Sure(r)
  PROVE  WholeInv'
<1>1. UNCHANGED <<catalogue, progress, items>>
  BY DEF checklist
<1>2. Sure(r)'
  BY <1>1 DEF Sure
<1>3. \A p, i : Copies(p, i)' = Copies(p, i)
  BY <1>1 DEF Copies
<1>4. QED
  BY <1>1, <1>2, <1>3, WholeStays

LEMMA WritePercentWhole ==
  ASSUME ExecInv, WholeInv, Undisturbed, NEW q \in Requests, WritePercent(q)
  PROVE  WholeInv'
<1>1. PICK p, k : p = req[q].p /\ k = req[q].percent
  OBVIOUS
<1>2. /\ req[q].at = "writePercent" /\ UNCHANGED <<part, up, catalogue, items, execution>>
      /\ p \in DOMAIN progress /\ k \in 0..100 /\ Go(q, Idle)
      /\ progress' = [progress EXCEPT ![p].percent = k]
  BY <1>1, WritePercentIs
<1>3. InFlight(q)
  BY <1>2 DEF InFlight
<1>5. PICK row : row = progress[p]
  OBVIOUS
<1>6. row \in Row /\ row = [phase |-> row.phase, status |-> row.status, percent |-> row.percent]
  <2>1. row \in Row
    BY <1>2, <1>5, ChecklistsAre
  <2>2. QED
    BY <2>1 DEF Row
<1>7. PICK n : n = [row EXCEPT !.percent = k]
  OBVIOUS
<1>8. n = [phase |-> row.phase, status |-> row.status, percent |-> k]
  BY <1>6, <1>7
<1>9. n.phase = row.phase /\ n \in Row
  BY <1>2, <1>6, <1>8 DEF Row
<1>10. progress' = [progress EXCEPT ![p] = n]
  BY <1>2, <1>5, <1>7
<1>11. DOMAIN progress' = DOMAIN progress
       /\ \A o \in DOMAIN progress : progress'[o].phase = progress[o].phase
  BY <1>2, <1>5, <1>9, <1>10, ListWritten
<1>12. Sure(Idle)'
  BY DEF Sure, Idle, Listing
<1>13. \A o, i : Copies(o, i)' = Copies(o, i)
  BY <1>2 DEF Copies
<1>14. QED
  BY <1>2, <1>3, <1>11, <1>12, <1>13, WholeStays

\* A checklist that is about to enter its next phase.
LEMMA EnteringSure ==
  ASSUME ExecInv, catalogue = Seed, NEW p \in DOMAIN progress, progress[p].phase # "POST_SERVICE",
         NEW r, r.at = "select", r.p = p, r.mem = Entering(progress[p])
  PROVE  Sure(r)
<1>1. progress[p] \in Row
  BY ChecklistsAre
<1>2. /\ Entering(progress[p]).phase = After[progress[p].phase]
      /\ Entering(progress[p]).status = "IN_PROGRESS"
  BY <1>1, EnteringTyped
<1>3. QED
  BY <1>2 DEF Sure

LEMMA AddsSure ==
  ASSUME ExecInv, ExecutionAssumption, NEW q \in Requests, NEW p, NEW mem, Adds(q, p, mem),
         catalogue' = Seed
  PROVE  \E r : Go(q, r) /\ Sure(r)' /\ r = [at |-> "addItems", p |-> p, phase |-> mem.phase]
<1>1. PICK r : r = [at |-> "addItems", p |-> p, phase |-> mem.phase]
  OBVIOUS
<1>2. Sure(r)'
  BY <1>1 DEF Sure
<1>3. QED
  BY <1>1, <1>2 DEF Adds

LEMMA SelectProgressWhole ==
  ASSUME ExecInv, ExecutionAssumption, WholeInv, Undisturbed, NEW q \in Requests,
         SelectProgress(q)
  PROVE  WholeInv'
<1>1. PICK p, mem, d : p = req[q].p /\ mem = req[q].mem /\ d = Differing(progress[p], mem)
  OBVIOUS
<1>2. /\ req[q].at = "select" /\ UNCHANGED <<part, up, checklist, execution>>
      /\ p \in DOMAIN progress /\ mem \in Row
      /\ \/ Adds(q, p, mem)
         \/ Go(q, [at |-> "update", p |-> p, mem |-> mem, dirty |-> d])
  BY <1>1, SelectProgressIs
<1>3. InFlight(q)
  BY <1>2 DEF InFlight
<1>4. catalogue = Seed /\ Sure(req[q])
  BY <1>2, <1>3, WholeKnown DEF Sure, Listing
<1>5. UNCHANGED <<catalogue, progress, items>>
  BY <1>2 DEF checklist
<1>6. CASE Adds(q, p, mem)
  <2>1. PICK r : Go(q, r) /\ Sure(r)'
    BY <1>4, <1>5, <1>6, AddsSure
  <2>2. \A o, i : Copies(o, i)' = Copies(o, i)
    BY <1>5 DEF Copies
  <2>3. QED
    BY <1>2, <1>3, <1>5, <2>1, <2>2, WholeStays
<1>7. CASE Go(q, [at |-> "update", p |-> p, mem |-> mem, dirty |-> d])
  <2>1. PICK r : r = [at |-> "update", p |-> p, mem |-> mem, dirty |-> d]
    OBVIOUS
  <2>2. r.at = "update" /\ r.p = p /\ r.mem = mem
    BY <2>1
  <2>3. Sure(r)
    BY <1>1, <1>2, <1>4, <2>2 DEF Sure
  <2>4. QED
    BY <1>2, <1>3, <1>7, <2>1, <2>3, PlainWhole
<1>8. QED
  BY <1>2, <1>6, <1>7

LEMMA EntersOneMore ==
  ASSUME NEW row \in Row, NEW next \in Row, row.phase # "POST_SERVICE",
         next.phase = After[row.phase]
  PROVE  Entered(next) = Entered(row) \cup {next.phase}
<1>1. CASE row.phase = "PRE_SERVICE"
  BY <1>1 DEF Entered, After
<1>2. CASE row.phase = "DURING_SERVICE"
  BY <1>2 DEF Entered, After, Phase
<1>3. QED
  BY <1>1, <1>2 DEF Row, Phase

LEMMA UpdateProgressWhole ==
  ASSUME ExecInv, ExecutionAssumption, WholeInv, Undisturbed, NEW q \in Requests,
         UpdateProgress(q)
  PROVE  WholeInv'
<1>1. PICK p, mem, d, row, n : /\ p = req[q].p /\ mem = req[q].mem /\ d = req[q].dirty
                               /\ row = progress[p] /\ n = Merged(row, mem, d)
  OBVIOUS
<1>2. /\ req[q].at = "update" /\ UNCHANGED <<part, up, catalogue, items, execution>>
      /\ p \in DOMAIN progress /\ mem \in Row
      /\ progress' = [progress EXCEPT ![p] = Merged(@, mem, req[q].dirty)]
      /\ Adds(q, p, mem)
  BY <1>1, UpdateProgressIs
<1>3. InFlight(q)
  BY <1>2 DEF InFlight
<1>4. row \in Row /\ n \in Row /\ n.phase = IF "phase" \in d THEN mem.phase ELSE row.phase
  BY <1>1, <1>2, ChecklistsAre, MergedTyped
<1>5. progress' = [progress EXCEPT ![p] = n]
  BY <1>1, <1>2
<1>6. /\ DOMAIN progress' = DOMAIN progress /\ progress'[p] = n
      /\ \A o \in DOMAIN progress : o # p => progress'[o] = progress[o]
  BY <1>2, <1>4, <1>5, ListWritten
<1>7. catalogue = Seed /\ Sure(req[q])
  BY <1>2, <1>3, WholeKnown DEF Sure, Listing
<1>8. \A o, i : Copies(o, i)' = Copies(o, i)
  BY <1>2 DEF Copies
<1>9. PICK r : /\ Go(q, r) /\ Sure(r)'
               /\ r = [at |-> "addItems", p |-> p, phase |-> mem.phase]
  BY <1>2, <1>7, AddsSure
<1>10. CASE n.phase = row.phase
  <2>1. \A o \in DOMAIN progress : progress'[o].phase = progress[o].phase
    BY <1>1, <1>6, <1>10
  <2>2. QED
    BY <1>2, <1>3, <1>6, <1>8, <1>9, <2>1, WholeStays
<1>11. CASE n.phase # row.phase
  <2>1. n.phase = mem.phase /\ mem.phase # row.phase
    BY <1>4, <1>11
  <2>2. /\ row.phase # "POST_SERVICE"
        /\ mem.phase = After[row.phase]
    BY <1>1, <1>2, <1>7, <2>1 DEF Sure
  <2>3. Entered(n) = Entered(row) \cup {mem.phase}
    BY <1>4, <2>1, <2>2, EntersOneMore
  <2>4. r.at = "addItems" /\ r.p = p /\ r.phase = mem.phase /\ req'[q] = r
    BY <1>9, <2>2, ExecRequest DEF Go
  <2>5. \A o \in DOMAIN progress, i \in Items :
          PhaseOf[i] \in Entered(progress[o]) => Copies(o, i) # {}
    BY <1>2, <1>3, WholeKnown
  <2>6. ASSUME NEW o \in DOMAIN progress', NEW i \in Items PROVE Whole(o, i)'
    <3>1. CASE o = p
      <4>1. PhaseOf[i] \in Entered(row) => Copies(o, i)' # {}
        BY <1>1, <1>2, <1>8, <2>5, <3>1
      <4>2. PhaseOf[i] = mem.phase => Coming(o, i)'
        BY <2>4, <3>1 DEF Coming
      <4>3. QED
        BY <1>6, <2>3, <3>1, <4>1, <4>2 DEF Whole
    <3>2. CASE o # p
      BY <1>6, <1>8, <2>5, <3>2 DEF Whole
    <3>3. QED
      BY <3>1, <3>2
  <2>7. Ready'
    BY <1>2, <1>3, ReadyStays
  <2>8. QED
    BY <1>3, <1>9, <2>6, <2>7, WholeGoes
<1>12. QED
  BY <1>10, <1>11

LEMMA CountItemsWhole ==
  ASSUME ExecInv, WholeInv, Undisturbed, NEW q \in Requests, CountItems(q)
  PROVE  WholeInv'
<1>1. PICK p, r : /\ p = req[q].p
                  /\ r = [at |-> "writePercent", p |-> p, percent |-> Percentage(items[p])]
  OBVIOUS
<1>2. req[q].at = "count" /\ UNCHANGED <<part, up, checklist, execution>> /\ Go(q, r)
  BY <1>1, CountItemsIs
<1>3. InFlight(q)
  BY <1>2 DEF InFlight
<1>4. Sure(r)
  <2>1. catalogue = Seed
    BY <1>2, <1>3, WholeKnown DEF Sure, Listing
  <2>2. QED
    BY <1>1, <2>1 DEF Sure
<1>5. QED
  BY <1>2, <1>3, <1>4, PlainWhole

LEMMA ExecutionWhole ==
  ASSUME ExecInv, WholeInv, Undisturbed, NEW q \in Requests, ExecutionStatement(q)
  PROVE  WholeInv'
<1>1. /\ UNCHANGED <<up, checklist>>
      /\ req[q].at \notin {"idle", "seed", "addItems"}
  BY DEF ExecutionStatement, InsertExecution, WriteMilestones, InsertSettlement, InsertFeedback,
         InsertRating, InsertReview, DeleteReviews, DeleteRating, At
<1>2. InFlight(q)
  BY <1>1 DEF InFlight
<1>3. \E r : Go(q, r) /\ r.at \in {"idle", "insertReview", "unrate"}
  <2>1. CASE DeleteReviews(q)
    <3>1. req[q] \in Step /\ req[q].at = "unreview"
      BY <2>1, ExecRequest DEF DeleteReviews, At
    <3>2. PICK o : o = req[q]
      OBVIOUS
    <3>3. o = [at |-> "unreview", i |-> o.i]
      BY <3>1, <3>2, ExecMemory
    <3>4. [o EXCEPT !.at = "unrate"].at = "unrate"
      BY <3>3
    <3>5. QED
      BY <2>1, <3>2, <3>4 DEF DeleteReviews
  <2>2. CASE InsertRating(q)
    <3>1. [at |-> "insertReview", i |-> Len(ratings) + 1].at = "insertReview" /\ Idle.at = "idle"
      BY DEF Idle
    <3>2. QED
      BY <2>2, <3>1 DEF InsertRating, Answer
  <2>3. CASE ~DeleteReviews(q) /\ ~InsertRating(q)
    <3>1. Answer(q)
      BY <2>3 DEF ExecutionStatement, InsertExecution, WriteMilestones, InsertSettlement,
                  InsertFeedback, InsertReview, DeleteRating
    <3>2. QED
      BY <3>1 DEF Answer, Idle
  <2>4. QED
    BY <2>1, <2>2, <2>3
<1>4. PICK r : Go(q, r) /\ r.at \in {"idle", "insertReview", "unrate"}
  BY <1>3
<1>5. Sure(r)
  BY <1>4 DEF Sure, Listing
<1>6. QED
  BY <1>1, <1>2, <1>4, <1>5, PlainWhole

LEMMA NobodyDies ==
  ASSUME NEW q \in Requests, ExecStatement(q)
  PROVE  deaths' = deaths
<1>1. CASE SelectProgress(q) \/ UpdateProgress(q)
  BY <1>1, Zenon DEF SelectProgress, UpdateProgress, Saved, Answer, Go
<1>2. CASE ChecklistStatement(q) /\ ~(SelectProgress(q) \/ UpdateProgress(q))
  BY <1>2 DEF ChecklistStatement, SeedNext, InsertProgress, AddItems, SaveItem, CountItems,
              WritePercent, Answer, Go
<1>3. CASE ExecutionStatement(q)
  BY <1>3 DEF ExecutionStatement, InsertExecution, WriteMilestones, InsertSettlement,
              InsertFeedback, InsertRating, InsertReview, DeleteReviews, DeleteRating, Answer, Go
<1>4. QED
  BY <1>1, <1>2, <1>3 DEF ExecStatement

LEMMA AloneStays ==
  ASSUME ExecInv, Alone, NEW q \in Requests, ExecStatement(q) \/ Crash(q)
  PROVE  Alone'
BY ExecGoesHome DEF Alone, InFlight

LEMMA WholeStatement ==
  ASSUME ExecInv, ExecutionAssumption, WholeInv, NEW q \in Requests, ExecStatement(q)
  PROVE  WholeInv'
<1>1. CASE Undisturbed
  BY <1>1, SeedWhole, InsertProgressWhole, AddItemsWhole, SaveItemWhole, CountItemsWhole,
     WritePercentWhole, SelectProgressWhole, UpdateProgressWhole,
     ExecutionWhole DEF ExecStatement, ChecklistStatement
<1>2. CASE ~Undisturbed
  <2>1. ~Undisturbed'
    BY <1>2, NobodyDies, ExecGoesHome DEF Undisturbed
  <2>2. Alone'
    BY AloneStays DEF WholeInv
  <2>3. QED
    BY <2>1, <2>2 DEF WholeInv
<1>3. QED
  BY <1>1, <1>2

LEMMA WholeArrives ==
  ASSUME ExecInv, WholeInv, NEW q \in Requests, ExecArrives(q), ExecutionAssumption
  PROVE  WholeInv'
<1>1. CASE ComesUp
  <2>1. UNCHANGED <<req, overlaps, deaths, catalogue, progress, items>> /\ catalogue # {}
    BY <1>1 DEF ComesUp, server, checklist
  <2>2. Ready => Ready'
    BY <2>1 DEF Ready
  <2>3. \A r : Sure(r)' <=> Sure(r)
    BY <2>1 DEF Sure
  <2>4. \A p, i : Whole(p, i)' <=> Whole(p, i)
    BY <2>1 DEF Whole, Copies, Coming
  <2>5. QED
    BY <2>1, <2>2, <2>3, <2>4 DEF WholeInv, Undisturbed, Alone, InFlight
<1>2. CASE /\ UNCHANGED <<part, up, checklist, execution>>
           /\ \E r : ExecComes(r) /\ Start(q, r)
  <2>1. PICK r : ExecComes(r) /\ Start(q, r)
    BY <1>2
  <2>2. UNCHANGED <<up, catalogue, progress, items>>
    BY <1>2 DEF checklist
  <2>3. /\ Alone'
        /\ overlaps' = 0 => overlaps = 0 /\ Quiet
        /\ req'[q] = r /\ \A p \in Requests \ {q} : req'[p] = req[p]
    BY <2>1, StartAlone DEF ExecInv
  <2>4. SUFFICES ASSUME Undisturbed'
                 PROVE  /\ Ready' /\ \A p \in Requests : Sure(req[p])'
                        /\ \A p \in DOMAIN progress', i \in Items : Whole(p, i)'
    BY <2>3 DEF WholeInv
  <2>5. Undisturbed /\ \A p \in Requests : req[p].at = "idle"
    BY <2>1, <2>3, <2>4 DEF Undisturbed, Start, Quiet, InFlight
  <2>6. Ready /\ \A p \in DOMAIN progress, i \in Items : Whole(p, i)
    BY <2>5 DEF WholeInv
  <2>7. catalogue \in {{}, Seed}
    BY <2>5, <2>6 DEF Ready
  <2>8. Ready'
    BY <2>2, <2>6, <2>7 DEF Ready
  <2>9. Sure(r)
    <3>1. r.at \in Listing \cup {"insertProgress"} => catalogue = Seed
      BY <2>1, <2>6, <2>7 DEF ExecComes, Ready
    <3>2. r.at = "seed" => catalogue = {Seeds[m] : m \in 1..(r.n - 1)}
      <4>1. SUFFICES ASSUME r.at = "seed" PROVE catalogue = {Seeds[m] : m \in 1..(r.n - 1)}
        OBVIOUS
      <4>2. catalogue = {} /\ r.n = 1
        BY <2>1, <4>1 DEF ExecComes
      <4>3. 1..(r.n - 1) = {}
        BY <4>2
      <4>4. QED
        BY <4>2, <4>3
    <3>3. CASE r.at = "select"
      <4>1. r.p \in DOMAIN progress /\ progress[r.p].phase # "POST_SERVICE"
            /\ r.mem = Entering(progress[r.p])
        BY <2>1, <3>3 DEF ExecComes, Aimed, Listing
      <4>2. catalogue = Seed
        BY <3>1, <3>3 DEF Listing
      <4>3. QED
        BY <3>3, <4>1, <4>2, EnteringSure
    <3>4. CASE r.at # "select"
      <4>1. r.at # "update"
        BY <2>1 DEF ExecComes
      <4>2. QED
        BY <3>1, <3>2, <3>4, <4>1 DEF Sure
    <3>5. QED
      BY <3>3, <3>4
  <2>10. ASSUME NEW p \in Requests PROVE Sure(req[p])'
    <3>1. CASE p = q
      <4>1. Sure(r)'
        BY <2>2, <2>9 DEF Sure
      <4>2. QED
        BY <2>3, <3>1, <4>1 DEF Sure
    <3>2. CASE p # q
      <4>1. req'[p].at = "idle"
        BY <2>3, <2>5, <3>2
      <4>2. QED
        BY <4>1 DEF Sure, Listing
    <3>3. QED
      BY <3>1, <3>2
  <2>11. ASSUME NEW p \in DOMAIN progress', NEW i \in Items PROVE Whole(p, i)'
    <3>1. ~Coming(p, i)
      BY <2>5 DEF Coming
    <3>2. Copies(p, i)' = Copies(p, i)
      BY <2>2 DEF Copies
    <3>3. QED
      BY <2>2, <2>6, <3>1, <3>2 DEF Whole
  <2>12. QED
    BY <2>8, <2>10, <2>11
<1>3. QED
  BY <1>1, <1>2, ExecArrived

LEMMA WholeStep ==
  ASSUME ExecInv, ExecutionAssumption, WholeInv, [Next]_vars
  PROVE  WholeInv'
<1>1. CASE UNCHANGED vars
  <2>1. UNCHANGED <<req, overlaps, deaths, up, catalogue, progress, items>>
    BY <1>1 DEF vars, server, edata, checklist
  <2>2. \A r : Sure(r)' <=> Sure(r)
    BY <2>1 DEF Sure
  <2>3. \A p, i : Whole(p, i)' <=> Whole(p, i)
    BY <2>1 DEF Whole, Copies, Coming
  <2>4. QED
    BY <2>1, <2>2, <2>3 DEF WholeInv, Undisturbed, Alone, InFlight, Ready
<1>2. ASSUME NEW q \in Requests, Crash(q) PROVE WholeInv'
  <2>1. Alone'
    BY <1>2, AloneStays DEF WholeInv
  <2>2. deaths \in Nat /\ deaths' = deaths + 1
    BY <1>2 DEF Crash, Die, ExecInv, ServerTyped
  <2>3. ~Undisturbed'
    BY <2>2 DEF Undisturbed
  <2>4. QED
    BY <2>1, <2>3 DEF WholeInv
<1>3. QED
  BY <1>1, <1>2, ExecStepIs, WholeArrives, WholeStatement

LEMMA WholeBegins ==
  ASSUME Init
  PROVE  WholeInv
<1>1. req = [q \in Requests |-> Idle] /\ up = FALSE /\ catalogue = {} /\ progress = <<>>
  BY DEF Init, ServerInit
<1>2. \A q \in Requests : req[q] = Idle /\ Sure(req[q])
  BY <1>1, IdleSure
<1>3. Alone
  BY <1>2 DEF Alone, InFlight, Idle
<1>4. Ready
  BY <1>1 DEF Ready
<1>5. \A p \in DOMAIN progress : FALSE
  BY <1>1
<1>6. QED
  BY <1>2, <1>3, <1>4, <1>5 DEF WholeInv

LEMMA WholeSafe == Spec => []WholeInv
<1>1. Init => WholeInv
  BY WholeBegins
<1>2. ExecInv /\ WholeInv /\ [Next]_vars => WholeInv'
  BY WholeStep, ExecutionAssumption
<1>3. QED
  BY <1>1, <1>2, ExecSafe, PTL DEF Spec

\* As long as no request overlaps another and none dies, every item of every
\* phase that a checklist has entered is in it, whatever was seeded when.
THEOREM ChecklistAlwaysWhole == Spec => []ChecklistWhole
<1>1. WholeInv => ChecklistWhole
  <2>1. SUFFICES ASSUME WholeInv, Quiet, deaths = 0, overlaps = 0,
                        NEW p \in DOMAIN progress, NEW i \in Items,
                        PhaseOf[i] \in Entered(progress[p])
                 PROVE  Copies(p, i) # {}
    BY DEF ChecklistWhole
  <2>2. Whole(p, i)
    BY <2>1 DEF WholeInv, Undisturbed
  <2>3. ~Coming(p, i)
    BY <2>1 DEF Coming, Quiet, InFlight
  <2>4. QED
    BY <2>1, <2>2, <2>3 DEF Whole
<1>2. QED
  BY <1>1, WholeSafe, PTL

-----------------------------------------------------------------------------
(* Sums of sequences.                                                      *)

\* What holds of 0, and of n + 1 if of n, holds of every number: the least for
\* which it did not would be neither 0 nor another's successor.
LEMMA AllNumbers ==
  ASSUME NEW S, 0 \in S, \A n \in Nat : n \in S => n + 1 \in S
  PROVE  \A n \in Nat : n \in S
<1> DEFINE Less == {p \in Nat \X Nat : p[1] < p[2]}
<1>1. SUFFICES ASSUME NEW k \in Nat, k \notin S PROVE FALSE
  OBVIOUS
<1>2. PICK N : N = Nat \ S
  OBVIOUS
<1>3. OpToRel(<, Nat) = Less
  BY DEF OpToRel
<1>4. IsWellFoundedOn(Less, Nat)
  BY ONLY <1>3, NatLessThanWellFounded, Zenon
<1> HIDE DEF Less
<1>5. N \in SUBSET Nat /\ N # {}
  BY <1>1, <1>2
<1>6. PICK m \in N : \A n \in N : ~ (<<n, m>> \in Less)
  BY <1>4, <1>5, WFMin, Zenon
<1>7. m \in Nat /\ m \notin S /\ m # 0
  BY <1>2, <1>6
<1>8. m - 1 \in Nat /\ m - 1 < m /\ (m - 1) + 1 = m
  BY <1>7
<1>9. <<m - 1, m>> \in Less
  BY <1>7, <1>8 DEF Less
<1>10. m - 1 \in S
  BY <1>2, <1>6, <1>8, <1>9
<1>11. QED
  BY <1>7, <1>8, <1>10

\* f sums up s.
Sums(f, s) ==
  f \in [0..Len(s) -> Nat] /\ f[0] = 0 /\ \A n \in 1..Len(s) : f[n] = f[n - 1] + s[n]

SumsTo(f, s, m) ==
  f \in [0..m -> Nat] /\ f[0] = 0 /\ \A n \in 1..m : f[n] = f[n - 1] + s[n]

LEMMA SumExtends ==
  ASSUME NEW s \in Seq(Nat), NEW m \in Nat, m + 1 <= Len(s), NEW f, SumsTo(f, s, m)
  PROVE  \E g : SumsTo(g, s, m + 1)
<1>1. PICK g : g = [n \in 0..(m + 1) |-> IF n = m + 1 THEN f[m] + s[m + 1] ELSE f[n]]
  OBVIOUS
<1>2. /\ f \in [0..m -> Nat] /\ f[0] = 0
      /\ \A n \in 1..m : f[n] = f[n - 1] + s[n]
  BY DEF SumsTo
<1>3. s[m + 1] \in Nat /\ f[m] \in Nat
  BY <1>2
<1>4. \A n \in 0..(m + 1) : n = m + 1 \/ n \in 0..m
  OBVIOUS
<1>5. g \in [0..(m + 1) -> Nat]
  BY <1>1, <1>2, <1>3, <1>4
<1>6. g[0] = 0
  BY <1>1, <1>2
<1>7. ASSUME NEW n \in 1..(m + 1) PROVE g[n] = g[n - 1] + s[n]
  <2>1. n - 1 \in 0..m /\ n - 1 # m + 1 /\ n - 1 \in 0..(m + 1) /\ n \in 0..(m + 1)
    OBVIOUS
  <2>2. g[n - 1] = f[n - 1]
    BY <1>1, <2>1
  <2>3. CASE n = m + 1
    <3>1. g[n] = f[m] + s[m + 1] /\ n - 1 = m
      BY <1>1, <2>3
    <3>2. QED
      BY <2>2, <2>3, <3>1
  <2>4. CASE n # m + 1
    <3>1. n \in 1..m /\ g[n] = f[n]
      BY <1>1, <2>1, <2>4
    <3>2. QED
      BY <1>2, <2>2, <3>1
  <2>5. QED
    BY <2>3, <2>4
<1>8. QED
  BY <1>5, <1>6, <1>7 DEF SumsTo

\* Every sequence has a sum, and Total is it.
LEMMA TotalIs ==
  ASSUME NEW s \in Seq(Nat)
  PROVE  \E f : Sums(f, s) /\ Total(s) = f[Len(s)]
<1>1. PICK l : l = Len(s) /\ l \in Nat
  OBVIOUS
<1>2. PICK S : S = {m \in Nat : m <= l => \E f : SumsTo(f, s, m)}
  OBVIOUS
<1>3. 0 \in S
  <2>1. PICK f : f = [n \in 0..0 |-> 0]
    OBVIOUS
  <2>2. f \in [0..0 -> Nat] /\ f[0] = 0 /\ \A n \in 1..0 : FALSE
    BY <2>1
  <2>3. SumsTo(f, s, 0)
    BY <2>2 DEF SumsTo
  <2>4. QED
    BY <1>2, <2>3
<1>4. \A m \in Nat : m \in S => m + 1 \in S
  <2>1. SUFFICES ASSUME NEW m \in Nat, m \in S, m + 1 <= l PROVE \E g : SumsTo(g, s, m + 1)
    BY <1>2
  <2>2. PICK f : SumsTo(f, s, m)
    BY <1>1, <1>2, <2>1
  <2>3. QED
    BY <1>1, <2>1, <2>2, SumExtends
<1>5. \A m \in Nat : m \in S
  BY <1>3, <1>4, AllNumbers
<1>6. PICK f : SumsTo(f, s, l)
  BY <1>1, <1>2, <1>5
<1>7. f = [n \in 0..Len(s) |-> IF n = 0 THEN 0 ELSE f[n - 1] + s[n]]
  <2>1. f = [n \in 0..l |-> f[n]]
    BY <1>6 DEF SumsTo
  <2>2. \A n \in 0..l : f[n] = IF n = 0 THEN 0 ELSE f[n - 1] + s[n]
    <3>1. \A n \in 0..l : n = 0 \/ n \in 1..l
      BY <1>1
    <3>2. QED
      BY <1>6, <3>1 DEF SumsTo
  <2>3. QED
    BY <1>1, <2>1, <2>2
<1>8. PICK c : c = CHOOSE g : g = [n \in 0..Len(s) |-> IF n = 0 THEN 0 ELSE g[n - 1] + s[n]]
  OBVIOUS
<1>9. c = [n \in 0..Len(s) |-> IF n = 0 THEN 0 ELSE c[n - 1] + s[n]]
  BY <1>7, <1>8
<1>10. Total(s) = c[Len(s)]
  BY <1>8 DEF Total
<1>11. \A n \in 0..l : c[n] = IF n = 0 THEN 0 ELSE c[n - 1] + s[n]
  BY <1>1, <1>9
<1>12. PICK T : T = {m \in Nat : m <= l => c[m] \in Nat}
  OBVIOUS
<1>13. 0 \in T
  BY <1>1, <1>11, <1>12
<1>14. \A m \in Nat : m \in T => m + 1 \in T
  <2>1. SUFFICES ASSUME NEW m \in Nat, m \in T, m + 1 <= l PROVE c[m + 1] \in Nat
    BY <1>12
  <2>2. c[m] \in Nat /\ s[m + 1] \in Nat
    BY <1>1, <1>12, <2>1
  <2>3. m + 1 \in 0..l /\ m + 1 # 0 /\ (m + 1) - 1 = m
    BY <1>1, <2>1
  <2>4. c[m + 1] = c[m] + s[m + 1]
    BY <1>11, <2>3
  <2>5. QED
    BY <2>2, <2>4
<1>15. \A m \in Nat : m \in T
  BY <1>13, <1>14, AllNumbers
<1>16. \A m \in 0..l : c[m] \in Nat
  BY <1>1, <1>12, <1>15
<1>17. c = [n \in 0..l |-> c[n]]
  BY <1>1, <1>9
<1>18. c \in [0..l -> Nat]
  BY <1>16, <1>17
<1>19. c[0] = 0 /\ \A n \in 1..l : c[n] = c[n - 1] + s[n]
  BY <1>1, <1>11
<1>20. Sums(c, s)
  BY <1>1, <1>18, <1>19 DEF Sums
<1>21. QED
  BY <1>10, <1>20

\* One at e and none elsewhere, and what it adds to the sum of the first n.
One(e, n)   == IF n = e THEN 1 ELSE 0
UpTo(e, n) == IF e \in 1..n THEN 1 ELSE 0

LEMMA SumsGrow ==
  ASSUME NEW s \in Seq(Nat), NEW t \in Seq(Nat), Len(s) <= Len(t), NEW e \in Nat,
         \A n \in 1..Len(s) : s[n] + One(e, n) <= t[n], NEW f, Sums(f, s), NEW g, Sums(g, t)
  PROVE  \A n \in 0..Len(s) : f[n] + UpTo(e, n) <= g[n]
<1>1. PICK l, k : l = Len(s) /\ l \in Nat /\ k = Len(t) /\ k \in Nat /\ l <= k
  OBVIOUS
<1>2. /\ f \in [0..l -> Nat] /\ f[0] = 0 /\ \A n \in 1..l : f[n] = f[n - 1] + s[n]
      /\ g \in [0..k -> Nat] /\ g[0] = 0 /\ \A n \in 1..k : g[n] = g[n - 1] + t[n]
  BY <1>1 DEF Sums
<1>3. PICK S : S = {n \in Nat : n <= l => f[n] + UpTo(e, n) <= g[n]}
  OBVIOUS
<1>4. 0 \in S
  <2>1. UpTo(e, 0) = 0
    BY DEF UpTo
  <2>2. QED
    BY <1>2, <1>3, <2>1
<1>5. \A n \in Nat : n \in S => n + 1 \in S
  <2>1. SUFFICES ASSUME NEW n \in Nat, n \in S, n + 1 <= l
                 PROVE  f[n + 1] + UpTo(e, n + 1) <= g[n + 1]
    BY <1>3
  <2>2. n + 1 \in 1..l /\ n + 1 \in 1..k /\ n \in 0..l /\ n \in 0..k /\ (n + 1) - 1 = n
    BY <1>1, <2>1
  <2>3. PICK a, aa, b, bb, x, y : /\ a = f[n] /\ aa = f[n + 1] /\ b = g[n] /\ bb = g[n + 1]
                                  /\ x = s[n + 1] /\ y = t[n + 1]
    OBVIOUS
  <2>4. a \in Nat /\ b \in Nat /\ x \in Nat /\ y \in Nat
    <3>1. a \in Nat
      BY <1>2, <2>2, <2>3
    <3>2. b \in Nat
      BY <1>2, <2>2, <2>3
    <3>3. x \in Nat
      BY <1>1, <2>2, <2>3
    <3>4. y \in Nat
      BY <1>1, <2>2, <2>3
    <3>5. QED
      BY <3>1, <3>2, <3>3, <3>4
  <2>5. aa = a + x /\ bb = b + y
    <3>1. f[n + 1] = f[(n + 1) - 1] + s[n + 1] /\ g[n + 1] = g[(n + 1) - 1] + t[n + 1]
      BY <1>2, <2>2
    <3>2. QED
      BY <2>2, <2>3, <3>1
  <2>6. a + UpTo(e, n) <= b /\ x + One(e, n + 1) <= y
    BY <1>1, <1>3, <2>1, <2>2, <2>3
  <2>7. UpTo(e, n + 1) = UpTo(e, n) + One(e, n + 1) /\ UpTo(e, n) \in {0, 1}
        /\ One(e, n + 1) \in {0, 1}
    BY <2>1 DEF UpTo, One
  <2>8. aa + UpTo(e, n + 1) <= bb
    BY <2>4, <2>5, <2>6, <2>7
  <2>9. QED
    BY <2>3, <2>8
<1>6. \A n \in Nat : n \in S
  BY <1>4, <1>5, AllNumbers
<1>7. QED
  BY <1>1, <1>3, <1>6

\* A sequence that is at least another everywhere, and maybe one longer, has at
\* least its total; and more if it is more somewhere.
LEMMA TotalGrows ==
  ASSUME NEW s \in Seq(Nat), NEW t \in Seq(Nat), Len(t) \in {Len(s), Len(s) + 1}, NEW e \in Nat,
         \A n \in 1..Len(s) : s[n] + One(e, n) <= t[n]
  PROVE  /\ Total(s) \in Nat /\ Total(t) \in Nat
         /\ Total(s) + UpTo(e, Len(s)) <= Total(t)
<1>1. PICK l : l = Len(s) /\ l \in Nat /\ l \in 0..l
  OBVIOUS
<1>2. PICK f : Sums(f, s) /\ Total(s) = f[l]
  BY <1>1, TotalIs
<1>3. PICK g : Sums(g, t) /\ Total(t) = g[Len(t)]
  BY TotalIs
<1>4. f[l] + UpTo(e, l) <= g[l]
  <2>1. Len(s) <= Len(t)
    BY <1>1
  <2>2. \A n \in 0..Len(s) : f[n] + UpTo(e, n) <= g[n]
    BY <1>2, <1>3, <2>1, SumsGrow
  <2>3. QED
    BY <1>1, <2>2
<1>5. f[l] \in Nat /\ g[l] \in Nat /\ g[Len(t)] \in Nat
  <2>1. f[l] \in Nat
    BY <1>1, <1>2 DEF Sums
  <2>2. l \in 0..Len(t) /\ Len(t) \in 0..Len(t)
    BY <1>1
  <2>3. QED
    BY <1>3, <2>1, <2>2 DEF Sums
<1>6. g[l] <= g[Len(t)]
  <2>1. CASE Len(t) = l
    BY <1>5, <2>1
  <2>2. CASE Len(t) = l + 1
    <3>1. l + 1 \in 1..Len(t) /\ (l + 1) - 1 = l /\ t[l + 1] \in Nat
      BY <1>1, <2>2
    <3>2. g[l + 1] = g[(l + 1) - 1] + t[l + 1]
      BY <1>3, <3>1 DEF Sums
    <3>3. QED
      BY <1>5, <2>2, <3>1, <3>2
  <2>3. QED
    BY <1>1, <2>1, <2>2
<1>7. UpTo(e, l) \in {0, 1}
  BY DEF UpTo
<1>8. QED
  BY <1>1, <1>2, <1>3, <1>4, <1>5, <1>6, <1>7

LEMMA TotalKeeps ==
  ASSUME NEW s \in Seq(Nat), NEW t \in Seq(Nat), Len(t) \in {Len(s), Len(s) + 1},
         \A n \in 1..Len(s) : s[n] <= t[n]
  PROVE  Total(s) \in Nat /\ Total(t) \in Nat /\ Total(s) <= Total(t)
<1>1. \A n \in 1..Len(s) : s[n] \in Nat /\ s[n] + One(0, n) = s[n]
  BY DEF One
<1>2. \A n \in 1..Len(s) : s[n] + One(0, n) <= t[n]
  BY <1>1
<1>3. /\ Total(s) \in Nat /\ Total(t) \in Nat
      /\ Total(s) + UpTo(0, Len(s)) <= Total(t)
  BY <1>2, TotalGrows
<1>4. UpTo(0, Len(s)) = 0
  BY DEF UpTo
<1>5. QED
  BY <1>3, <1>4

-----------------------------------------------------------------------------
(* Milestones.                                                             *)

Pending == Waiting("milestone")

\* For each execution a number of milestones that no pending save takes it back
\* behind, and that add up to all that were logged or are about to be, but for
\* one that each overlap may lose.
Reserved(low) ==
  /\ low \in Seq(Nat) /\ Len(low) = Len(executions)
  /\ \A e \in 1..Len(low) : low[e] <= executions[e]
  /\ \A q \in Pending : low[req[q].e] <= req[q].count
  /\ logged + Cardinality(Pending) <= Total(low) + overlaps + (IF Pending = {} THEN 0 ELSE 1)

KeptInv == \E low : Reserved(low)

LEMMA PendingFinite ==
  OnceAll => IsFiniteSet(Pending) /\ Cardinality(Pending) \in Nat
BY WaitingFinite DEF OnceAll, Pending, Opening

LEMMA TotalTyped ==
  ASSUME NEW s \in Seq(Nat)
  PROVE  Total(s) \in Nat
<1>1. \A n \in 1..Len(s) : s[n] + One(0, n) <= s[n]
  BY DEF One
<1>2. QED
  BY <1>1, TotalGrows

LEMMA PendingIs ==
  ASSUME ExecInv, NEW q \in Pending
  PROVE  req[q].e \in 1..Len(executions) /\ req[q].count \in Nat
<1>1. q \in Requests /\ req[q].at = "milestone"
  BY DEF Pending, Waiting
<1>2. req[q].e \in DOMAIN executions /\ req[q].count \in Nat
  BY <1>1, ExecRequest, ExecMemory DEF Aimed
<1>3. QED
  BY <1>2 DEF ExecInv, ExecRows

LEMMA KeptArrives ==
  ASSUME ExecInv, OnceAll, KeptInv, NEW q \in Requests, NEW r, ExecComes(r), Start(q, r),
         UNCHANGED <<part, up, checklist, execution>>
  PROVE  KeptInv'
<1>1. PICK low : Reserved(low)
  BY DEF KeptInv
<1>2. UNCHANGED <<executions, logged>>
  BY DEF execution
<1>3. /\ req'[q] = r /\ (\A p \in Requests : p # q => req'[p] = req[p])
      /\ req[q].at = "idle"
  BY DEF ExecInv, ServerTyped, Start, InFlight
<1>4. overlaps \in Nat /\ overlaps' \in Nat /\ overlaps' >= overlaps
      /\ (Quiet \/ overlaps' = overlaps + 1)
  BY StartBusy DEF OnceAll, ExecInv, ServerTyped
<1>5. PICK P, PP, c, cc, o, oo, t, l : /\ P = Pending /\ PP = Pending' /\ c = Cardinality(P)
                                     /\ cc = Cardinality(PP) /\ o = overlaps /\ oo = overlaps'
                                     /\ t = Total(low) /\ l = logged
  OBVIOUS
<1>6. /\ IsFiniteSet(P) /\ c \in Nat /\ l \in Nat /\ t \in Nat
      /\ l + c <= t + o + (IF P = {} THEN 0 ELSE 1)
  BY <1>1, <1>5, PendingFinite, TotalTyped DEF ExecInv, ExecRows, Reserved
<1>7. CASE r.at = "milestone"
  <2>1. PP = P \cup {q} /\ q \notin P
    BY <1>3, <1>5, <1>7 DEF Pending, Waiting
  <2>2. cc = c + 1
    BY <1>5, <1>6, <2>1, FS_AddElement
  <2>3. Quiet => P = {}
    BY <1>5 DEF Pending, Waiting, Quiet, InFlight
  <2>4. P = {} => c = 0
    BY <1>5, FS_EmptySet
  <2>5. l + cc <= t + oo + 1
    BY <1>4, <1>5, <1>6, <2>2, <2>3, <2>4
  <2>6. r.e \in DOMAIN executions /\ r.count = executions[r.e]
    BY <1>7 DEF ExecComes, Aimed
  <2>7. r.e \in 1..Len(low) /\ low[r.e] <= executions[r.e]
    BY <1>1, <2>6 DEF Reserved, ExecInv, ExecRows
  <2>8. \A p \in PP : low[req'[p].e] <= req'[p].count
    <3>1. ASSUME NEW p \in PP PROVE low[req'[p].e] <= req'[p].count
      <4>1. CASE p = q
        BY <1>3, <2>6, <2>7, <4>1
      <4>2. CASE p # q
        <5>1. p \in P /\ req'[p] = req[p]
          BY <1>3, <1>5, <2>1, <4>2 DEF Pending, Waiting
        <5>2. QED
          BY <1>1, <1>5, <5>1 DEF Reserved
      <4>3. QED
        BY <4>1, <4>2
    <3>2. QED
      BY <3>1
  <2>9. Reserved(low)'
    BY <1>1, <1>2, <1>5, <2>1, <2>5, <2>8 DEF Reserved
  <2>10. QED
    BY <2>9 DEF KeptInv
<1>8. CASE r.at # "milestone"
  <2>1. PP = P
    BY <1>3, <1>5, <1>8 DEF Pending, Waiting
  <2>2. \A p \in P : req'[p] = req[p]
    BY <1>3, <1>5 DEF Pending, Waiting
  <2>3. cc = c
    BY <1>5, <2>1
  <2>4. l + cc <= t + oo + (IF PP = {} THEN 0 ELSE 1)
    BY <1>4, <1>5, <1>6, <2>1, <2>3
  <2>5. Reserved(low)'
    BY <1>1, <1>2, <1>5, <2>1, <2>2, <2>4 DEF Reserved
  <2>6. QED
    BY <2>5 DEF KeptInv
<1>9. QED
  BY <1>7, <1>8

\* A request that is done: those still pending are the others.
LEMMA PendingGoes ==
  ASSUME ExecInv, OnceAll, NEW q \in Requests, ExecStatement(q) \/ Crash(q)
  PROVE  /\ Pending' = Pending \ {q} /\ overlaps' = overlaps
         /\ \A p \in Pending' : p \in Pending /\ req'[p] = req[p]
         /\ Cardinality(Pending') \in Nat
         /\ q \in Pending => Cardinality(Pending') = Cardinality(Pending) - 1
<1>1. overlaps' = overlaps /\ \A p \in Requests : p # q => req'[p] = req[p]
  BY ExecGoesHome
<1>2. req'[q].at # "milestone"
  BY StatementGoes DEF Opening
<1>3. Pending' = Pending \ {q}
  BY <1>1, <1>2 DEF Pending, Waiting
<1>4. \A p \in Pending' : p \in Pending /\ req'[p] = req[p]
  BY <1>1, <1>3 DEF Pending, Waiting
<1>5. PICK P : P = Pending /\ IsFiniteSet(P) /\ Cardinality(P) \in Nat
  BY PendingFinite
<1>6. IsFiniteSet(P \ {q}) /\ Cardinality(P \ {q}) \in Nat
  BY <1>5, Fewer
<1>7. q \in P => Cardinality(P \ {q}) = Cardinality(P) - 1
  BY <1>5, FS_RemoveElement
<1>8. QED
  BY <1>1, <1>3, <1>4, <1>5, <1>6, <1>7

\* What the count of a lower bound and of the pending requests comes to.
LEMMA KeptCounts ==
  ASSUME NEW l \in Nat, NEW c \in Nat, NEW t \in Nat, NEW o \in Nat, NEW P,
         l + c <= t + o + (IF P = {} THEN 0 ELSE 1),
         NEW cc \in Nat, NEW tt \in Nat, tt >= t, NEW PP, NEW q,
         PP = P \ {q}, q \in P => cc = c - 1, q \notin P => cc = c
  PROVE  l + cc <= tt + o + (IF PP = {} THEN 0 ELSE 1)
<1>1. CASE q \in P
  BY <1>1
<1>2. CASE q \notin P
  BY <1>2
<1>3. QED
  BY <1>1, <1>2

LEMMA KeptWrite ==
  ASSUME ExecInv, OnceAll, KeptInv, NEW q \in Requests, WriteMilestones(q)
  PROVE  KeptInv'
<1>1. PICK low : Reserved(low)
  BY DEF KeptInv
<1>2. PICK e, n : e = req[q].e /\ n = req[q].count
  OBVIOUS
<1>3. /\ req[q].at = "milestone" /\ e \in DOMAIN executions /\ n \in Nat
      /\ executions' = [executions EXCEPT ![e] = n + 1] /\ logged' = logged + 1
  BY <1>2, WriteMilestonesIs
<1>4. executions \in Seq(Nat) /\ logged \in Nat /\ overlaps \in Nat
  BY DEF ExecInv, ExecRows, ServerTyped
<1>5. /\ Len(executions') = Len(executions) /\ executions'[e] = n + 1
      /\ \A ee \in 1..Len(executions) : ee # e => executions'[ee] = executions[ee]
      /\ e \in 1..Len(executions)
  BY <1>3, <1>4
<1>6. PICK P, PP, c, cc, o, t, l : /\ P = Pending /\ PP = Pending' /\ c = Cardinality(P)
                                   /\ cc = Cardinality(PP) /\ o = overlaps
                                   /\ t = Total(low) /\ l = logged
  OBVIOUS
<1>7. /\ c \in Nat /\ l \in Nat /\ t \in Nat /\ o \in Nat /\ q \in P
      /\ l + c <= t + o + 1
  BY <1>1, <1>3, <1>4, <1>6, PendingFinite, TotalTyped DEF Reserved, Pending, Waiting
<1>8. /\ PP = P \ {q} /\ overlaps' = o /\ cc = c - 1 /\ cc \in Nat
      /\ \A p \in PP : p \in P /\ req'[p] = req[p]
  BY <1>6, <1>7, PendingGoes DEF ExecStatement, ExecutionStatement
<1>9. /\ low \in Seq(Nat) /\ Len(low) = Len(executions)
      /\ \A ee \in 1..Len(low) : low[ee] <= executions[ee]
      /\ low[e] <= n
  BY <1>1, <1>2, <1>6, <1>7 DEF Reserved
<1>10. \A p \in PP : low[req'[p].e] <= req'[p].count
  BY <1>1, <1>6, <1>8 DEF Reserved
<1>11. CASE PP # {}
  <2>1. \A ee \in 1..Len(low) : low[ee] <= executions'[ee]
    <3>1. low[e] <= n + 1
      <4>1. low[e] \in Nat
        BY <1>5, <1>9
      <4>2. QED
        BY <1>3, <1>9, <4>1
    <3>2. QED
      BY <1>5, <1>9, <3>1
  <2>2. logged' + cc <= t + o + 1
    BY <1>3, <1>6, <1>7, <1>8
  <2>3. Reserved(low)'
    BY <1>5, <1>6, <1>8, <1>9, <1>10, <1>11, <2>1, <2>2 DEF Reserved
  <2>4. QED
    BY <2>3 DEF KeptInv
<1>12. CASE PP = {}
  <2>1. PICK x, up1 : x = low[e] /\ up1 = [low EXCEPT ![e] = low[e] + 1]
    OBVIOUS
  <2>2. x \in Nat /\ x <= n
    BY <1>5, <1>9, <2>1
  <2>3. /\ up1 \in Seq(Nat) /\ Len(up1) = Len(low) /\ up1[e] = x + 1
        /\ \A ee \in 1..Len(low) : ee # e => up1[ee] = low[ee]
    BY <1>5, <1>9, <2>1, <2>2
  <2>4. \A ee \in 1..Len(low) : low[ee] + One(e, ee) <= up1[ee]
    <3>1. ASSUME NEW ee \in 1..Len(low) PROVE low[ee] + One(e, ee) <= up1[ee]
      <4>1. low[ee] \in Nat
        BY <1>9
      <4>2. CASE ee = e
        BY <2>1, <2>2, <2>3, <4>2 DEF One
      <4>3. CASE ee # e
        BY <2>3, <4>1, <4>3 DEF One
      <4>4. QED
        BY <4>2, <4>3
    <3>2. QED
      BY <3>1
  <2>5. UpTo(e, Len(low)) = 1 /\ e \in Nat
    BY <1>5, <1>9 DEF UpTo
  <2>6. Total(up1) \in Nat /\ t + 1 <= Total(up1)
    BY <1>6, <1>9, <2>3, <2>4, <2>5, TotalGrows
  <2>7. \A ee \in 1..Len(up1) : up1[ee] <= executions'[ee]
    <3>1. up1[e] <= executions'[e]
      BY <1>3, <1>5, <2>2, <2>3
    <3>2. \A ee \in 1..Len(up1) : ee # e => up1[ee] = low[ee] /\ executions'[ee] = executions[ee]
      BY <1>5, <1>9, <2>3
    <3>3. QED
      BY <1>9, <2>3, <3>1, <3>2
  <2>8. logged' + cc <= Total(up1) + o
    BY <1>3, <1>6, <1>7, <1>8, <2>6
  <2>9. \A p \in PP : FALSE
    BY <1>12
  <2>10. logged' + Cardinality(Pending') <=
           Total(up1) + overlaps' + (IF Pending' = {} THEN 0 ELSE 1)
    BY <1>6, <1>7, <1>8, <1>12, <2>6, <2>8
  <2>11. Reserved(up1)'
    BY <1>5, <1>6, <1>9, <2>3, <2>7, <2>9, <2>10 DEF Reserved
  <2>12. QED
    BY <2>11 DEF KeptInv
<1>13. QED
  BY <1>11, <1>12

LEMMA KeptInsert ==
  ASSUME ExecInv, OnceAll, KeptInv, NEW q \in Requests, InsertExecution(q)
  PROVE  KeptInv'
<1>1. PICK low : Reserved(low)
  BY DEF KeptInv
<1>2. /\ req[q].at = "insertExecution" /\ executions' = Append(executions, 0)
      /\ logged' = logged
  BY DEF InsertExecution, At
<1>3. executions \in Seq(Nat) /\ logged \in Nat /\ overlaps \in Nat
  BY DEF ExecInv, ExecRows, ServerTyped
<1>4. PICK k, longer : k = Len(executions) /\ longer = Append(low, 0)
  OBVIOUS
<1>5. /\ low \in Seq(Nat) /\ Len(low) = k /\ k \in Nat
      /\ \A e \in 1..k : low[e] <= executions[e]
  BY <1>1, <1>3, <1>4 DEF Reserved
<1>6. /\ Len(executions') = k + 1 /\ executions'[k + 1] = 0
      /\ \A e \in 1..k : executions'[e] = executions[e]
  BY <1>2, <1>3, <1>4
<1>7. /\ longer \in Seq(Nat) /\ Len(longer) = k + 1 /\ longer[k + 1] = 0
      /\ \A e \in 1..k : longer[e] = low[e]
  BY <1>4, <1>5
<1>8. \A e \in 1..(k + 1) : longer[e] <= executions'[e]
  <2>1. \A e \in 1..(k + 1) : e = k + 1 \/ e \in 1..k
    BY <1>5
  <2>2. QED
    BY <1>5, <1>6, <1>7, <2>1
<1>9. Total(longer) \in Nat /\ Total(low) <= Total(longer) /\ Total(low) \in Nat
  <2>1. \A e \in 1..Len(low) : low[e] \in Nat /\ longer[e] = low[e]
    BY <1>5, <1>7
  <2>2. \A e \in 1..Len(low) : low[e] <= longer[e]
    BY <2>1
  <2>3. Len(longer) \in {Len(low), Len(low) + 1}
    BY <1>5, <1>7
  <2>4. QED
    BY <1>5, <1>7, <2>2, <2>3, TotalKeeps
<1>10. /\ Pending' = Pending \ {q} /\ overlaps' = overlaps
       /\ \A p \in Pending' : p \in Pending /\ req'[p] = req[p]
  BY PendingGoes DEF ExecStatement, ExecutionStatement
<1>11. Pending' = Pending
  BY <1>2, <1>10 DEF Pending, Waiting
<1>12. \A p \in Pending' : longer[req'[p].e] <= req'[p].count
  <2>1. ASSUME NEW p \in Pending' PROVE longer[req'[p].e] <= req'[p].count
    <3>1. p \in Pending /\ req'[p] = req[p]
      BY <1>10
    <3>2. req[p].e \in 1..k /\ low[req[p].e] <= req[p].count
      BY <1>1, <1>4, <3>1, PendingIs DEF Reserved
    <3>3. QED
      BY <1>7, <3>1, <3>2
  <2>2. QED
    BY <2>1
<1>13. logged' + Cardinality(Pending') <=
         Total(longer) + overlaps' + (IF Pending' = {} THEN 0 ELSE 1)
  <2>1. PICK P, c, l, o, t, tt : /\ P = Pending /\ c = Cardinality(P) /\ l = logged /\ o = overlaps
                                 /\ t = Total(low) /\ tt = Total(longer)
    OBVIOUS
  <2>2. c \in Nat /\ l + c <= t + o + (IF P = {} THEN 0 ELSE 1)
    BY <1>1, <2>1, PendingFinite DEF Reserved
  <2>3. l + c <= tt + o + (IF P = {} THEN 0 ELSE 1)
    BY <1>3, <1>9, <2>1, <2>2
  <2>4. QED
    BY <1>2, <1>10, <1>11, <2>1, <2>3
<1>14. Reserved(longer)'
  BY <1>6, <1>7, <1>8, <1>12, <1>13 DEF Reserved
<1>15. QED
  BY <1>14 DEF KeptInv

\* Any other step leaves executions and milestones alone.
LEMMA KeptElse ==
  ASSUME ExecInv, OnceAll, KeptInv, NEW q \in Requests, ExecStatement(q) \/ Crash(q),
         ~WriteMilestones(q), ~InsertExecution(q)
  PROVE  KeptInv'
<1>1. PICK low : Reserved(low)
  BY DEF KeptInv
<1>2. UNCHANGED <<executions, logged>>
  BY DEF ExecStatement, ChecklistStatement, ExecutionStatement, SeedNext, InsertProgress, AddItems,
         SaveItem, CountItems, WritePercent, SelectProgress, UpdateProgress,
         InsertSettlement, InsertFeedback, InsertRating, InsertReview, DeleteReviews, DeleteRating,
         Crash, execution
<1>3. /\ Pending' = Pending \ {q} /\ overlaps' = overlaps
      /\ \A p \in Pending' : p \in Pending /\ req'[p] = req[p]
      /\ Cardinality(Pending') \in Nat
      /\ q \in Pending => Cardinality(Pending') = Cardinality(Pending) - 1
  BY PendingGoes
<1>4. PICK P, PP, c, cc, l, o, t : /\ P = Pending /\ PP = Pending' /\ c = Cardinality(P)
                                   /\ cc = Cardinality(PP) /\ l = logged /\ o = overlaps
                                   /\ t = Total(low)
  OBVIOUS
<1>5. c \in Nat /\ l \in Nat /\ o \in Nat /\ t \in Nat /\ cc \in Nat
  BY <1>1, <1>3, <1>4, PendingFinite, TotalTyped DEF ExecInv, ExecRows, ServerTyped, Reserved
<1>6. l + c <= t + o + (IF P = {} THEN 0 ELSE 1)
  BY <1>1, <1>4 DEF Reserved
<1>7. PP = P \ {q} /\ (q \in P => cc = c - 1) /\ (q \notin P => cc = c)
  BY <1>3, <1>4
<1>8. l + cc <= t + o + (IF PP = {} THEN 0 ELSE 1)
  BY <1>5, <1>6, <1>7, KeptCounts
<1>9. \A p \in Pending' : low[req'[p].e] <= req'[p].count
  BY <1>1, <1>3 DEF Reserved
<1>10. Reserved(low)'
  BY <1>1, <1>2, <1>3, <1>4, <1>8, <1>9 DEF Reserved
<1>11. QED
  BY <1>10 DEF KeptInv

LEMMA KeptStep ==
  ASSUME ExecInv, ExecutionAssumption, OnceAll, KeptInv, [Next]_vars
  PROVE  KeptInv'
<1>1. CASE UNCHANGED <<req, overlaps, executions, logged>>
  BY <1>1 DEF KeptInv, Reserved, Pending, Waiting
<1>2. CASE UNCHANGED vars
  BY <1>1, <1>2 DEF vars, server, edata, execution
<1>3. ASSUME NEW q \in Requests, ExecArrives(q) PROVE KeptInv'
  <2>1. CASE ComesUp
    BY <1>1, <2>1 DEF ComesUp, server, execution
  <2>2. CASE /\ UNCHANGED <<part, up, checklist, execution>>
             /\ \E r : ExecComes(r) /\ Start(q, r)
    BY <2>2, KeptArrives
  <2>3. QED
    BY <1>3, <2>1, <2>2, ExecArrived
<1>4. ASSUME NEW q \in Requests, ExecStatement(q) \/ Crash(q) PROVE KeptInv'
  BY <1>4, KeptWrite, KeptInsert, KeptElse
<1>5. QED
  BY <1>2, <1>3, <1>4, ExecStepIs

LEMMA KeptBegins ==
  ASSUME Init
  PROVE  KeptInv
<1>1. executions = <<>> /\ logged = 0 /\ overlaps = 0 /\ \A q \in Requests : req[q].at = "idle"
  BY DEF Init, ServerInit, Idle
<1>2. Pending = {}
  BY <1>1 DEF Pending, Waiting
<1>3. Cardinality({}) = 0
  BY FS_EmptySet
<1>4. PICK low : low = <<>>
  OBVIOUS
<1>5. low \in Seq(Nat) /\ Len(low) = 0 /\ Len(executions) = 0
  BY <1>1, <1>4
<1>6. Total(low) \in Nat
  BY <1>5, TotalTyped
<1>7. Reserved(low)
  BY <1>1, <1>2, <1>3, <1>5, <1>6 DEF Reserved
<1>8. QED
  BY <1>7 DEF KeptInv

LEMMA KeptMeans ==
  ASSUME ExecInv, OnceAll, KeptInv
  PROVE  MilestonesKept
<1>1. PICK low : Reserved(low)
  BY DEF KeptInv
<1>2. /\ executions \in Seq(Nat) /\ logged \in Nat /\ overlaps \in Nat
      /\ low \in Seq(Nat) /\ Len(executions) = Len(low)
  BY <1>1 DEF ExecInv, ExecRows, ServerTyped, Reserved
<1>3. Total(low) \in Nat /\ Total(executions) \in Nat /\ Total(low) <= Total(executions)
  <2>1. \A e \in 1..Len(low) : low[e] \in Nat /\ low[e] <= executions[e]
    BY <1>1, <1>2 DEF Reserved
  <2>2. Len(executions) \in {Len(low), Len(low) + 1}
    BY <1>2
  <2>3. QED
    BY <1>2, <2>1, <2>2, TotalKeeps
<1>4. PICK P, c : P = Pending /\ c = Cardinality(P)
  OBVIOUS
<1>5. c \in Nat /\ IsFiniteSet(P) /\ (c = 0 => P = {})
  BY <1>4, PendingFinite, FS_EmptySet
<1>6. logged + c <= Total(low) + overlaps + (IF P = {} THEN 0 ELSE 1)
  BY <1>1, <1>4 DEF Reserved
<1>7. logged <= Total(executions) + overlaps
  BY <1>2, <1>3, <1>5, <1>6
<1>8. QED
  BY <1>7 DEF MilestonesKept

\* A milestone the agent has been told is logged stays in the table, but for one
\* that each overlap may lose, wherever requests die and however often the
\* service is started.
THEOREM MilestonesAlwaysKept == Spec => []MilestonesKept
<1>1. Init => KeptInv
  BY KeptBegins
<1>2. ExecInv /\ OnceAll /\ KeptInv /\ [Next]_vars => KeptInv'
  BY KeptStep, ExecutionAssumption
<1>3. ExecInv /\ OnceAll /\ KeptInv => MilestonesKept
  BY KeptMeans
<1>4. QED
  BY <1>1, <1>2, <1>3, OnceSafe, PTL DEF Spec
=============================================================================
