------------------------------ MODULE Payroll ------------------------------
(***************************************************************************)
(* One month's payroll.  Admins generate incentives from the month's       *)
(* earnings and salaries from the incentives, as often as they like; they  *)
(* approve, pay, reject and correct the rows; and they edit the settings   *)
(* both generations work with, which are read through a cache.             *)
(*                                                                         *)
(* A generation reads its inputs once and then takes the agents one by     *)
(* one: findOne, and an INSERT or TypeORM's save (SELECT and compare, then *)
(* UPDATE of the columns that differ).  Neither table has a unique index.  *)
(***************************************************************************)
EXTENDS Server, Integers, Sequences, FiniteSets

CONSTANTS
  Agents,      \* approved agents
  Earnings,    \* what a completed job may add to an agent's revenue
  MaxRevenue,  \* bound: an agent's revenue in the month
  Thresholds,  \* values of agent_incentive_threshold
  Salaries,    \* values of agent_fixed_salary
  Deductions,  \* deductions an admin may enter
  Decisions,   \* what an admin may decide about a row
  Percent,     \* agent_incentive_percent, in hundredths of a percent
  None

Prices == INSTANCE Pricing WITH NoCap <- None

Key   == {"threshold", "salary"}
Table == {"incentive", "salary"}
KeyOf == [incentive |-> "threshold", salary |-> "salary"]
Value == Thresholds \cup Salaries
Legal(k) == IF k = "threshold" THEN Thresholds ELSE Salaries

ASSUME PayrollAssumption ==
  /\ IsFiniteSet(Agents)
  /\ Earnings \subseteq Nat \ {0} /\ MaxRevenue \in Nat /\ Percent \in Nat
  /\ Thresholds \subseteq Nat /\ Salaries \subseteq Nat
  /\ Deductions \subseteq Nat /\ 0 \in Deductions
  /\ Decisions \subseteq {"APPROVED", "PAID", "REJECTED"}
  /\ None \notin Value

VARIABLES
  settings,  \* system_settings
  cache,     \* the process's copy of them; an entry expires after 30 s
  revenue,   \* agent_earnings: each agent's revenue of the month
  rows,      \* agent_incentives and salary_records of the month
  undone     \* rows in which a generation has overwritten an admin's decision

vars == <<server, settings, cache, revenue, rows, undone>>

Status       == {"PENDING", "APPROVED", "PAID", "REJECTED"}
IncentiveRow == [revenue: Nat, threshold: Nat, amount: Nat, status: Status]
SalaryRow    == [fixed: Nat, incentive: Nat, deductions: Nat, net: Int,
                 status: Status]
RowOf(t)     == IF t = "incentive" THEN IncentiveRow ELSE SalaryRow
Column       == {"revenue", "threshold", "amount", "fixed", "incentive",
                 "deductions", "net", "status"}

\* What a generation has read, and the agents it has not come to yet.
Run == [value: Value, input: [Agents -> Nat], left: SUBSET Agents]

ASSUME RunAssumption == None \notin Run

RowStep(t) ==
  [at: {"insert"}, t: {t}, run: Run, a: Agents, mem: RowOf(t)]
    \cup [at: {"select", "update"}, t: {t}, run: Run \cup {None}, a: Agents,
          i: Nat \ {0}, mem: RowOf(t), dirty: SUBSET Column]

\* A request's step and memory: an edit of settings, a generation that reads
\* its inputs, and the saving of one row, by a generation or by an admin.
Step ==
  {Idle}
    \cup [at: {"set", "forget"}, left: SUBSET Key, key: Key, new: [Key -> Value]]
    \cup [at: {"fetch"}, t: Table]
    \cup [at: {"fill", "load"}, t: Table, value: Value]
    \cup [at: {"find"}, t: Table, run: Run]
    \cup RowStep("incentive") \cup RowStep("salary")

TypeOK ==
  /\ settings \in [Key -> Value]
  /\ cache \in [Key -> Value \cup {None}]
  /\ revenue \in [Agents -> Nat]
  /\ rows \in [Table -> [Agents -> Seq(IncentiveRow \cup SalaryRow)]]
  /\ \A t \in Table, a \in Agents : rows[t][a] \in Seq(RowOf(t))
  /\ undone \subseteq Table \X Agents \X (Nat \ {0})
  /\ req \in [Requests -> Step] /\ overlaps \in Nat /\ deaths \in Nat
  /\ \A q \in Requests : req[q].at \in {"select", "update"} =>
       req[q].i \in DOMAIN rows[req[q].t][req[q].a]

Init ==
  /\ ServerInit
  /\ settings \in [Key -> Value] /\ \A k \in Key : settings[k] \in Legal(k)
  /\ cache = [k \in Key |-> None]
  /\ revenue = [a \in Agents |-> 0]
  /\ rows = [t \in Table |-> [a \in Agents |-> <<>>]]
  /\ undone = {}

data == <<settings, cache, revenue, rows, undone>>

-----------------------------------------------------------------------------
(* Settings.                                                               *)

\* set and bulkSet: one key after the other, each saved and then dropped
\* from the cache.
EditSettings(q) ==
  /\ \E keys \in SUBSET Key \ {{}}, new \in [Key -> Value], k \in Key :
       /\ \A l \in keys : new[l] \in Legal(l)
       /\ \A l \in Key \ keys : new[l] = settings[l]
       /\ k \in keys
       /\ Start(q, [at |-> "set", left |-> keys, key |-> k, new |-> new])
  /\ UNCHANGED data

SaveSetting(q) ==
  /\ At(q, "set")
  /\ settings' = [settings EXCEPT ![req[q].key] = req[q].new[req[q].key]]
  /\ Go(q, [req[q] EXCEPT !.at = "forget"])
  /\ UNCHANGED <<cache, revenue, rows, undone>>

\* Mutant: the edited setting stays in the cache.
NextKeyOnly(q) ==
  /\ At(q, "forget")
  /\ LET left == req[q].left \ {req[q].key}
     IN  IF left = {} THEN Answer(q)
         ELSE \E k \in left : Go(q, [req[q] EXCEPT !.at = "set", !.left = left,
                                                  !.key = k])
  /\ UNCHANGED data

ForgetSetting(q) ==
  /\ At(q, "forget")
  /\ cache' = [cache EXCEPT ![req[q].key] = None]
  /\ LET left == req[q].left \ {req[q].key}
     IN  IF left = {} THEN Answer(q)
         ELSE \E k \in left : Go(q, [req[q] EXCEPT !.at = "set", !.left = left,
                                                  !.key = k])
  /\ UNCHANGED <<settings, revenue, rows, undone>>

\* Thirty seconds pass.
Expire(k) ==
  /\ cache[k] # None
  /\ cache' = [cache EXCEPT ![k] = None]
  /\ UNCHANGED <<server, settings, revenue, rows, undone>>

-----------------------------------------------------------------------------
(* Generations.                                                            *)

\* generateIncentives, generateSalary: first of all the setting, which may
\* be in the cache.
Generate(q, t) ==
  /\ LET v == cache[KeyOf[t]]
     IN  Start(q, IF v = None THEN [at |-> "fetch", t |-> t]
                  ELSE [at |-> "load", t |-> t, value |-> v])
  /\ UNCHANGED data

FetchSetting(q) ==
  /\ At(q, "fetch")
  /\ Go(q, [at |-> "fill", t |-> req[q].t, value |-> settings[KeyOf[req[q].t]]])
  /\ UNCHANGED data

FillCache(q) ==
  /\ At(q, "fill")
  /\ cache' = [cache EXCEPT ![KeyOf[req[q].t]] = req[q].value]
  /\ Go(q, [req[q] EXCEPT !.at = "load"])
  /\ UNCHANGED <<settings, revenue, rows, undone>>

\* A generation that has agents left goes on to one of them.
GoOn(q, t, run) ==
  IF run.left = {} THEN Answer(q)
                   ELSE Go(q, [at |-> "find", t |-> t, run |-> run])

\* The month's revenue of every agent with earnings.
LoadRevenue(q) ==
  /\ At(q, "load") /\ req[q].t = "incentive"
  /\ GoOn(q, "incentive", [value |-> req[q].value, input |-> revenue,
                           left |-> {a \in Agents : revenue[a] > 0}])
  /\ UNCHANGED data

\* The amounts one may read from the incentives of agent a.
Amounts(a) == {rows["incentive"][a][i].amount : i \in DOMAIN rows["incentive"][a]}

\* The month's incentive of every approved agent; of two rows, either.
LoadIncentives(q) ==
  /\ At(q, "load") /\ req[q].t = "salary"
  /\ \E input \in [Agents -> {0} \cup UNION {Amounts(a) : a \in Agents}] :
       /\ \A a \in Agents : input[a] \in IF Amounts(a) = {} THEN {0} ELSE Amounts(a)
       /\ GoOn(q, "salary", [value |-> req[q].value, input |-> input,
                             left |-> Agents])
  /\ UNCHANGED data

Settled(row) == row.status \in {"APPROVED", "PAID"}

\* The incentive is a share of what the revenue exceeds the threshold by.
IncentiveAmounts(gained, threshold) ==
  IF gained > threshold THEN Prices!Rounded((gained - threshold) * Percent, 10000)
                        ELSE {0}

\* The row a generation makes for agent a, who has had these deductions.
Computed(t, run, a, deductions) ==
  IF t = "incentive"
  THEN {[revenue |-> run.input[a], threshold |-> run.value, amount |-> x,
         status |-> "PENDING"] : x \in IncentiveAmounts(run.input[a], run.value)}
  ELSE {[fixed |-> run.value, incentive |-> run.input[a],
         deductions |-> deductions,
         net |-> run.value + run.input[a] - deductions, status |-> "PENDING"]}

\* Mutant: a second generation does not find the first one's row.
FindNever(q) ==
  /\ At(q, "find")
  /\ \E a \in req[q].run.left :
       \E mem \in Computed(req[q].t, req[q].run, a, 0) :
         Go(q, [at |-> "insert", t |-> req[q].t, run |-> req[q].run,
                a |-> a, mem |-> mem])
  /\ UNCHANGED data

\* The next agent has no row yet.
FindNone(q) ==
  /\ At(q, "find")
  /\ \E a \in req[q].run.left :
       /\ rows[req[q].t][a] = <<>>
       /\ \E mem \in Computed(req[q].t, req[q].run, a, 0) :
            Go(q, [at |-> "insert", t |-> req[q].t, run |-> req[q].run,
                   a |-> a, mem |-> mem])
  /\ UNCHANGED data

\* Mutant: the deductions an admin has entered are computed afresh.
NoDeductions(t, row) == 0

OwnDeductions(t, row) == IF t = "salary" THEN row.deductions ELSE 0

\* findOne returns the next agent's row, or one of them.  A row that is
\* approved or paid is left alone, any other computed again.
FindRow(q) ==
  /\ At(q, "find")
  /\ LET t == req[q].t  run == req[q].run IN
     \E a \in run.left : \E i \in DOMAIN rows[t][a] : LET row == rows[t][a][i] IN
       IF Settled(row) THEN GoOn(q, t, [run EXCEPT !.left = @ \ {a}])
       ELSE \E mem \in Computed(t, run, a, OwnDeductions(t, row)) :
              Go(q, [at |-> "select", t |-> t, run |-> run, a |-> a, i |-> i,
                     mem |-> mem, dirty |-> {}])
  /\ UNCHANGED data

InsertRow(q) ==
  /\ At(q, "insert")
  /\ LET r == req[q] IN
     /\ rows' = [rows EXCEPT ![r.t][r.a] = Append(@, r.mem)]
     /\ GoOn(q, r.t, [r.run EXCEPT !.left = @ \ {r.a}])
  /\ UNCHANGED <<settings, cache, revenue, undone>>

-----------------------------------------------------------------------------
(* An admin's update, and the save it shares with the generations.         *)

\* updateIncentive: any status after any other.
UpdateIncentive(q, a) ==
  /\ \E i \in DOMAIN rows["incentive"][a], status \in Decisions :
       Start(q, [at |-> "select", t |-> "incentive", run |-> None, a |-> a,
                 i |-> i, dirty |-> {},
                 mem |-> [rows["incentive"][a][i] EXCEPT !.status = status]])
  /\ UNCHANGED data

\* Mutant: netSalary is left as it was.
CorrectedInPart(row, d, status) ==
  [row EXCEPT !.deductions = d, !.status = status]

\* netSalary is computed again.
Corrected(row, d, status) ==
  [row EXCEPT !.deductions = d, !.status = status,
              !.net = row.fixed + row.incentive - d]

\* updateSalary: status, deductions or both.
UpdateSalary(q, a) ==
  /\ \E i \in DOMAIN rows["salary"][a] : LET row == rows["salary"][a][i] IN
     \E d \in Deductions \cup {row.deductions},
        status \in {"PENDING", row.status} \cup (Decisions \ {"REJECTED"}) :
       Start(q, [at |-> "select", t |-> "salary", run |-> None, a |-> a,
                 i |-> i, mem |-> Corrected(row, d, status), dirty |-> {}])
  /\ UNCHANGED data

\* A save is over: a generation goes on, an admin gets an answer.
Saved(q) ==
  IF req[q].run = None THEN Answer(q)
  ELSE GoOn(q, req[q].t, [req[q].run EXCEPT !.left = @ \ {req[q].a}])

\* save, first half: SELECT the row and compare.
SelectRow(q) ==
  /\ At(q, "select")
  /\ LET r    == req[q]
         diff == {c \in DOMAIN r.mem : r.mem[c] # rows[r.t][r.a][r.i][c]}
     IN  IF diff = {} THEN Saved(q)
         ELSE Go(q, [r EXCEPT !.at = "update", !.dirty = diff])
  /\ UNCHANGED data

Overwrite(row, mem, cols) ==
  [c \in DOMAIN row |-> IF c \in cols THEN mem[c] ELSE row[c]]

\* A generation changes a row that is settled, or an admin's deductions.
Undoes(q, row, new) ==
  /\ req[q].run # None
  /\ \/ Settled(row) /\ new # row
     \/ req[q].t = "salary" /\ new.deductions # row.deductions

\* save, second half: UPDATE of exactly the columns that differed.
UpdateRow(q) ==
  /\ At(q, "update")
  /\ LET r   == req[q]
         row == rows[r.t][r.a][r.i]
         new == Overwrite(row, r.mem, r.dirty)
     IN  /\ rows' = [rows EXCEPT ![r.t][r.a][r.i] = new]
         /\ undone' = IF Undoes(q, row, new) THEN undone \cup {<<r.t, r.a, r.i>>}
                                            ELSE undone
  /\ Saved(q)
  /\ UNCHANGED <<settings, cache, revenue>>

-----------------------------------------------------------------------------
\* A job is completed, and its earning recorded.
Earn(a) ==
  /\ \E x \in Earnings :
       /\ revenue[a] + x <= MaxRevenue
       /\ revenue' = [revenue EXCEPT ![a] = @ + x]
  /\ UNCHANGED <<server, settings, cache, rows, undone>>

Crash(q) == Die(q) /\ UNCHANGED data

SettingsRoutes(q) == EditSettings(q)

EarningsRoutes(q) ==
  \/ \E t \in Table : Generate(q, t)
  \/ \E a \in Agents : UpdateIncentive(q, a) \/ UpdateSalary(q, a)

Statement(q) ==
  \/ SaveSetting(q) \/ ForgetSetting(q) \/ FetchSetting(q) \/ FillCache(q)
  \/ LoadRevenue(q) \/ LoadIncentives(q) \/ FindNone(q) \/ FindRow(q)
  \/ InsertRow(q) \/ SelectRow(q) \/ UpdateRow(q)

Next ==
  \/ \E q \in Requests :
       SettingsRoutes(q) \/ EarningsRoutes(q) \/ Statement(q) \/ Crash(q)
  \/ \E a \in Agents : Earn(a)
  \/ \E k \in Key : Expire(k)

Spec == Init /\ [][Next]_vars

-----------------------------------------------------------------------------
(* Properties.                                                             *)

\* An agent has one row a month in each table, plus at most one for every
\* overlap: only two generations that both found none insert two.
RowsBounded ==
  \A t \in Table, a \in Agents : Len(rows[t][a]) <= 1 + overlaps

\* "Money already committed to an agent is never recalculated" and "existing
\* deductions entered by an admin are preserved", but for an update that
\* overlaps the generation: each overlap costs at most one row, however many
\* generations write over it.
CommittedKept == Cardinality(undone) <= overlaps

AddsUp(t, row) ==
  IF t = "incentive"
  THEN row.amount \in IncentiveAmounts(row.revenue, row.threshold)
  ELSE row.net = row.fixed + row.incentive - row.deductions

\* A row's total is that of its own columns.  Two saves that interleave may
\* leave columns of both; each overlap spoils at most one row of an agent.
TotalsAddUp ==
  \A t \in Table, a \in Agents :
    Cardinality({i \in DOMAIN rows[t][a] : ~AddsUp(t, rows[t][a][i])}) <= overlaps

\* An edited setting is in force when the edit is answered: without an
\* overlap or a death, the cache has no other value than the table.
EditInForce ==
  overlaps = 0 /\ deaths = 0 /\ Quiet =>
    \A k \in Key : cache[k] \in {None, settings[k]}
=============================================================================
