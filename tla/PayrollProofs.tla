--------------------------- MODULE PayrollProofs ---------------------------
(***************************************************************************)
(* Theorems about the payroll: what overlapping generations and admins may *)
(* cost, for any number of agents and requests.                            *)
(***************************************************************************)
EXTENDS Payroll, ServerProofs

-----------------------------------------------------------------------------
(* The invariants.                                                         *)

\* Generations that have found no row of agent a and will insert one.
Inserting(t, a) == {q \in Requests : At(q, "insert") /\ req[q].t = t /\ req[q].a = a}

RowsInv == \A t \in Table, a \in Agents :
  Len(rows[t][a]) + Cardinality(Inserting(t, a)) <= 1 + overlaps

\* A row that request q is about to save.
Saving(q) == At(q, "select") \/ At(q, "update")
Target(q) == <<req[q].t, req[q].a, req[q].i>>
RowAt(q)  == rows[req[q].t][req[q].a][req[q].i]

Generating(q) ==
  \/ req[q].at \in {"fetch", "fill", "load", "find", "insert"}
  \/ Saving(q) /\ req[q].run # None

\* A generation that may undo an admin's decision: it has come after the
\* generation read the row.
Risky(q) ==
  /\ Saving(q) /\ req[q].run # None
  /\ \/ Settled(RowAt(q))
     \/ req[q].t = "salary" /\ req[q].mem.deductions # RowAt(q).deductions

Deciding(q) == Saving(q) /\ req[q].run = None

\* Rows with a decision undone, or at risk, or about to be at risk.
Exposed == undone \cup {Target(q) : q \in {p \in Requests : Risky(p) \/ Deciding(p)}}

CommitInv ==
  /\ \A q \in Requests : Saving(q) /\ req[q].run # None => ~Settled(req[q].mem)
  /\ IsFiniteSet(Exposed)
  /\ Cardinality(undone) <= overlaps
  /\ Cardinality(Exposed) <= 1 + overlaps
  /\ (\E q \in Requests : Generating(q)) => Cardinality(Exposed) <= overlaps

\* What a save will leave of its row if nobody else comes first.
Result(q) == IF At(q, "select") THEN req[q].mem
                                ELSE Overwrite(RowAt(q), req[q].mem, req[q].dirty)

\* Rows of agent a that do not add up, or will not when they are saved.
Spoiled(t, a) == {i \in DOMAIN rows[t][a] :
  \/ ~AddsUp(t, rows[t][a][i])
  \/ \E q \in Requests : Saving(q) /\ Target(q) = <<t, a, i>> /\ ~AddsUp(t, Result(q))}

\* A request that may still save a row of agent a.
MaySave(q, t, a) ==
  \/ req[q].at \in {"fetch", "fill", "load"} /\ req[q].t = t
  \/ At(q, "find") /\ req[q].t = t /\ a \in req[q].run.left
  \/ /\ At(q, "insert") \/ Saving(q)
     /\ req[q].t = t
     /\ \/ req[q].a = a
        \/ req[q].run # None /\ a \in req[q].run.left

Savers(t, a) == {q \in Requests : MaySave(q, t, a)}

TotalsInv ==
  /\ \A t \in Table, a \in Agents :
       /\ Cardinality(Spoiled(t, a)) <= overlaps
       /\ Cardinality(Spoiled(t, a)) + Cardinality(Savers(t, a)) <= 1 + overlaps
  /\ \A q \in Requests : At(q, "insert") => AddsUp(req[q].t, req[q].mem)

\* Without an overlap or a death, only a setting that is being edited may be
\* in the cache with another value than in the table.
CacheInv ==
  overlaps = 0 /\ deaths = 0 =>
    /\ \A k \in Key : \/ cache[k] \in {None, settings[k]}
                      \/ \E q \in Requests : At(q, "forget") /\ req[q].key = k
    /\ \A q \in Requests : At(q, "fill") => req[q].value = settings[KeyOf[req[q].t]]

-----------------------------------------------------------------------------
(* Types.                                                                  *)

\* What a request has in its memory at each step.
LEMMA SettingsMemory ==
  ASSUME NEW r \in Step, r.at \in {"set", "forget"}
  PROVE  r \in [at: {"set", "forget"}, left: SUBSET Key, key: Key, new: [Key -> Value]]
BY DEF Step, Idle, RowStep

LEMMA SettingMemory ==
  ASSUME NEW r \in Step, r.at \in {"fetch", "fill", "load"}
  PROVE  /\ r.t \in Table
         /\ r.at = "fetch" => r \in [at: {"fetch"}, t: Table]
         /\ r.at # "fetch" => r \in [at: {"fill", "load"}, t: Table, value: Value]
BY DEF Step, Idle, RowStep

LEMMA FindMemory ==
  ASSUME NEW r \in Step, r.at = "find"
  PROVE  r \in [at: {"find"}, t: Table, run: Run]
BY DEF Step, Idle, RowStep

LEMMA InsertMemory ==
  ASSUME NEW r \in Step, r.at = "insert"
  PROVE  /\ r.t \in Table /\ r.run \in Run /\ r.a \in Agents /\ r.mem \in RowOf(r.t)
         /\ r \in RowStep(r.t)
BY DEF Step, Idle, RowStep, Table

LEMMA SaveMemory ==
  ASSUME NEW r \in Step, r.at \in {"select", "update"}
  PROVE  /\ r.t \in Table /\ r.run \in Run \cup {None} /\ r.a \in Agents
         /\ r.i \in Nat \ {0} /\ r.mem \in RowOf(r.t) /\ r.dirty \subseteq Column
         /\ r \in [at: {"select", "update"}, t: {r.t}, run: Run \cup {None}, a: Agents,
                   i: Nat \ {0}, mem: RowOf(r.t), dirty: SUBSET Column]
BY DEF Step, Idle, RowStep, Table

\* Memories a request may be given.
LEMMA RowSteps ==
  ASSUME NEW t \in Table
  PROVE  RowStep(t) \subseteq Step
BY DEF Table, Step

LEMMA GoesOn ==
  ASSUME ServerTyped(Step), NEW q \in Requests, NEW t \in Table, NEW run \in Run,
         GoOn(q, t, run)
  PROVE  ServerTyped(Step)'
<1>1. [at |-> "find", t |-> t, run |-> run] \in Step /\ Idle \in Step
  BY DEF Step
<1>2. QED
  BY <1>1, GoTyped, AnswerTyped DEF GoOn

LEMMA NatProduct == \A a, b \in Nat : a * b \in Nat
OBVIOUS

LEMMA AmountsNat ==
  ASSUME NEW gained \in Nat, NEW threshold \in Nat
  PROVE  IncentiveAmounts(gained, threshold) \subseteq Nat
<1>1. CASE gained > threshold
  <2>1. gained - threshold \in Nat /\ Percent \in Nat
    BY <1>1, PayrollAssumption DEF PayrollAssumption
  <2>2. (gained - threshold) * Percent \in Nat
    BY <2>1, NatProduct
  <2> DEFINE n == (gained - threshold) * Percent
  <2>3. Prices!Rounded(n, 10000) \subseteq Nat
    <3>1. n \in Nat
      BY <2>2
    <3> HIDE DEF n
    <3>2. n \div 10000 \in Nat
      BY <3>1
    <3>3. QED
      BY <3>2 DEF Prices!Rounded
  <2>4. QED
    BY <1>1, <2>3 DEF IncentiveAmounts
<1>2. CASE ~(gained > threshold)
  BY <1>2 DEF IncentiveAmounts
<1>3. QED
  BY <1>1, <1>2

\* A generation's row is a row of its table, adds up, and is not settled.
LEMMA ComputedRow ==
  ASSUME NEW t \in Table, NEW run \in Run, NEW a \in Agents, NEW d \in Nat,
         NEW row \in Computed(t, run, a, d)
  PROVE  /\ row \in RowOf(t) /\ AddsUp(t, row) /\ row.status = "PENDING"
         /\ t = "salary" => row.deductions = d
<1>1. run.input[a] \in Nat /\ run.value \in Nat
  BY PayrollAssumption DEF Run, Value, PayrollAssumption
<1>2. CASE t = "incentive"
  <2>1. PICK x \in IncentiveAmounts(run.input[a], run.value) :
          row = [revenue |-> run.input[a], threshold |-> run.value, amount |-> x,
                 status |-> "PENDING"]
    BY <1>2 DEF Computed
  <2>2. x \in Nat
    BY <1>1, <2>1, AmountsNat
  <2>3. QED
    BY <1>1, <1>2, <2>1, <2>2 DEF RowOf, IncentiveRow, Status, AddsUp
<1>3. CASE t = "salary"
  <2>1. row = [fixed |-> run.value, incentive |-> run.input[a], deductions |-> d,
               net |-> run.value + run.input[a] - d, status |-> "PENDING"]
    BY <1>3 DEF Computed
  <2>2. run.value + run.input[a] - d \in Int
    BY <1>1
  <2>3. QED
    BY <1>1, <1>3, <2>1, <2>2 DEF RowOf, SalaryRow, Status, AddsUp
<1>4. QED
  BY <1>2, <1>3 DEF Table


\* What a save leaves is a row of the same table: of either columns.
LEMMA OverwriteType ==
  ASSUME NEW t \in Table, NEW row \in RowOf(t), NEW mem \in RowOf(t), NEW cols
  PROVE  /\ Overwrite(row, mem, cols) \in RowOf(t)
         /\ DOMAIN row = DOMAIN mem
         /\ Overwrite(row, mem, cols).status \in {row.status, mem.status}
         /\ t = "salary" => Overwrite(row, mem, cols).deductions \in {row.deductions, mem.deductions}
<1>1. CASE t = "incentive"
  BY <1>1 DEF RowOf, IncentiveRow, Overwrite
<1>2. CASE t = "salary"
  BY <1>2 DEF RowOf, SalaryRow, Overwrite
<1>3. QED
  BY <1>1, <1>2 DEF Table

\* A table with one row changed, and with one more row.
LEMMA RowChanged ==
  ASSUME TypeOK, NEW t \in Table, NEW a \in Agents, NEW i \in DOMAIN rows[t][a],
         NEW new \in RowOf(t), rows' = [rows EXCEPT ![t][a][i] = new]
  PROVE  /\ rows' \in [Table -> [Agents -> Seq(IncentiveRow \cup SalaryRow)]]
         /\ \A u \in Table, b \in Agents :
              /\ rows'[u][b] \in Seq(RowOf(u)) /\ DOMAIN rows'[u][b] = DOMAIN rows[u][b]
              /\ Len(rows'[u][b]) = Len(rows[u][b])
              /\ \A j \in DOMAIN rows[u][b] :
                   rows'[u][b][j] = IF <<u, b, j>> = <<t, a, i>> THEN new ELSE rows[u][b][j]
<1>1. rows[t][a] \in Seq(RowOf(t)) /\ rows[t][a] \in Seq(IncentiveRow \cup SalaryRow)
      /\ new \in IncentiveRow \cup SalaryRow
  BY DEF TypeOK, RowOf, Table
<1> DEFINE s == [rows[t][a] EXCEPT ![i] = new]
<1>2. s \in Seq(RowOf(t)) /\ s \in Seq(IncentiveRow \cup SalaryRow) /\ Len(s) = Len(rows[t][a])
      /\ DOMAIN s = DOMAIN rows[t][a]
      /\ \A j \in DOMAIN rows[t][a] : s[j] = IF j = i THEN new ELSE rows[t][a][j]
  BY <1>1
<1>3. rows' = [rows EXCEPT ![t] = [rows[t] EXCEPT ![a] = s]]
  OBVIOUS
<1> HIDE DEF s
<1> DEFINE R == Seq(IncentiveRow \cup SalaryRow)
<1>4. rows \in [Table -> [Agents -> R]] /\ s \in R
  BY <1>2 DEF TypeOK
<1> HIDE DEF R
<1> DEFINE f == [rows[t] EXCEPT ![a] = s]
<1>5. f \in [Agents -> R] /\ \A b \in Agents : f[b] = IF b = a THEN s ELSE rows[t][b]
  BY <1>4
<1>6. rows' = [rows EXCEPT ![t] = f]
  BY <1>3
<1> HIDE DEF f
<1>7. rows' \in [Table -> [Agents -> R]]
  BY <1>4, <1>5, <1>6
<1>8. \A u \in Table, b \in Agents :
        rows'[u][b] = IF u = t /\ b = a THEN s ELSE rows[u][b]
  BY <1>4, <1>5, <1>6
<1>9. QED
  BY <1>2, <1>7, <1>8 DEF TypeOK, R

LEMMA RowAdded ==
  ASSUME TypeOK, NEW t \in Table, NEW a \in Agents, NEW new \in RowOf(t),
         rows' = [rows EXCEPT ![t][a] = Append(@, new)]
  PROVE  /\ rows' \in [Table -> [Agents -> Seq(IncentiveRow \cup SalaryRow)]]
         /\ \A u \in Table, b \in Agents :
              /\ rows'[u][b] \in Seq(RowOf(u)) /\ DOMAIN rows[u][b] \subseteq DOMAIN rows'[u][b]
              /\ \A j \in DOMAIN rows[u][b] : rows'[u][b][j] = rows[u][b][j]
              /\ \A j \in DOMAIN rows'[u][b] \ DOMAIN rows[u][b] :
                   u = t /\ b = a /\ rows'[u][b][j] = new
<1>1. rows[t][a] \in Seq(RowOf(t)) /\ rows[t][a] \in Seq(IncentiveRow \cup SalaryRow)
      /\ new \in IncentiveRow \cup SalaryRow
  BY DEF TypeOK, RowOf, Table
<1> DEFINE s == Append(rows[t][a], new)
<1>2. /\ s \in Seq(RowOf(t)) /\ s \in Seq(IncentiveRow \cup SalaryRow)
      /\ Len(s) = Len(rows[t][a]) + 1 /\ DOMAIN rows[t][a] \subseteq DOMAIN s
      /\ \A j \in DOMAIN rows[t][a] : s[j] = rows[t][a][j]
      /\ \A j \in DOMAIN s \ DOMAIN rows[t][a] : s[j] = new
  BY <1>1
<1>3. rows' = [rows EXCEPT ![t] = [rows[t] EXCEPT ![a] = s]]
  OBVIOUS
<1> HIDE DEF s
<1> DEFINE R == Seq(IncentiveRow \cup SalaryRow)
<1>4. rows \in [Table -> [Agents -> R]] /\ s \in R
  BY <1>2 DEF TypeOK
<1> HIDE DEF R
<1> DEFINE f == [rows[t] EXCEPT ![a] = s]
<1>5. f \in [Agents -> R] /\ \A b \in Agents : f[b] = IF b = a THEN s ELSE rows[t][b]
  BY <1>4
<1>6. rows' = [rows EXCEPT ![t] = f]
  BY <1>3
<1> HIDE DEF f
<1>7. rows' \in [Table -> [Agents -> R]]
  BY <1>4, <1>5, <1>6
<1>8. \A u \in Table, b \in Agents :
        rows'[u][b] = IF u = t /\ b = a THEN s ELSE rows[u][b]
  BY <1>4, <1>5, <1>6
<1>9. QED
  BY <1>2, <1>7, <1>8 DEF TypeOK, R

\* A request at a save has a row to save.
HasRow(q) == Saving(q) => req[q].i \in DOMAIN rows[req[q].t][req[q].a]

\* What a step of request q does to the requests.
LEMMA Moves ==
  ASSUME TypeOK, NEW q \in Requests, NEW r, Start(q, r) \/ Go(q, r)
  PROVE  req'[q] = r /\ \A p \in Requests : p # q => req'[p] = req[p]
BY DEF TypeOK, Start, Go

LEMMA Ends ==
  ASSUME TypeOK, NEW q \in Requests, Answer(q) \/ Die(q)
  PROVE  req'[q] = Idle /\ \A p \in Requests : p # q => req'[p] = req[p]
BY DEF TypeOK, Answer, Go, Die

\* A generation goes on to the agents it has left, or is answered.
LEMMA GoesTo ==
  ASSUME TypeOK, NEW q \in Requests, NEW t \in Table, NEW run \in Run, GoOn(q, t, run)
  PROVE  /\ \A p \in Requests : p # q => req'[p] = req[p]
         /\ UNCHANGED <<overlaps, deaths>>
         /\ \/ req'[q] = Idle
            \/ req'[q] = [at |-> "find", t |-> t, run |-> run]
         /\ ServerTyped(Step)'
<1>1. ServerTyped(Step)
  BY DEF TypeOK, ServerTyped
<1>2. ServerTyped(Step)'
  BY <1>1, GoesOn
<1>3. CASE run.left = {}
  BY <1>2, <1>3, Ends DEF GoOn, Answer, Go
<1>4. CASE run.left # {}
  BY <1>2, <1>4, Moves DEF GoOn, Go
<1>5. QED
  BY <1>3, <1>4

\* The parts of TypeOK: the tables, and the requests.
TablesOK ==
  /\ settings \in [Key -> Value]
  /\ cache \in [Key -> Value \cup {None}]
  /\ revenue \in [Agents -> Nat]
  /\ rows \in [Table -> [Agents -> Seq(IncentiveRow \cup SalaryRow)]]
  /\ \A t \in Table, a \in Agents : rows[t][a] \in Seq(RowOf(t))
  /\ undone \subseteq Table \X Agents \X (Nat \ {0})

LEMMA TypeParts ==
  TypeOK <=> TablesOK /\ ServerTyped(Step) /\ \A q \in Requests : HasRow(q)
BY DEF TypeOK, TablesOK, ServerTyped, HasRow, Saving, At

\* A step that keeps the rows, and begins no save of a row that is not there.
LEMMA TypesStay ==
  ASSUME TypeOK, NEW q \in Requests, ServerTyped(Step)', UNCHANGED rows, TablesOK',
         \A p \in Requests : p # q => req'[p] = req[p],
         HasRow(q)'
  PROVE  TypeOK'
<1>1. \A p \in Requests : HasRow(p)'
  <2>1. ASSUME NEW p \in Requests, p # q
        PROVE  HasRow(p)'
    <3>1. HasRow(p) /\ req'[p] = req[p]
      BY <2>1, TypeParts
    <3>2. QED
      BY <3>1 DEF HasRow, Saving, At
  <2>2. QED
    BY <2>1
<1>2. QED
  BY <1>1 DEF TypeOK, TablesOK, ServerTyped, HasRow, Saving, At

LEMMA RunsOfIncentives ==
  ASSUME TypeOK, NEW value \in Value
  PROVE  [value |-> value, input |-> revenue, left |-> {a \in Agents : revenue[a] > 0}] \in Run
BY DEF TypeOK, Run

LEMMA InputsNat ==
  ASSUME TypeOK, NEW input \in [Agents -> {0} \cup UNION {Amounts(a) : a \in Agents}]
  PROVE  input \in [Agents -> Nat]
<1>1. ASSUME NEW a \in Agents
      PROVE  Amounts(a) \subseteq Nat
  <2>1. rows["incentive"][a] \in Seq(IncentiveRow)
    BY DEF TypeOK, Table, RowOf
  <2>2. \A i \in DOMAIN rows["incentive"][a] : rows["incentive"][a][i] \in IncentiveRow
    BY <2>1
  <2>3. QED
    BY <2>2 DEF Amounts, IncentiveRow
<1>2. {0} \cup UNION {Amounts(a) : a \in Agents} \subseteq Nat
  BY <1>1
<1>3. QED
  BY <1>2

LEMMA LeftSmaller ==
  ASSUME NEW run \in Run, NEW a
  PROVE  /\ [run EXCEPT !.left = @ \ {a}] \in Run
         /\ [run EXCEPT !.left = @ \ {a}].left = run.left \ {a}
BY DEF Run

\* The settings' own steps.
LEMMA SettingsType ==
  ASSUME TypeOK, NEW q \in Requests,
         EditSettings(q) \/ SaveSetting(q) \/ ForgetSetting(q)
  PROVE  TypeOK'
<1>0. ServerTyped(Step) /\ TablesOK /\ req[q] \in Step
  BY TypeParts DEF ServerTyped
<1> DEFINE Edit == [at: {"set", "forget"}, left: SUBSET Key, key: Key, new: [Key -> Value]]
<1>1. Edit \subseteq Step /\ Idle \in Step
  BY DEF Step
<1>2. ASSUME NEW r \in Edit, Start(q, r) \/ Go(q, r), UNCHANGED rows, TablesOK'
      PROVE  TypeOK'
  <2>1. ServerTyped(Step)'
    BY <1>0, <1>1, <1>2, StartTyped, GoTyped
  <2>2. req'[q] = r /\ \A p \in Requests : p # q => req'[p] = req[p]
    BY <1>2, Moves
  <2>3. HasRow(q)'
    BY <1>2, <2>2 DEF HasRow, Saving, At
  <2>4. QED
    BY <1>2, <2>1, <2>2, <2>3, TypesStay
<1>3. ASSUME Answer(q), UNCHANGED rows, TablesOK'
      PROVE  TypeOK'
  <2>1. ServerTyped(Step)'
    BY <1>0, <1>1, <1>3, AnswerTyped
  <2>2. req'[q] = Idle /\ \A p \in Requests : p # q => req'[p] = req[p]
    BY <1>3, Ends
  <2>3. HasRow(q)'
    BY <2>2 DEF HasRow, Saving, At, Idle
  <2>4. QED
    BY <1>3, <2>1, <2>2, <2>3, TypesStay
<1>4. CASE EditSettings(q)
  <2>1. PICK keys \in SUBSET Key \ {{}}, new \in [Key -> Value], k \in Key :
          Start(q, [at |-> "set", left |-> keys, key |-> k, new |-> new])
    BY <1>4 DEF EditSettings
  <2>2. TablesOK' /\ UNCHANGED rows
    BY <1>0, <1>4 DEF EditSettings, data, TablesOK
  <2>3. QED
    BY <1>2, <2>1, <2>2
<1>5. CASE SaveSetting(q)
  <2>1. req[q] \in Edit
    BY <1>0, <1>5, SettingsMemory DEF SaveSetting, At
  <2>2. [req[q] EXCEPT !.at = "forget"] \in Edit
    BY <2>1
  <2>3. TablesOK' /\ UNCHANGED rows
    BY <1>0, <1>5, <2>1 DEF SaveSetting, TablesOK
  <2>4. QED
    BY <1>2, <1>5, <2>2, <2>3 DEF SaveSetting
<1>6. CASE ForgetSetting(q)
  <2>1. req[q] \in Edit
    BY <1>0, <1>6, SettingsMemory DEF ForgetSetting, At
  <2>2. TablesOK' /\ UNCHANGED rows
    BY <1>0, <1>6, <2>1 DEF ForgetSetting, TablesOK
  <2> DEFINE left == req[q].left \ {req[q].key}
  <2>3. \A k \in left : [req[q] EXCEPT !.at = "set", !.left = left, !.key = k] \in Edit
    BY <2>1
  <2>4. \/ Answer(q)
        \/ \E k \in left : Go(q, [req[q] EXCEPT !.at = "set", !.left = left, !.key = k])
    BY <1>6 DEF ForgetSetting
  <2> HIDE DEF left
  <2>5. QED
    BY <1>2, <1>3, <2>2, <2>3, <2>4
<1>7. QED
  BY <1>4, <1>5, <1>6

\* A generation's steps up to its first save.
LEMMA GenerationType ==
  ASSUME TypeOK, NEW q \in Requests,
         \/ \E t \in Table : Generate(q, t)
         \/ FetchSetting(q) \/ FillCache(q) \/ LoadRevenue(q) \/ LoadIncentives(q)
         \/ FindNone(q) \/ FindRow(q)
  PROVE  TypeOK'
<1>0. ServerTyped(Step) /\ TablesOK /\ req[q] \in Step
  BY TypeParts DEF ServerTyped
<1>1. ASSUME NEW r \in Step, Start(q, r) \/ Go(q, r), UNCHANGED rows, TablesOK',
             r.at \in {"select", "update"} => r.i \in DOMAIN rows[r.t][r.a]
      PROVE  TypeOK'
  <2>1. ServerTyped(Step)'
    BY <1>0, <1>1, StartTyped, GoTyped
  <2>2. req'[q] = r /\ \A p \in Requests : p # q => req'[p] = req[p]
    BY <1>1, Moves
  <2>3. HasRow(q)'
    BY <1>1, <2>2 DEF HasRow, Saving, At
  <2>4. QED
    BY <1>1, <2>1, <2>2, <2>3, TypesStay
<1>2. ASSUME NEW t \in Table, NEW run \in Run, GoOn(q, t, run), UNCHANGED rows, TablesOK'
      PROVE  TypeOK'
  <2>1. req'[q] = Idle \/ req'[q] = [at |-> "find", t |-> t, run |-> run]
    BY <1>2, GoesTo
  <2>2. req'[q].at \in {"idle", "find"}
    BY <2>1 DEF Idle
  <2>3. HasRow(q)'
    BY <2>2 DEF HasRow, Saving, At
  <2>4. QED
    BY <1>2, <2>3, GoesTo, TypesStay
<1>3. UNCHANGED data => UNCHANGED rows /\ TablesOK'
  BY <1>0 DEF data, TablesOK
<1>4. ASSUME NEW t \in Table, Generate(q, t)
      PROVE  TypeOK'
  <2>1. cache[KeyOf[t]] \in Value \cup {None}
    BY <1>0 DEF TablesOK, KeyOf, Key, Table
  <2>2. /\ [at |-> "fetch", t |-> t] \in Step
        /\ cache[KeyOf[t]] # None => [at |-> "load", t |-> t, value |-> cache[KeyOf[t]]] \in Step
    BY <2>1 DEF Step
  <2>3. UNCHANGED data
    BY <1>4 DEF Generate
  <2>4. \/ Start(q, [at |-> "fetch", t |-> t])
        \/ /\ cache[KeyOf[t]] # None
           /\ Start(q, [at |-> "load", t |-> t, value |-> cache[KeyOf[t]]])
    BY <1>4 DEF Generate
  <2>5. QED
    BY <1>1, <1>3, <2>2, <2>3, <2>4
<1>5. CASE FetchSetting(q)
  <2>1. req[q].t \in Table
    BY <1>0, <1>5, SettingMemory DEF FetchSetting, At
  <2>2. settings[KeyOf[req[q].t]] \in Value
    BY <1>0, <2>1 DEF TablesOK, KeyOf, Key, Table
  <2>3. [at |-> "fill", t |-> req[q].t, value |-> settings[KeyOf[req[q].t]]] \in Step
    BY <2>1, <2>2 DEF Step
  <2>4. QED
    BY <1>1, <1>3, <1>5, <2>3 DEF FetchSetting
<1>6. CASE FillCache(q)
  <2>1. req[q] \in [at: {"fill", "load"}, t: Table, value: Value]
    BY <1>0, <1>6, SettingMemory DEF FillCache, At
  <2>2. [req[q] EXCEPT !.at = "load"] \in [at: {"fill", "load"}, t: Table, value: Value]
        /\ [req[q] EXCEPT !.at = "load"].at = "load"
    BY <2>1
  <2>3. [req[q] EXCEPT !.at = "load"] \in Step
    BY <2>2 DEF Step
  <2>4. TablesOK' /\ UNCHANGED rows
    BY <1>0, <1>6, <2>1 DEF FillCache, TablesOK, KeyOf, Key, Table
  <2>5. QED
    BY <1>1, <1>6, <2>2, <2>3, <2>4 DEF FillCache
<1>7. CASE LoadRevenue(q)
  <2>1. req[q].value \in Value
    BY <1>0, <1>7, SettingMemory DEF LoadRevenue, At
  <2>2. "incentive" \in Table
    BY DEF Table
  <2>3. QED
    BY <1>2, <1>3, <1>7, <2>1, <2>2, RunsOfIncentives DEF LoadRevenue
<1>8. CASE LoadIncentives(q)
  <2>1. req[q].value \in Value
    BY <1>0, <1>8, SettingMemory DEF LoadIncentives, At
  <2>2. PICK input \in [Agents -> {0} \cup UNION {Amounts(a) : a \in Agents}] :
          GoOn(q, "salary", [value |-> req[q].value, input |-> input, left |-> Agents])
    BY <1>8 DEF LoadIncentives
  <2>3. [value |-> req[q].value, input |-> input, left |-> Agents] \in Run
    BY <2>1, InputsNat DEF Run
  <2>4. "salary" \in Table
    BY DEF Table
  <2>5. QED
    BY <1>2, <1>3, <1>8, <2>2, <2>3, <2>4 DEF LoadIncentives
<1>9. ASSUME At(q, "find")
      PROVE  req[q].t \in Table /\ req[q].run \in Run /\ req[q].run.left \subseteq Agents
  BY <1>0, <1>9, FindMemory DEF At, Run
<1>10. CASE FindNone(q)
  <2>1. PICK a \in req[q].run.left : \E mem \in Computed(req[q].t, req[q].run, a, 0) :
          Go(q, [at |-> "insert", t |-> req[q].t, run |-> req[q].run, a |-> a, mem |-> mem])
    BY <1>10 DEF FindNone
  <2>2. PICK mem \in Computed(req[q].t, req[q].run, a, 0) :
          Go(q, [at |-> "insert", t |-> req[q].t, run |-> req[q].run, a |-> a, mem |-> mem])
    BY <2>1
  <2>3. mem \in RowOf(req[q].t) /\ a \in Agents
    BY <1>9, <1>10, ComputedRow DEF FindNone
  <2>4. [at |-> "insert", t |-> req[q].t, run |-> req[q].run, a |-> a, mem |-> mem]
          \in RowStep(req[q].t)
    BY <1>9, <1>10, <2>3 DEF FindNone, RowStep
  <2>5. QED
    BY <1>1, <1>3, <1>9, <1>10, <2>2, <2>4, RowSteps DEF FindNone
<1>11. CASE FindRow(q)
  <2> DEFINE t == req[q].t
             run == req[q].run
  <2>1. t \in Table /\ run \in Run /\ run.left \subseteq Agents
    BY <1>9, <1>11 DEF FindRow
  <2>2. PICK a, i :
          /\ a \in run.left /\ i \in DOMAIN rows[t][a]
          /\ IF Settled(rows[t][a][i]) THEN GoOn(q, t, [run EXCEPT !.left = @ \ {a}])
             ELSE \E mem \in Computed(t, run, a, OwnDeductions(t, rows[t][a][i])) :
                    Go(q, [at |-> "select", t |-> t, run |-> run, a |-> a, i |-> i,
                           mem |-> mem, dirty |-> {}])
    BY <1>11 DEF FindRow
  <2>3. rows[t][a][i] \in RowOf(t) /\ i \in Nat \ {0} /\ a \in Agents
    <3>1. a \in Agents /\ i \in DOMAIN rows[t][a]
      BY <2>1, <2>2
    <3>2. rows[t][a] \in Seq(RowOf(t))
      BY <1>0, <2>1, <3>1 DEF TablesOK
    <3>3. QED
      BY <3>1, <3>2
  <2>4. UNCHANGED data
    BY <1>11 DEF FindRow
  <2>5. CASE Settled(rows[t][a][i])
    BY <1>2, <1>3, <2>1, <2>2, <2>4, <2>5, LeftSmaller
  <2>6. CASE ~Settled(rows[t][a][i])
    <3>1. OwnDeductions(t, rows[t][a][i]) \in Nat
      BY <2>1, <2>3 DEF OwnDeductions, RowOf, SalaryRow
    <3>2. PICK mem \in Computed(t, run, a, OwnDeductions(t, rows[t][a][i])) :
            Go(q, [at |-> "select", t |-> t, run |-> run, a |-> a, i |-> i,
                   mem |-> mem, dirty |-> {}])
      BY <2>2, <2>6
    <3>3. mem \in RowOf(t)
      BY <2>1, <2>3, <3>1, ComputedRow
    <3> DEFINE r == [at |-> "select", t |-> t, run |-> run, a |-> a, i |-> i, mem |-> mem,
                     dirty |-> {}]
    <3>4. r \in RowStep(t) /\ r.t = t /\ r.a = a /\ r.i = i
      BY <2>1, <2>3, <3>3 DEF RowStep
    <3> HIDE DEF r
    <3>5. Go(q, r)
      BY <3>2 DEF r
    <3> HIDE DEF t, run
    <3>6. QED
      BY <1>1, <1>3, <2>1, <2>2, <2>4, <3>4, <3>5, RowSteps
  <2>7. QED
    BY <2>5, <2>6
<1>12. QED
  BY <1>4, <1>5, <1>6, <1>7, <1>8, <1>10, <1>11

\* A step that writes rows leaves every row where it is.
LEMMA TypesMove ==
  ASSUME TypeOK, NEW q \in Requests, ServerTyped(Step)', TablesOK',
         \A t \in Table, a \in Agents : DOMAIN rows[t][a] \subseteq DOMAIN rows'[t][a],
         \A p \in Requests : p # q => req'[p] = req[p],
         HasRow(q)'
  PROVE  TypeOK'
<1>1. \A p \in Requests : HasRow(p)'
  <2>1. ASSUME NEW p \in Requests, p # q, Saving(p)'
        PROVE  req'[p].i \in DOMAIN rows'[req'[p].t][req'[p].a]
    <3>1. HasRow(p) /\ req'[p] = req[p] /\ req[p] \in Step /\ Saving(p)
      BY <2>1, TypeParts DEF ServerTyped, Saving, At
    <3>2. req[p].t \in Table /\ req[p].a \in Agents
      BY <3>1, SaveMemory DEF Saving, At
    <3>3. QED
      BY <3>1, <3>2 DEF HasRow
  <2>2. QED
    BY <2>1 DEF HasRow
<1>2. QED
  BY <1>1 DEF TypeOK, TablesOK, ServerTyped, HasRow, Saving, At

\* What a request knows at a save.
LEMMA AtSave ==
  ASSUME TypeOK, NEW q \in Requests, Saving(q)
  PROVE  /\ req[q].t \in Table /\ req[q].a \in Agents /\ req[q].i \in Nat \ {0}
         /\ req[q].run \in Run \cup {None} /\ req[q].mem \in RowOf(req[q].t)
         /\ req[q].i \in DOMAIN rows[req[q].t][req[q].a]
         /\ RowAt(q) \in RowOf(req[q].t)
         /\ req[q] \in [at: {"select", "update"}, t: {req[q].t}, run: Run \cup {None},
                        a: Agents, i: Nat \ {0}, mem: RowOf(req[q].t),
                        dirty: SUBSET Column]
         /\ InFlight(q)
<1>1. req[q] \in Step /\ req[q].at \in {"select", "update"}
  BY DEF TypeOK, Saving, At
<1>2. /\ req[q].t \in Table /\ req[q].a \in Agents
      /\ req[q].i \in DOMAIN rows[req[q].t][req[q].a]
      /\ rows[req[q].t][req[q].a] \in Seq(RowOf(req[q].t))
  BY <1>1, SaveMemory DEF TypeOK
<1>3. RowAt(q) \in RowOf(req[q].t)
  BY <1>2 DEF RowAt
<1>4. QED
  BY <1>1, <1>2, <1>3, SaveMemory DEF InFlight

\* A save is over, and the agent is left behind.
LEMMA SavedEffect ==
  ASSUME TypeOK, NEW q \in Requests, Saving(q), Saved(q)
  PROVE  /\ ServerTyped(Step)' /\ UNCHANGED <<overlaps, deaths>>
         /\ \A p \in Requests : p # q => req'[p] = req[p]
         /\ req'[q].at \in {"idle", "find"}
         /\ \/ req'[q] = Idle
            \/ /\ req[q].run \in Run /\ req[q].run # None
               /\ req'[q] = [at |-> "find", t |-> req[q].t,
                             run |-> [req[q].run EXCEPT !.left = @ \ {req[q].a}]]
<1>0. ServerTyped(Step) /\ Idle \in Step
  BY TypeParts DEF Step
<1>1. CASE req[q].run = None
  <2>1. Answer(q)
    BY <1>1 DEF Saved
  <2>2. req'[q] = Idle /\ \A p \in Requests : p # q => req'[p] = req[p]
    BY <2>1, Ends
  <2>3. req'[q].at = "idle" /\ UNCHANGED <<overlaps, deaths>>
    BY <2>1, <2>2 DEF Idle, Answer, Go
  <2>4. ServerTyped(Step)'
    BY <1>0, <2>1, AnswerTyped
  <2>5. QED
    BY <2>2, <2>3, <2>4
<1>2. CASE req[q].run # None
  <2>1. req[q].run \in Run /\ req[q].t \in Table
    BY <1>2, AtSave
  <2>2. [req[q].run EXCEPT !.left = @ \ {req[q].a}] \in Run
    BY <2>1, LeftSmaller
  <2>3. GoOn(q, req[q].t, [req[q].run EXCEPT !.left = @ \ {req[q].a}])
    BY <1>2 DEF Saved
  <2> DEFINE run == [req[q].run EXCEPT !.left = @ \ {req[q].a}]
  <2> HIDE DEF run
  <2>4. run \in Run /\ GoOn(q, req[q].t, run)
    BY <2>2, <2>3 DEF run
  <2>5. /\ ServerTyped(Step)' /\ UNCHANGED <<overlaps, deaths>>
        /\ \A p \in Requests : p # q => req'[p] = req[p]
        /\ req'[q] = Idle \/ req'[q] = [at |-> "find", t |-> req[q].t, run |-> run]
    BY <2>1, <2>4, GoesTo
  <2>6. req'[q].at \in {"idle", "find"}
    BY <2>5 DEF Idle
  <2>7. QED
    BY <1>2, <2>1, <2>5, <2>6 DEF run
<1>3. QED
  BY <1>1, <1>2

LEMMA InsertEffect ==
  ASSUME TypeOK, NEW q \in Requests, InsertRow(q)
  PROVE  /\ req[q].t \in Table /\ req[q].a \in Agents /\ req[q].mem \in RowOf(req[q].t)
         /\ req[q].run \in Run /\ InFlight(q)
         /\ ServerTyped(Step)' /\ UNCHANGED <<overlaps, deaths>>
         /\ \A p \in Requests : p # q => req'[p] = req[p]
         /\ req'[q].at \in {"idle", "find"}
         /\ \/ req'[q] = Idle
            \/ req'[q] = [at |-> "find", t |-> req[q].t,
                          run |-> [req[q].run EXCEPT !.left = @ \ {req[q].a}]]
<1>1. req[q] \in Step /\ req[q].at = "insert"
  BY DEF TypeOK, InsertRow, At
<1>2. /\ req[q].t \in Table /\ req[q].a \in Agents /\ req[q].mem \in RowOf(req[q].t)
      /\ req[q].run \in Run
  BY <1>1, InsertMemory
<1>3. GoOn(q, req[q].t, [req[q].run EXCEPT !.left = @ \ {req[q].a}])
  BY DEF InsertRow
<1>4. [req[q].run EXCEPT !.left = @ \ {req[q].a}] \in Run
  BY <1>2, LeftSmaller
<1> DEFINE run == [req[q].run EXCEPT !.left = @ \ {req[q].a}]
<1> HIDE DEF run
<1>5. run \in Run /\ GoOn(q, req[q].t, run)
  BY <1>3, <1>4 DEF run
<1>6. /\ ServerTyped(Step)' /\ UNCHANGED <<overlaps, deaths>>
      /\ \A p \in Requests : p # q => req'[p] = req[p]
      /\ req'[q] = Idle \/ req'[q] = [at |-> "find", t |-> req[q].t, run |-> run]
  BY <1>2, <1>5, GoesTo
<1>7. InFlight(q) /\ req'[q].at \in {"idle", "find"}
  BY <1>1, <1>6 DEF InFlight, Idle
<1>8. QED
  BY <1>2, <1>6, <1>7 DEF run

\* The row an admin wants to be saved.
LEMMA DecidedRow ==
  ASSUME TypeOK, NEW q \in Requests, NEW a \in Agents,
         UpdateIncentive(q, a) \/ UpdateSalary(q, a)
  PROVE  \E t \in Table : \E i \in DOMAIN rows[t][a], mem \in RowOf(t) :
           /\ i \in Nat \ {0}
           /\ Start(q, [at |-> "select", t |-> t, run |-> None, a |-> a, i |-> i,
                        mem |-> mem, dirty |-> {}])
           /\ AddsUp(t, rows[t][a][i]) => AddsUp(t, mem)
<1>1. CASE UpdateIncentive(q, a)
  <2>1. PICK i \in DOMAIN rows["incentive"][a], status \in Decisions :
          Start(q, [at |-> "select", t |-> "incentive", run |-> None, a |-> a,
                    i |-> i, dirty |-> {},
                    mem |-> [rows["incentive"][a][i] EXCEPT !.status = status]])
    BY <1>1 DEF UpdateIncentive
  <2>2. rows["incentive"][a] \in Seq(IncentiveRow)
    BY DEF TypeOK, Table, RowOf
  <2>3. rows["incentive"][a][i] \in IncentiveRow /\ i \in Nat \ {0} /\ status \in Status
    BY <2>2, PayrollAssumption DEF PayrollAssumption, Status
  <2> DEFINE mem == [rows["incentive"][a][i] EXCEPT !.status = status]
  <2>4. /\ mem \in RowOf("incentive")
        /\ AddsUp("incentive", rows["incentive"][a][i]) => AddsUp("incentive", mem)
    BY <2>3 DEF RowOf, IncentiveRow, AddsUp
  <2>5. [at |-> "select", t |-> "incentive", run |-> None, a |-> a, i |-> i,
         dirty |-> {}, mem |-> mem]
          = [at |-> "select", t |-> "incentive", run |-> None, a |-> a, i |-> i,
             mem |-> mem, dirty |-> {}]
    OBVIOUS
  <2> HIDE DEF mem
  <2>6. Start(q, [at |-> "select", t |-> "incentive", run |-> None, a |-> a, i |-> i,
                  mem |-> mem, dirty |-> {}])
    BY <2>1, <2>5 DEF mem
  <2>7. QED
    BY <2>3, <2>4, <2>6 DEF Table
<1>2. CASE UpdateSalary(q, a)
  <2>1. PICK i \in DOMAIN rows["salary"][a] :
          \E d \in Deductions \cup {rows["salary"][a][i].deductions},
             status \in {"PENDING", rows["salary"][a][i].status} \cup (Decisions \ {"REJECTED"}) :
            Start(q, [at |-> "select", t |-> "salary", run |-> None, a |-> a, i |-> i,
                      mem |-> Corrected(rows["salary"][a][i], d, status), dirty |-> {}])
    BY <1>2 DEF UpdateSalary
  <2> DEFINE row == rows["salary"][a][i]
  <2>2. PICK d \in Deductions \cup {row.deductions},
             status \in {"PENDING", row.status} \cup (Decisions \ {"REJECTED"}) :
          Start(q, [at |-> "select", t |-> "salary", run |-> None, a |-> a, i |-> i,
                    mem |-> Corrected(row, d, status), dirty |-> {}])
    BY <2>1
  <2>3. rows["salary"][a] \in Seq(SalaryRow)
    BY DEF TypeOK, Table, RowOf
  <2>4. row \in SalaryRow /\ i \in Nat \ {0}
    BY <2>3
  <2> HIDE DEF row
  <2>5. d \in Nat /\ status \in Status
    BY <2>4, PayrollAssumption DEF PayrollAssumption, Status, SalaryRow
  <2>6. Corrected(row, d, status) \in RowOf("salary") /\ AddsUp("salary", Corrected(row, d, status))
    <3>1. row.fixed + row.incentive - d \in Int
      BY <2>4, <2>5 DEF SalaryRow
    <3>2. /\ Corrected(row, d, status) \in SalaryRow
          /\ Corrected(row, d, status).fixed = row.fixed
          /\ Corrected(row, d, status).incentive = row.incentive
          /\ Corrected(row, d, status).deductions = d
          /\ Corrected(row, d, status).net = row.fixed + row.incentive - d
      BY <2>4, <2>5, <3>1 DEF Corrected, SalaryRow
    <3>3. QED
      BY <3>2 DEF RowOf, AddsUp
  <2> DEFINE mem == Corrected(row, d, status)
  <2>7. mem \in RowOf("salary") /\ AddsUp("salary", mem)
    BY <2>6
  <2>8. Start(q, [at |-> "select", t |-> "salary", run |-> None, a |-> a, i |-> i,
                  mem |-> mem, dirty |-> {}])
    BY <2>2
  <2> HIDE DEF mem
  <2>9. "salary" \in Table
    BY DEF Table
  <2>10. QED
    BY <2>1, <2>4, <2>7, <2>8, <2>9
<1>3. QED
  BY <1>1, <1>2

\* The steps that save rows.
LEMMA RowsType ==
  ASSUME TypeOK, NEW q \in Requests,
         \/ InsertRow(q) \/ SelectRow(q) \/ UpdateRow(q)
         \/ \E a \in Agents : UpdateIncentive(q, a) \/ UpdateSalary(q, a)
  PROVE  TypeOK'
<1>0. ServerTyped(Step) /\ TablesOK /\ req[q] \in Step
  BY TypeParts DEF ServerTyped
<1>1. UNCHANGED data => UNCHANGED rows /\ TablesOK'
  BY <1>0 DEF data, TablesOK
<1>2. ASSUME req'[q].at \in {"idle", "find"}
      PROVE  HasRow(q)'
  BY <1>2 DEF HasRow, Saving, At
<1>3. CASE InsertRow(q)
  <2>1. rows' = [rows EXCEPT ![req[q].t][req[q].a] = Append(@, req[q].mem)]
        /\ UNCHANGED <<settings, cache, revenue, undone>>
    BY <1>3 DEF InsertRow
  <2>2. /\ rows' \in [Table -> [Agents -> Seq(IncentiveRow \cup SalaryRow)]]
        /\ \A t \in Table, a \in Agents :
             rows'[t][a] \in Seq(RowOf(t)) /\ DOMAIN rows[t][a] \subseteq DOMAIN rows'[t][a]
    BY <1>3, <2>1, InsertEffect, RowAdded
  <2>3. TablesOK'
    BY <1>0, <2>1, <2>2 DEF TablesOK
  <2>4. req'[q].at \in {"idle", "find"}
    BY <1>3, InsertEffect
  <2>5. QED
    BY <1>2, <1>3, <2>2, <2>3, <2>4, InsertEffect, TypesMove
<1>4. CASE SelectRow(q)
  <2>1. Saving(q)
    BY <1>4 DEF SelectRow, Saving
  <2>2. UNCHANGED rows /\ TablesOK'
    BY <1>1, <1>4 DEF SelectRow
  <2> DEFINE diff == {c \in DOMAIN req[q].mem : req[q].mem[c] # RowAt(q)[c]}
             r    == [req[q] EXCEPT !.at = "update", !.dirty = diff]
  <2>3. IF diff = {} THEN Saved(q) ELSE Go(q, r)
    BY <1>4 DEF SelectRow, RowAt
  <2>4. diff \subseteq Column
    BY <2>1, AtSave DEF RowOf, IncentiveRow, SalaryRow, Column, Table
  <2>5. r \in RowStep(req[q].t) /\ r.t = req[q].t /\ r.a = req[q].a /\ r.i = req[q].i
    BY <2>1, <2>4, AtSave DEF RowStep
  <2>6. r \in Step
    BY <2>1, <2>5, AtSave, RowSteps
  <2>7. CASE Saved(q)
    <3>1. req'[q].at \in {"idle", "find"}
      BY <2>1, <2>7, SavedEffect
    <3>2. QED
      BY <1>2, <2>1, <2>2, <2>7, <3>1, SavedEffect, TypesStay
  <2> HIDE DEF r
  <2>8. CASE Go(q, r)
    <3>1. req'[q] = r /\ \A p \in Requests : p # q => req'[p] = req[p]
      BY <2>8, Moves
    <3>2. HasRow(q)'
      BY <2>1, <2>2, <2>5, <3>1, AtSave DEF HasRow
    <3>3. ServerTyped(Step)'
      BY <1>0, <2>6, <2>8, GoTyped
    <3>4. QED
      BY <2>2, <3>1, <3>2, <3>3, TypesStay
  <2>9. QED
    BY <2>3, <2>7, <2>8
<1>5. CASE UpdateRow(q)
  <2>1. Saving(q)
    BY <1>5 DEF UpdateRow, Saving
  <2> DEFINE new == Overwrite(RowAt(q), req[q].mem, req[q].dirty)
  <2>2. /\ rows' = [rows EXCEPT ![req[q].t][req[q].a][req[q].i] = new]
        /\ undone' \in {undone, undone \cup {Target(q)}}
        /\ Saved(q) /\ UNCHANGED <<settings, cache, revenue>>
    BY <1>5 DEF UpdateRow, RowAt, Target
  <2>3. new \in RowOf(req[q].t)
    BY <2>1, AtSave, OverwriteType
  <2> HIDE DEF new
  <2>4. /\ rows' \in [Table -> [Agents -> Seq(IncentiveRow \cup SalaryRow)]]
        /\ \A t \in Table, a \in Agents :
             rows'[t][a] \in Seq(RowOf(t)) /\ DOMAIN rows'[t][a] = DOMAIN rows[t][a]
    BY <2>1, <2>2, <2>3, AtSave, RowChanged
  <2>5. Target(q) \in Table \X Agents \X (Nat \ {0})
    BY <2>1, AtSave DEF Target
  <2>6. TablesOK'
    BY <1>0, <2>2, <2>4, <2>5 DEF TablesOK
  <2>7. req'[q].at \in {"idle", "find"}
    BY <2>1, <2>2, SavedEffect
  <2>8. QED
    BY <1>2, <2>1, <2>2, <2>4, <2>6, <2>7, SavedEffect, TypesMove
<1>6. ASSUME NEW a \in Agents, UpdateIncentive(q, a) \/ UpdateSalary(q, a)
      PROVE  TypeOK'
  <2>1. UNCHANGED rows /\ TablesOK'
    BY <1>1, <1>6 DEF UpdateIncentive, UpdateSalary
  <2>2. PICK t, i, mem :
          /\ t \in Table /\ i \in DOMAIN rows[t][a] /\ mem \in RowOf(t) /\ i \in Nat \ {0}
          /\ Start(q, [at |-> "select", t |-> t, run |-> None, a |-> a, i |-> i,
                       mem |-> mem, dirty |-> {}])
    BY <1>6, DecidedRow
  <2> DEFINE r == [at |-> "select", t |-> t, run |-> None, a |-> a, i |-> i,
                   mem |-> mem, dirty |-> {}]
  <2>3. r \in RowStep(t) /\ r.t = t /\ r.a = a /\ r.i = i
    BY <2>2 DEF RowStep
  <2>4. r \in Step /\ Start(q, r)
    BY <2>2, <2>3, RowSteps
  <2> HIDE DEF r
  <2>5. req'[q] = r /\ \A p \in Requests : p # q => req'[p] = req[p]
    BY <2>4, Moves
  <2>6. HasRow(q)'
    BY <2>1, <2>2, <2>3, <2>5 DEF HasRow
  <2>7. ServerTyped(Step)'
    BY <1>0, <2>4, StartTyped
  <2>8. QED
    BY <2>1, <2>5, <2>6, <2>7, TypesStay
<1>7. QED
  BY <1>3, <1>4, <1>5, <1>6

\* A request that dies, and what happens without a request.
LEMMA OutsideType ==
  ASSUME TypeOK,
         \/ \E q \in Requests : Crash(q)
         \/ \E a \in Agents : Earn(a)
         \/ \E k \in Key : Expire(k)
         \/ UNCHANGED vars
  PROVE  TypeOK'
<1>0. ServerTyped(Step) /\ TablesOK
  BY TypeParts
<1>1. ASSUME NEW q \in Requests, Crash(q)
      PROVE  TypeOK'
  <2>1. UNCHANGED rows /\ TablesOK' /\ Die(q)
    BY <1>0, <1>1 DEF Crash, data, TablesOK
  <2>2. req'[q] = Idle /\ \A p \in Requests : p # q => req'[p] = req[p]
    BY <2>1, Ends
  <2>3. ServerTyped(Step)'
    BY <1>0, <2>1, DieTyped DEF Step
  <2>4. HasRow(q)'
    BY <2>2 DEF HasRow, Saving, At, Idle
  <2>5. QED
    BY <2>1, <2>2, <2>3, <2>4, TypesStay
<1>2. ASSUME NEW a \in Agents, Earn(a)
      PROVE  TypeOK'
  <2>1. PICK x \in Earnings : revenue' = [revenue EXCEPT ![a] = @ + x]
    BY <1>2 DEF Earn
  <2>2. x \in Nat /\ revenue[a] \in Nat
    BY <1>0, PayrollAssumption DEF PayrollAssumption, TablesOK
  <2>3. revenue' \in [Agents -> Nat]
    BY <1>0, <2>1, <2>2 DEF TablesOK
  <2>4. QED
    BY <1>2, <2>3 DEF Earn, TypeOK, server
<1>3. ASSUME NEW k \in Key, Expire(k)
      PROVE  TypeOK'
  BY <1>3 DEF Expire, TypeOK, server
<1>4. CASE UNCHANGED vars
  BY <1>4 DEF vars, server, TypeOK
<1>5. QED
  BY <1>1, <1>2, <1>3, <1>4

LEMMA StartsTyped == Init => TypeOK
<1>1. Idle \in Step
  BY DEF Step
<1>2. QED
  BY <1>1 DEF Init, ServerInit, TypeOK, Idle

\* Every step, by what its request is at.
LEMMA EveryStep ==
  ASSUME [Next]_vars
  PROVE  \/ \E q \in Requests : EditSettings(q) \/ SaveSetting(q) \/ ForgetSetting(q)
         \/ \E q \in Requests :
              \/ \E t \in Table : Generate(q, t)
              \/ FetchSetting(q) \/ FillCache(q) \/ LoadRevenue(q) \/ LoadIncentives(q)
              \/ FindNone(q) \/ FindRow(q)
         \/ \E q \in Requests :
              \/ InsertRow(q) \/ SelectRow(q) \/ UpdateRow(q)
              \/ \E a \in Agents : UpdateIncentive(q, a) \/ UpdateSalary(q, a)
         \/ \E q \in Requests : Crash(q)
         \/ \E a \in Agents : Earn(a)
         \/ \E k \in Key : Expire(k)
         \/ UNCHANGED vars
BY DEF Next, SettingsRoutes, EarningsRoutes, Statement

LEMMA TypesKept == TypeOK /\ [Next]_vars => TypeOK'
<1> SUFFICES ASSUME TypeOK, [Next]_vars PROVE TypeOK'
  OBVIOUS
<1> QED
  BY EveryStep, SettingsType, GenerationType, RowsType, OutsideType

\* Every reachable state of the payroll has the types of TypeOK; no save has
\* lost the row it is about to write.
THEOREM PayrollTypeCorrect == Spec => []TypeOK
<1>1. QED
  BY StartsTyped, TypesKept, PTL DEF Spec

-----------------------------------------------------------------------------
(* The steps, by what they do to the rows and to who may save them.        *)

Others(q) == \A p \in Requests : p # q => req'[p] = req[p]
Proceeds(q) == InFlight(q) /\ Others(q) /\ UNCHANGED overlaps

\* Every step is one request's, which starts or goes on, or nobody's.
LEMMA OneMoves ==
  ASSUME TypeOK, [Next]_vars
  PROVE  \/ UNCHANGED server
         \/ \E q \in Requests : Others(q) /\ \E r : Start(q, r)
         \/ \E q \in Requests : Proceeds(q)
<1>1. ASSUME NEW q \in Requests, NEW r, Start(q, r)
      PROVE  Others(q) /\ \E s : Start(q, s)
  BY <1>1, Moves DEF Others
<1>2. ASSUME NEW q \in Requests, NEW r, InFlight(q), Go(q, r)
      PROVE  Proceeds(q)
  BY <1>2, Moves DEF Others, Proceeds, Go
<1>3. ASSUME NEW q \in Requests, InFlight(q), Answer(q)
      PROVE  Proceeds(q)
  BY <1>2, <1>3 DEF Answer
<1>4. ASSUME NEW q \in Requests, NEW t, NEW run, InFlight(q), GoOn(q, t, run)
      PROVE  Proceeds(q)
  BY <1>2, <1>3, <1>4 DEF GoOn
<1>5. ASSUME NEW q \in Requests, EditSettings(q) \/ SaveSetting(q) \/ ForgetSetting(q)
      PROVE  (Others(q) /\ \E r : Start(q, r)) \/ Proceeds(q)
  BY <1>1, <1>2, <1>3, <1>5 DEF EditSettings, SaveSetting, ForgetSetting, At, InFlight
<1>6. ASSUME NEW q \in Requests, NEW t \in Table, Generate(q, t)
      PROVE  Others(q) /\ \E r : Start(q, r)
  BY <1>1, <1>6 DEF Generate
<1>7. ASSUME NEW q \in Requests, FetchSetting(q) \/ FillCache(q) \/ FindNone(q)
      PROVE  Proceeds(q)
  BY <1>2, <1>7 DEF FetchSetting, FillCache, FindNone, At, InFlight
<1>8. ASSUME NEW q \in Requests, LoadRevenue(q) \/ LoadIncentives(q)
      PROVE  Proceeds(q)
  BY <1>4, <1>8 DEF LoadRevenue, LoadIncentives, At, InFlight
<1>9. ASSUME NEW q \in Requests, FindRow(q)
      PROVE  Proceeds(q)
  BY <1>2, <1>4, <1>9 DEF FindRow, At, InFlight
<1>10. ASSUME NEW q \in Requests, InsertRow(q)
       PROVE  Proceeds(q)
  BY <1>4, <1>10 DEF InsertRow, At, InFlight
<1>11. ASSUME NEW q \in Requests, InFlight(q), Saved(q)
       PROVE  Proceeds(q)
  BY <1>3, <1>4, <1>11 DEF Saved
<1>12. ASSUME NEW q \in Requests, SelectRow(q) \/ UpdateRow(q)
       PROVE  Proceeds(q)
  BY <1>2, <1>11, <1>12 DEF SelectRow, UpdateRow, At, InFlight
<1>13. ASSUME NEW q \in Requests, NEW a \in Agents, UpdateIncentive(q, a) \/ UpdateSalary(q, a)
       PROVE  Others(q) /\ \E r : Start(q, r)
  BY <1>1, <1>13 DEF UpdateIncentive, UpdateSalary
<1>14. ASSUME NEW q \in Requests, Crash(q)
       PROVE  Proceeds(q)
  BY <1>14, Ends DEF Crash, Die, Others, Proceeds
<1>15. CASE \E a \in Agents : Earn(a)
  BY <1>15 DEF Earn
<1>16. CASE \E k \in Key : Expire(k)
  BY <1>16 DEF Expire
<1>17. CASE UNCHANGED vars
  BY <1>17 DEF vars
<1>18. QED
  BY EveryStep, <1>5, <1>6, <1>7, <1>8, <1>9, <1>10, <1>12, <1>13, <1>14, <1>15, <1>16, <1>17

LEMMA BusyStarts == Init => BusyInv
<1> SUFFICES ASSUME Init PROVE BusyInv
  OBVIOUS
<1>1. Busy = {} /\ overlaps = 0
  BY DEF Init, ServerInit, Idle, Busy, InFlight
<1>2. QED
  BY <1>1, FS_EmptySet DEF BusyInv

LEMMA BusyKept == TypeOK /\ BusyInv /\ [Next]_vars => BusyInv' /\ overlaps' >= overlaps
<1> SUFFICES ASSUME TypeOK, BusyInv, [Next]_vars PROVE BusyInv' /\ overlaps' >= overlaps
  OBVIOUS
<1>1. ServerTyped(Step) /\ overlaps \in Nat
  BY DEF TypeOK, ServerTyped
<1>2. CASE UNCHANGED server
  BY <1>1, <1>2 DEF server, BusyInv, Busy, InFlight
<1>3. ASSUME NEW q \in Requests, NEW r, Start(q, r)
      PROVE  BusyInv' /\ overlaps' >= overlaps
  BY <1>1, <1>3, StartBusy
<1>4. ASSUME NEW q \in Requests, Proceeds(q)
      PROVE  BusyInv' /\ overlaps' >= overlaps
  BY <1>1, <1>4, StepBusy DEF Proceeds, Others
<1>5. QED
  BY <1>2, <1>3, <1>4, OneMoves

Same == UNCHANGED <<rows, undone>>

\* Request q is answered, dies or edits settings.
Withdraws(q) == Others(q) /\ Same /\ req'[q].at \in {"idle", "set", "forget"}

\* It is a generation that begins, that comes nearer to a row, ...
Begins(q) ==
  /\ Others(q) /\ Same /\ \E r : Start(q, r)
  /\ req'[q].at \in {"fetch", "load"} /\ req'[q].t \in Table

Nears(q) ==
  /\ Others(q) /\ Same /\ UNCHANGED overlaps
  /\ req[q].at \in {"fetch", "fill", "load", "find"}
  /\ req'[q].at \in {"fill", "load", "find"} /\ req'[q].t = req[q].t
  /\ req[q].at = "find" => req'[q].at = "find" /\ req'[q].run.left \subseteq req[q].run.left

\* ... that finds no row, or one, or none that differs from its own.
Reaches(q) ==
  /\ Others(q) /\ Same /\ UNCHANGED overlaps
  /\ At(q, "find") /\ req[q].t \in Table /\ req[q].run \in Run
  /\ req'[q].t = req[q].t /\ req'[q].run = req[q].run
  /\ req'[q].a \in req[q].run.left /\ req'[q].a \in Agents
  /\ AddsUp(req'[q].t, req'[q].mem)

Misses(q) ==
  /\ Reaches(q) /\ req'[q].at = "insert"
  /\ rows[req'[q].t][req'[q].a] = <<>>

Finds(q) ==
  /\ Reaches(q) /\ req'[q].at = "select"
  /\ req'[q].i \in DOMAIN rows[req'[q].t][req'[q].a]
  /\ LET row == rows[req'[q].t][req'[q].a][req'[q].i]
     IN  /\ ~Settled(row)
         /\ req'[q].t = "salary" => req'[q].mem.deductions = row.deductions
  /\ req'[q].mem.status = "PENDING"

Compares(q) ==
  /\ Others(q) /\ Same /\ UNCHANGED overlaps /\ At(q, "select")
  /\ req'[q] = [req[q] EXCEPT !.at = "update",
       !.dirty = {c \in DOMAIN req[q].mem : req[q].mem[c] # RowAt(q)[c]}]

Leaves(q) ==
  /\ Others(q) /\ UNCHANGED overlaps /\ (Saving(q) \/ At(q, "insert"))
  /\ \/ req'[q].at = "idle"
     \/ /\ req[q].run \in Run /\ req[q].run # None
        /\ req'[q].at = "find" /\ req'[q].t = req[q].t
        /\ req'[q].run.left = req[q].run.left \ {req[q].a}

\* It is an admin who decides about a row.
Decides(q) ==
  /\ Others(q) /\ Same /\ \E r : Start(q, r)
  /\ req'[q].at = "select" /\ req'[q].run = None
  /\ req'[q].t \in Table /\ req'[q].a \in Agents
  /\ req'[q].i \in DOMAIN rows[req'[q].t][req'[q].a]
  /\ \/ ~AddsUp(req'[q].t, rows[req'[q].t][req'[q].a][req'[q].i])
     \/ AddsUp(req'[q].t, req'[q].mem)

LEMMA SettingsShape ==
  ASSUME TypeOK, NEW q \in Requests,
         EditSettings(q) \/ SaveSetting(q) \/ ForgetSetting(q)
  PROVE  Withdraws(q)
<1>1. ASSUME NEW r, Start(q, r) \/ Go(q, r), Same, r.at \in {"set", "forget"}
      PROVE  Withdraws(q)
  BY <1>1, Moves DEF Withdraws, Others
<1>2. ASSUME Answer(q), Same
      PROVE  Withdraws(q)
  BY <1>2, Ends DEF Withdraws, Others, Idle
<1>3. req[q] \in Step
  BY DEF TypeOK
<1>4. CASE EditSettings(q)
  BY <1>1, <1>4 DEF EditSettings, data, Same
<1>5. CASE SaveSetting(q)
  <2>1. [req[q] EXCEPT !.at = "forget"].at = "forget"
    BY <1>3, <1>5, SettingsMemory DEF SaveSetting, At
  <2>2. QED
    BY <1>1, <1>5, <2>1 DEF SaveSetting, Same
<1>6. CASE ForgetSetting(q)
  <2> DEFINE left == req[q].left \ {req[q].key}
  <2>1. \A k \in left : [req[q] EXCEPT !.at = "set", !.left = left, !.key = k].at = "set"
    BY <1>3, <1>6, SettingsMemory DEF ForgetSetting, At
  <2>2. \/ Answer(q)
        \/ \E k \in left : Go(q, [req[q] EXCEPT !.at = "set", !.left = left, !.key = k])
    BY <1>6 DEF ForgetSetting
  <2>3. Same
    BY <1>6 DEF ForgetSetting, Same
  <2> HIDE DEF left
  <2>4. QED
    BY <1>1, <1>2, <2>1, <2>2, <2>3
<1>7. QED
  BY <1>4, <1>5, <1>6

LEMMA GenerationShape ==
  ASSUME TypeOK, NEW q \in Requests,
         \/ \E t \in Table : Generate(q, t)
         \/ FetchSetting(q) \/ FillCache(q) \/ LoadRevenue(q) \/ LoadIncentives(q)
         \/ FindNone(q) \/ FindRow(q)
  PROVE  Withdraws(q) \/ Begins(q) \/ Nears(q) \/ Misses(q) \/ Finds(q)
<1>0. req[q] \in Step /\ (UNCHANGED data => Same)
  BY DEF TypeOK, data, Same
<1>1. ASSUME NEW t \in Table, Generate(q, t)
      PROVE  Begins(q)
  <2>1. PICK r : Start(q, r) /\ r.at \in {"fetch", "load"} /\ r.t = t
    BY <1>1 DEF Generate
  <2>2. req'[q] = r /\ Others(q) /\ Same
    BY <1>0, <1>1, <2>1, Moves DEF Others, Generate
  <2>3. QED
    BY <2>1, <2>2 DEF Begins
<1>2. CASE FetchSetting(q)
  <2> DEFINE r == [at |-> "fill", t |-> req[q].t, value |-> settings[KeyOf[req[q].t]]]
  <2>1. r.at = "fill" /\ r.t = req[q].t /\ Go(q, r) /\ req[q].at = "fetch"
    BY <1>2 DEF FetchSetting, At
  <2> HIDE DEF r
  <2>2. req'[q] = r /\ Others(q) /\ Same /\ UNCHANGED overlaps
    BY <1>0, <1>2, <2>1, Moves DEF Others, FetchSetting, Go
  <2>3. QED
    BY <2>1, <2>2 DEF Nears
<1>3. CASE FillCache(q)
  <2> DEFINE r == [req[q] EXCEPT !.at = "load"]
  <2>1. req[q].at = "fill" /\ Go(q, r)
    BY <1>3 DEF FillCache, At
  <2>2. r.at = "load" /\ r.t = req[q].t
    BY <1>0, <2>1, SettingMemory
  <2> HIDE DEF r
  <2>3. req'[q] = r /\ Others(q) /\ Same /\ UNCHANGED overlaps
    BY <1>3, <2>1, Moves DEF Others, FillCache, Go, Same
  <2>4. QED
    BY <2>1, <2>2, <2>3 DEF Nears
<1>4. ASSUME NEW run \in Run, GoOn(q, req[q].t, run), req[q].t \in Table, Same,
             \/ req[q].at = "load"
             \/ req[q].at = "find" /\ run.left \subseteq req[q].run.left
      PROVE  Withdraws(q) \/ Nears(q)
  <2>1. Others(q) /\ UNCHANGED overlaps
        /\ (req'[q] = Idle \/ req'[q] = [at |-> "find", t |-> req[q].t, run |-> run])
    BY <1>4, GoesTo DEF Others
  <2>2. CASE req'[q] = Idle
    BY <1>4, <2>1, <2>2 DEF Withdraws, Idle
  <2>3. CASE req'[q] = [at |-> "find", t |-> req[q].t, run |-> run]
    BY <1>4, <2>1, <2>3 DEF Nears
  <2>4. QED
    BY <2>1, <2>2, <2>3
<1>5. CASE LoadRevenue(q)
  <2>1. req[q].value \in Value /\ req[q].at = "load" /\ req[q].t = "incentive"
    BY <1>0, <1>5, SettingMemory DEF LoadRevenue, At
  <2>2. "incentive" \in Table
    BY DEF Table
  <2>3. QED
    BY <1>0, <1>4, <1>5, <2>1, <2>2, RunsOfIncentives DEF LoadRevenue
<1>6. CASE LoadIncentives(q)
  <2>1. req[q].value \in Value /\ req[q].at = "load" /\ req[q].t = "salary"
    BY <1>0, <1>6, SettingMemory DEF LoadIncentives, At
  <2>2. PICK input \in [Agents -> {0} \cup UNION {Amounts(a) : a \in Agents}] :
          GoOn(q, "salary", [value |-> req[q].value, input |-> input, left |-> Agents])
    BY <1>6 DEF LoadIncentives
  <2>3. [value |-> req[q].value, input |-> input, left |-> Agents] \in Run
    BY <2>1, InputsNat DEF Run
  <2>4. "salary" \in Table
    BY DEF Table
  <2>5. QED
    BY <1>0, <1>4, <1>6, <2>1, <2>2, <2>3, <2>4 DEF LoadIncentives
<1>9. ASSUME At(q, "find")
      PROVE  req[q].t \in Table /\ req[q].run \in Run /\ req[q].run.left \subseteq Agents
             /\ req[q].at = "find"
  BY <1>0, <1>9, FindMemory DEF At, Run
<1>10. CASE FindNone(q)
  <2>0. At(q, "find") /\ Same
    BY <1>0, <1>10 DEF FindNone
  <2>1. PICK a, mem :
          /\ a \in req[q].run.left /\ rows[req[q].t][a] = <<>>
          /\ mem \in Computed(req[q].t, req[q].run, a, 0)
          /\ Go(q, [at |-> "insert", t |-> req[q].t, run |-> req[q].run, a |-> a, mem |-> mem])
    BY <1>10 DEF FindNone
  <2>2. AddsUp(req[q].t, mem) /\ a \in Agents
    BY <1>9, <2>0, <2>1, ComputedRow
  <2> DEFINE r == [at |-> "insert", t |-> req[q].t, run |-> req[q].run, a |-> a, mem |-> mem]
  <2>3. r.at = "insert" /\ r.t = req[q].t /\ r.run = req[q].run /\ r.a = a /\ r.mem = mem
        /\ Go(q, r)
    BY <2>1
  <2> HIDE DEF r
  <2>4. req'[q] = r /\ Others(q) /\ UNCHANGED overlaps
    BY <2>3, Moves DEF Others, Go
  <2>5. QED
    BY <1>9, <2>0, <2>1, <2>2, <2>3, <2>4 DEF Misses, Reaches
<1>11. CASE FindRow(q)
  <2> DEFINE t == req[q].t
             run == req[q].run
  <2>1. t \in Table /\ run \in Run /\ run.left \subseteq Agents /\ At(q, "find")
        /\ req[q].at = "find" /\ Same
    BY <1>0, <1>9, <1>11 DEF FindRow
  <2>2. PICK a, i :
          /\ a \in run.left /\ i \in DOMAIN rows[t][a]
          /\ IF Settled(rows[t][a][i]) THEN GoOn(q, t, [run EXCEPT !.left = @ \ {a}])
             ELSE \E mem \in Computed(t, run, a, OwnDeductions(t, rows[t][a][i])) :
                    Go(q, [at |-> "select", t |-> t, run |-> run, a |-> a, i |-> i,
                           mem |-> mem, dirty |-> {}])
    BY <1>11 DEF FindRow
  <2>3. rows[t][a][i] \in RowOf(t) /\ a \in Agents
    <3>1. a \in Agents /\ i \in DOMAIN rows[t][a]
      BY <2>1, <2>2
    <3>2. rows[t][a] \in Seq(RowOf(t))
      BY <2>1, <3>1 DEF TypeOK
    <3>3. QED
      BY <3>1, <3>2
  <2>4. CASE Settled(rows[t][a][i])
    <3>1. [run EXCEPT !.left = @ \ {a}] \in Run
          /\ [run EXCEPT !.left = @ \ {a}].left \subseteq run.left
      BY <2>1, LeftSmaller
    <3>2. QED
      BY <1>4, <2>1, <2>2, <2>4, <3>1
  <2>5. CASE ~Settled(rows[t][a][i])
    <3>1. OwnDeductions(t, rows[t][a][i]) \in Nat
      BY <2>1, <2>3 DEF OwnDeductions, RowOf, SalaryRow
    <3>2. PICK mem \in Computed(t, run, a, OwnDeductions(t, rows[t][a][i])) :
            Go(q, [at |-> "select", t |-> t, run |-> run, a |-> a, i |-> i,
                   mem |-> mem, dirty |-> {}])
      BY <2>2, <2>5
    <3>3. /\ AddsUp(t, mem) /\ mem.status = "PENDING"
          /\ t = "salary" => mem.deductions = OwnDeductions(t, rows[t][a][i])
      BY <2>1, <2>3, <3>1, ComputedRow
    <3>4. t = "salary" => mem.deductions = rows[t][a][i].deductions
      BY <3>3 DEF OwnDeductions
    <3> DEFINE r == [at |-> "select", t |-> t, run |-> run, a |-> a, i |-> i, mem |-> mem,
                     dirty |-> {}]
    <3>5. r.at = "select" /\ r.t = t /\ r.run = run /\ r.a = a /\ r.i = i /\ r.mem = mem
          /\ Go(q, r)
      BY <3>2
    <3> HIDE DEF r
    <3>6. req'[q] = r /\ Others(q) /\ UNCHANGED overlaps
      BY <3>5, Moves DEF Others, Go
    <3>7. Reaches(q)
      BY <2>1, <2>2, <2>3, <3>3, <3>5, <3>6 DEF Reaches
    <3>8. QED
      BY <2>2, <2>5, <3>3, <3>4, <3>5, <3>6, <3>7 DEF Finds
  <2>6. QED
    BY <2>4, <2>5
<1>12. QED
  BY <1>1, <1>2, <1>3, <1>5, <1>6, <1>10, <1>11

LEMMA SavedShape ==
  ASSUME TypeOK, NEW q \in Requests, Saving(q), Saved(q)
  PROVE  Leaves(q)
<1>1. /\ Others(q) /\ UNCHANGED overlaps
      /\ \/ req'[q] = Idle
         \/ /\ req[q].run \in Run /\ req[q].run # None
            /\ req'[q] = [at |-> "find", t |-> req[q].t,
                          run |-> [req[q].run EXCEPT !.left = @ \ {req[q].a}]]
  BY SavedEffect DEF Others
<1>2. CASE req'[q] = Idle
  BY <1>1, <1>2 DEF Leaves, Idle
<1>3. CASE req'[q] # Idle
  <2> DEFINE run == [req[q].run EXCEPT !.left = @ \ {req[q].a}]
  <2>1. run.left = req[q].run.left \ {req[q].a}
    BY <1>1, <1>3, LeftSmaller
  <2>2. req'[q] = [at |-> "find", t |-> req[q].t, run |-> run]
    BY <1>1, <1>3
  <2> HIDE DEF run
  <2>3. QED
    BY <1>1, <1>3, <2>1, <2>2 DEF Leaves
<1>4. QED
  BY <1>2, <1>3

LEMMA InsertShape ==
  ASSUME TypeOK, NEW q \in Requests, InsertRow(q)
  PROVE  Leaves(q)
<1>1. /\ Others(q) /\ UNCHANGED overlaps /\ req[q].run \in Run /\ At(q, "insert")
      /\ \/ req'[q] = Idle
         \/ req'[q] = [at |-> "find", t |-> req[q].t,
                       run |-> [req[q].run EXCEPT !.left = @ \ {req[q].a}]]
  BY InsertEffect DEF Others, InsertRow
<1>2. CASE req'[q] = Idle
  BY <1>1, <1>2 DEF Leaves, Idle
<1>3. CASE req'[q] # Idle
  <2> DEFINE run == [req[q].run EXCEPT !.left = @ \ {req[q].a}]
  <2>1. run.left = req[q].run.left \ {req[q].a}
    BY <1>1, LeftSmaller
  <2>2. req'[q] = [at |-> "find", t |-> req[q].t, run |-> run]
    BY <1>1, <1>3
  <2>3. req[q].run # None
    BY <1>1, RunAssumption DEF RunAssumption
  <2> HIDE DEF run
  <2>4. QED
    BY <1>1, <2>1, <2>2, <2>3 DEF Leaves
<1>4. QED
  BY <1>2, <1>3

LEMMA SelectShape ==
  ASSUME TypeOK, NEW q \in Requests, SelectRow(q)
  PROVE  (Leaves(q) /\ Same /\ Saving(q)) \/ Compares(q)
<1>1. Saving(q) /\ Same /\ At(q, "select")
  BY DEF SelectRow, Saving, data, Same
<1> DEFINE diff == {c \in DOMAIN req[q].mem : req[q].mem[c] # RowAt(q)[c]}
           r    == [req[q] EXCEPT !.at = "update", !.dirty = diff]
<1>2. Saved(q) \/ Go(q, r)
  BY DEF SelectRow, RowAt
<1>3. ASSUME Go(q, r)
      PROVE  Compares(q)
  <2>1. req'[q] = r /\ Others(q) /\ UNCHANGED overlaps
    <3> HIDE DEF r
    <3>1. QED
      BY <1>3, Moves DEF Others, Go
  <2>2. QED
    BY <1>1, <2>1 DEF Compares
<1>4. QED
  BY <1>1, <1>2, <1>3, SavedShape

LEMMA UpdateShape ==
  ASSUME TypeOK, NEW q \in Requests, UpdateRow(q)
  PROVE  Leaves(q) /\ Saving(q) /\ At(q, "update")
BY SavedShape DEF UpdateRow, Saving

LEMMA DecideShape ==
  ASSUME TypeOK, NEW q \in Requests, NEW a \in Agents,
         UpdateIncentive(q, a) \/ UpdateSalary(q, a)
  PROVE  Decides(q)
<1>1. Same
  BY DEF UpdateIncentive, UpdateSalary, data, Same
<1>2. PICK t, i, mem :
        /\ t \in Table /\ i \in DOMAIN rows[t][a] /\ mem \in RowOf(t)
        /\ Start(q, [at |-> "select", t |-> t, run |-> None, a |-> a, i |-> i,
                     mem |-> mem, dirty |-> {}])
        /\ AddsUp(t, rows[t][a][i]) => AddsUp(t, mem)
  BY DecidedRow
<1> DEFINE r == [at |-> "select", t |-> t, run |-> None, a |-> a, i |-> i,
                 mem |-> mem, dirty |-> {}]
<1>3. r.at = "select" /\ r.t = t /\ r.run = None /\ r.a = a /\ r.i = i /\ r.mem = mem
      /\ Start(q, r)
  BY <1>2
<1> HIDE DEF r
<1>4. req'[q] = r /\ Others(q)
  BY <1>3, Moves DEF Others
<1>5. QED
  BY <1>1, <1>2, <1>3, <1>4 DEF Decides

\* Every step has one of these shapes.
LEMMA Shapes ==
  ASSUME TypeOK, [Next]_vars
  PROVE  \/ UNCHANGED <<req, overlaps, rows, undone>>
         \/ \E q \in Requests : Withdraws(q) \/ Begins(q) \/ Nears(q) \/ Misses(q) \/ Finds(q)
         \/ \E q \in Requests : Compares(q) \/ Decides(q)
         \/ \E q \in Requests : Leaves(q) /\ Same /\ Saving(q)
         \/ \E q \in Requests : Leaves(q) /\ InsertRow(q)
         \/ \E q \in Requests : Leaves(q) /\ UpdateRow(q) /\ Saving(q)
<1>1. ASSUME NEW q \in Requests, Crash(q)
      PROVE  Withdraws(q)
  BY <1>1, Ends DEF Crash, data, Withdraws, Same, Others, Idle
<1>2. CASE \E a \in Agents : Earn(a)
  BY <1>2 DEF Earn, server
<1>3. CASE \E k \in Key : Expire(k)
  BY <1>3 DEF Expire, server
<1>4. CASE UNCHANGED vars
  BY <1>4 DEF vars, server
<1>5. QED
  BY EveryStep, <1>1, <1>2, <1>3, <1>4, SettingsShape, GenerationShape, SelectShape,
     UpdateShape, InsertShape, DecideShape

-----------------------------------------------------------------------------
(* The number of rows.                                                     *)

LEMMA RowsCount ==
  ASSUME TypeOK, BusyInv, NEW t \in Table, NEW a \in Agents
  PROVE  /\ Len(rows[t][a]) \in Nat
         /\ IsFiniteSet(Inserting(t, a)) /\ Cardinality(Inserting(t, a)) \in Nat
         /\ Cardinality(Inserting(t, a)) <= 1 + overlaps
<1>1. Inserting(t, a) \in SUBSET Busy
  BY DEF Inserting, Busy, At, InFlight
<1>2. rows[t][a] \in Seq(RowOf(t)) /\ overlaps \in Nat
  BY DEF TypeOK
<1>3. QED
  BY <1>1, <1>2, Fewer DEF BusyInv

\* Nobody adds a row, nor comes to where it may.
LEMMA RowsStay ==
  ASSUME TypeOK, BusyInv, RowsInv, NEW q \in Requests, Others(q),
         overlaps' \in Nat, overlaps' >= overlaps,
         \A t \in Table, a \in Agents : Len(rows'[t][a]) = Len(rows[t][a]),
         req'[q].at # "insert"
  PROVE  RowsInv'
<1>1. ASSUME NEW t \in Table, NEW a \in Agents
      PROVE  (Len(rows[t][a]) + Cardinality(Inserting(t, a)) <= 1 + overlaps)'
  <2>1. Inserting(t, a)' \in SUBSET Inserting(t, a)
    BY DEF Inserting, At, Others
  <2>2. /\ Cardinality(Inserting(t, a)') \in Nat
        /\ Cardinality(Inserting(t, a)') <= Cardinality(Inserting(t, a))
    BY <2>1, RowsCount, Fewer
  <2>3. Len(rows[t][a]) + Cardinality(Inserting(t, a)) <= 1 + overlaps
    BY DEF RowsInv
  <2>4. overlaps \in Nat
    BY DEF TypeOK
  <2>5. QED
    BY <2>2, <2>3, <2>4, RowsCount
<1>2. QED
  BY <1>1 DEF RowsInv

LEMMA RowsKept == TypeOK /\ BusyInv /\ RowsInv /\ [Next]_vars => RowsInv'
<1> SUFFICES ASSUME TypeOK, BusyInv, RowsInv, [Next]_vars PROVE RowsInv'
  OBVIOUS
<1>0. overlaps \in Nat /\ overlaps' \in Nat /\ overlaps' >= overlaps /\ TypeOK' /\ BusyInv'
  BY TypesKept, BusyKept DEF TypeOK
<1>1. CASE UNCHANGED <<req, overlaps, rows, undone>>
  BY <1>1 DEF RowsInv, Inserting, At
<1>2. ASSUME NEW q \in Requests, Others(q), Same, req'[q].at # "insert"
      PROVE  RowsInv'
  BY <1>0, <1>2, RowsStay DEF Same
<1>3. ASSUME NEW q \in Requests, Withdraws(q) \/ Begins(q) \/ Nears(q) \/ Finds(q) \/ Decides(q)
      PROVE  RowsInv'
  BY <1>2, <1>3 DEF Withdraws, Begins, Nears, Finds, Reaches, Decides
<1>4. ASSUME NEW q \in Requests, Compares(q)
      PROVE  RowsInv'
  <2>1. req[q] \in Step /\ req[q].at = "select"
    BY <1>4 DEF TypeOK, Compares, At
  <2> DEFINE d == {c \in DOMAIN req[q].mem : req[q].mem[c] # RowAt(q)[c]}
  <2>2. \A x : [req[q] EXCEPT !.at = "update", !.dirty = x].at = "update"
    BY <2>1, SaveMemory
  <2>3. req'[q] = [req[q] EXCEPT !.at = "update", !.dirty = d] /\ Others(q) /\ Same
    BY <1>4 DEF Compares
  <2> HIDE DEF d
  <2>4. QED
    BY <1>2, <2>2, <2>3
<1>5. ASSUME NEW q \in Requests, Misses(q)
      PROVE  RowsInv'
  <2>1. req'[q].t \in Table /\ req'[q].a \in Agents /\ Others(q) /\ UNCHANGED <<rows, overlaps>>
    BY <1>5 DEF Misses, Reaches, Same
  <2>2. ASSUME NEW t \in Table, NEW a \in Agents
        PROVE  (Len(rows[t][a]) + Cardinality(Inserting(t, a)) <= 1 + overlaps)'
    <3>1. CASE t = req'[q].t /\ a = req'[q].a
      <4>1. rows'[t][a] = <<>>
        BY <1>5, <2>1, <3>1 DEF Misses
      <4>2. Len(rows'[t][a]) = 0
        BY <4>1
      <4>3. Inserting(t, a)' \in SUBSET Busy'
        BY DEF Inserting, Busy, At, InFlight
      <4>4. Cardinality(Inserting(t, a)') \in Nat /\ Cardinality(Busy') \in Nat
            /\ Cardinality(Inserting(t, a)') <= Cardinality(Busy')
        BY <1>0, <4>3, Fewer DEF BusyInv
      <4>5. Cardinality(Busy') <= 1 + overlaps'
        BY <1>0 DEF BusyInv
      <4>6. QED
        BY <1>0, <4>2, <4>4, <4>5
    <3>2. CASE ~(t = req'[q].t /\ a = req'[q].a)
      <4>1. Inserting(t, a)' \in SUBSET Inserting(t, a)
        BY <2>1, <3>2 DEF Inserting, At, Others
      <4>2. /\ Cardinality(Inserting(t, a)') \in Nat
            /\ Cardinality(Inserting(t, a)') <= Cardinality(Inserting(t, a))
        BY <4>1, RowsCount, Fewer
      <4>3. Len(rows[t][a]) + Cardinality(Inserting(t, a)) <= 1 + overlaps
        BY DEF RowsInv
      <4>4. QED
        BY <1>0, <2>1, <4>2, <4>3, RowsCount
    <3>3. QED
      BY <3>1, <3>2
  <2>3. QED
    BY <2>2 DEF RowsInv
<1>6. ASSUME NEW q \in Requests, Leaves(q), Same
      PROVE  RowsInv'
  BY <1>2, <1>6 DEF Leaves
<1>7. ASSUME NEW q \in Requests, Leaves(q), InsertRow(q)
      PROVE  RowsInv'
  <2>1. /\ req[q].t \in Table /\ req[q].a \in Agents /\ req[q].mem \in RowOf(req[q].t)
        /\ rows' = [rows EXCEPT ![req[q].t][req[q].a] = Append(@, req[q].mem)]
        /\ At(q, "insert")
    BY <1>7, InsertEffect DEF InsertRow
  <2>2. Others(q) /\ UNCHANGED overlaps /\ req'[q].at # "insert"
    BY <1>7 DEF Leaves
  <2>4. \A t \in Table, a \in Agents :
          /\ t = req[q].t /\ a = req[q].a => rows'[t][a] = Append(rows[t][a], req[q].mem)
          /\ ~(t = req[q].t /\ a = req[q].a) => rows'[t][a] = rows[t][a]
    BY <2>1 DEF TypeOK
  <2>3. ASSUME NEW t \in Table, NEW a \in Agents
        PROVE  (Len(rows[t][a]) + Cardinality(Inserting(t, a)) <= 1 + overlaps)'
    <3>1. Len(rows[t][a]) + Cardinality(Inserting(t, a)) <= 1 + overlaps
      BY DEF RowsInv
    <3>7. rows[t][a] \in Seq(RowOf(t))
      BY DEF TypeOK
    <3> DEFINE n  == Len(rows[t][a])
               nn == Len(rows'[t][a])
    <3>8. n \in Nat /\ Len(Append(rows[t][a], req[q].mem)) = n + 1
      BY <3>7
    <3>2. /\ t = req[q].t /\ a = req[q].a => nn = n + 1
          /\ ~(t = req[q].t /\ a = req[q].a) => nn = n
      BY <2>4, <3>8
    <3> DEFINE before == Cardinality(Inserting(t, a))
               after  == Cardinality(Inserting(t, a)')
    <3>6. before \in Nat
      BY RowsCount
    <3>3. CASE t = req[q].t /\ a = req[q].a
      <4>1. q \in Inserting(t, a)
        BY <2>1, <3>3 DEF Inserting
      <4>2. Inserting(t, a)' \in SUBSET (Inserting(t, a) \ {q})
        BY <2>2 DEF Inserting, At, Others
      <4>3. /\ Cardinality(Inserting(t, a)') \in Nat
            /\ Cardinality(Inserting(t, a)') + 1 <= Cardinality(Inserting(t, a))
        BY <4>1, <4>2, RowsCount, OneLess
      <4>4. after \in Nat /\ after + 1 <= before /\ n + before <= 1 + overlaps
        BY <3>1, <4>3
      <4> HIDE DEF before, after, n, nn
      <4>5. nn + after <= 1 + overlaps'
        BY <1>0, <2>2, <3>2, <3>3, <3>6, <3>8, <4>4
      <4>6. QED
        BY <4>5 DEF after, nn
    <3>4. CASE ~(t = req[q].t /\ a = req[q].a)
      <4>1. Inserting(t, a)' \in SUBSET Inserting(t, a)
        BY <2>2 DEF Inserting, At, Others
      <4>2. /\ Cardinality(Inserting(t, a)') \in Nat
            /\ Cardinality(Inserting(t, a)') <= Cardinality(Inserting(t, a))
        BY <4>1, RowsCount, Fewer
      <4>3. QED
        BY <1>0, <2>2, <3>1, <3>2, <3>4, <3>8, <4>2, RowsCount
    <3>5. QED
      BY <3>3, <3>4
  <2>5. QED
    BY <2>3 DEF RowsInv
<1>8. ASSUME NEW q \in Requests, Leaves(q), UpdateRow(q), Saving(q)
      PROVE  RowsInv'
  <2>1. Overwrite(RowAt(q), req[q].mem, req[q].dirty) \in RowOf(req[q].t)
    BY <1>8, AtSave, OverwriteType
  <2>2. rows' = [rows EXCEPT ![req[q].t][req[q].a][req[q].i] =
                   Overwrite(RowAt(q), req[q].mem, req[q].dirty)]
    BY <1>8 DEF UpdateRow, RowAt
  <2>3. \A t \in Table, a \in Agents : Len(rows'[t][a]) = Len(rows[t][a])
    BY <1>8, <2>1, <2>2, AtSave, RowChanged
  <2>4. QED
    BY <1>0, <1>8, <2>3, RowsStay DEF Leaves
<1>9. QED
  BY Shapes, <1>1, <1>3, <1>4, <1>5, <1>6, <1>7, <1>8

LEMMA RowsStart == Init => RowsInv
<1> SUFFICES ASSUME Init, NEW t \in Table, NEW a \in Agents
             PROVE  Len(rows[t][a]) + Cardinality(Inserting(t, a)) <= 1 + overlaps
  BY DEF RowsInv
<1>1. Inserting(t, a) = {} /\ overlaps = 0
  BY DEF Init, ServerInit, Inserting, At, Idle
<1>2. Len(rows[t][a]) = 0
  BY DEF Init
<1>3. QED
  BY <1>1, <1>2, FS_EmptySet

\* An agent has one row a month in each table, and one more at most for every
\* request that has started while another was in flight: only generations that
\* had both found no row insert two.
THEOREM RowsAlwaysBounded == Spec => []RowsBounded
<1> DEFINE Inv == TypeOK /\ BusyInv /\ RowsInv
<1>1. Init => Inv
  BY StartsTyped, BusyStarts, RowsStart
<1>2. Inv /\ [Next]_vars => Inv'
  BY TypesKept, BusyKept, RowsKept
<1>3. Inv => RowsBounded
  <2> SUFFICES ASSUME Inv, NEW t \in Table, NEW a \in Agents
               PROVE  Len(rows[t][a]) <= 1 + overlaps
    BY DEF RowsBounded
  <2>1. Len(rows[t][a]) + Cardinality(Inserting(t, a)) <= 1 + overlaps /\ overlaps \in Nat
    BY DEF RowsInv, TypeOK
  <2>2. QED
    BY <2>1, RowsCount
<1> HIDE DEF Inv
<1>4. QED
  BY <1>1, <1>2, <1>3, PTL DEF Spec

-----------------------------------------------------------------------------
(* An admin's decisions.                                                   *)

\* A memory that request p keeps, and a row that stays.
LEMMA SameThreat ==
  ASSUME NEW p \in Requests, req'[p] = req[p], Saving(p) => RowAt(p)' = RowAt(p)
  PROVE  /\ Risky(p)' <=> Risky(p)
         /\ Deciding(p)' <=> Deciding(p)
         /\ Target(p)' = Target(p)
         /\ Generating(p)' <=> Generating(p)
<1>1. Target(p)' = Target(p) /\ (Deciding(p)' <=> Deciding(p)) /\ (Saving(p)' <=> Saving(p))
  BY DEF Target, Deciding, Saving, At
<1>2. Generating(p)' <=> Generating(p)
  BY DEF Generating, Saving, At
<1>3. Risky(p)' <=> Risky(p)
  BY <1>1 DEF Risky
<1>4. QED
  BY <1>1, <1>2, <1>3

\* What must be shown of a step that exposes no row.
LEMMA NothingExposed ==
  ASSUME TypeOK, CommitInv, overlaps' \in Nat, overlaps' >= overlaps,
         Exposed' \subseteq Exposed,
         \A p \in Requests : Saving(p)' /\ req'[p].run # None => ~Settled(req'[p].mem),
         \/ undone' = undone
         \/ \E p \in Requests : Generating(p),
         \/ \A p \in Requests : Generating(p)' => \E r \in Requests : Generating(r)
         \/ Exposed = undone
         \/ overlaps' = overlaps + 1
  PROVE  CommitInv'
<1>0. /\ overlaps \in Nat /\ IsFiniteSet(Exposed) /\ Cardinality(Exposed) <= 1 + overlaps
      /\ Cardinality(undone) <= overlaps
      /\ (\E p \in Requests : Generating(p)) => Cardinality(Exposed) <= overlaps
  BY DEF CommitInv, TypeOK
<1>1. /\ IsFiniteSet(Exposed') /\ Cardinality(Exposed') \in Nat /\ Cardinality(Exposed) \in Nat
      /\ Cardinality(Exposed') <= Cardinality(Exposed)
  BY <1>0, Fewer
<1>2. undone \in SUBSET Exposed /\ undone' \in SUBSET Exposed'
  BY DEF Exposed
<1>3. /\ Cardinality(undone) \in Nat /\ Cardinality(undone') \in Nat
      /\ Cardinality(undone') <= Cardinality(Exposed')
  BY <1>0, <1>1, <1>2, Fewer
<1>4. Cardinality(Exposed') <= 1 + overlaps'
  BY <1>0, <1>1
<1>5. Cardinality(undone') <= overlaps'
  <2>1. CASE undone' = undone
    BY <1>0, <1>3, <2>1
  <2>2. CASE \E p \in Requests : Generating(p)
    BY <1>0, <1>1, <1>3, <2>2
  <2>3. QED
    BY <2>1, <2>2
<1>6. ASSUME NEW p \in Requests, Generating(p)'
      PROVE  Cardinality(Exposed') <= overlaps'
  <2>1. CASE \E r \in Requests : Generating(r)
    BY <1>0, <1>1, <2>1
  <2>2. CASE Exposed = undone
    BY <1>0, <1>1, <2>2
  <2>3. CASE overlaps' = overlaps + 1
    BY <1>0, <1>1, <2>3
  <2>4. QED
    BY <1>6, <2>1, <2>2, <2>3
<1>7. (\E p \in Requests : Generating(p))' => Cardinality(Exposed') <= overlaps'
  BY <1>6
<1>8. QED
  BY <1>1, <1>4, <1>5, <1>7 DEF CommitInv

\* A request that starts while none is in flight finds no row at risk.
LEMMA QuietExposed ==
  ASSUME Quiet
  PROVE  Exposed = undone /\ \A p \in Requests : ~Generating(p) /\ ~Saving(p)
<1>1. \A p \in Requests : req[p].at = "idle"
  BY DEF Quiet, InFlight
<1>2. \A p \in Requests : ~Generating(p) /\ ~Saving(p)
  BY <1>1 DEF Generating, Saving, At
<1>3. \A p \in Requests : ~Risky(p) /\ ~Deciding(p)
  BY <1>2 DEF Risky, Deciding
<1>4. QED
  BY <1>2, <1>3 DEF Exposed

\* A step of request q that writes no row.
LEMMA CommitStays ==
  ASSUME TypeOK, BusyInv, CommitInv, NEW q \in Requests, Others(q), Same,
         overlaps' \in Nat, overlaps' >= overlaps,
         Generating(q)' => Generating(q) \/ Exposed = undone \/ overlaps' = overlaps + 1,
         Risky(q)' => (Risky(q) \/ Deciding(q)) /\ Target(q)' = Target(q),
         Deciding(q)' => (Risky(q) \/ Deciding(q)) /\ Target(q)' = Target(q),
         Saving(q)' /\ req'[q].run # None => ~Settled(req'[q].mem)
  PROVE  CommitInv'
<1>1. ASSUME NEW p \in Requests, p # q
      PROVE  /\ req'[p] = req[p]
             /\ Risky(p)' <=> Risky(p)
             /\ Deciding(p)' <=> Deciding(p)
             /\ Target(p)' = Target(p)
             /\ Generating(p)' <=> Generating(p)
  <2>1. req'[p] = req[p] /\ RowAt(p)' = RowAt(p)
    BY <1>1 DEF Others, Same, RowAt
  <2>2. QED
    BY <2>1, SameThreat
<1>2. ASSUME NEW p \in Requests, Risky(p)' \/ Deciding(p)'
      PROVE  (Risky(p) \/ Deciding(p)) /\ Target(p)' = Target(p)
  BY <1>1, <1>2
<1>3. Exposed' \subseteq Exposed
  <2>1. ASSUME NEW x \in Exposed'
        PROVE  x \in Exposed
    <3>1. CASE x \in undone'
      BY <3>1 DEF Exposed, Same
    <3>2. CASE \E p \in Requests : (Risky(p)' \/ Deciding(p)') /\ x = Target(p)'
      <4>1. PICK p \in Requests : (Risky(p)' \/ Deciding(p)') /\ x = Target(p)'
        BY <3>2
      <4>2. (Risky(p) \/ Deciding(p)) /\ x = Target(p)
        BY <1>2, <4>1
      <4>3. QED
        BY <4>2 DEF Exposed
    <3>3. QED
      BY <2>1, <3>1, <3>2 DEF Exposed
  <2>2. QED
    BY <2>1
<1>4. \A p \in Requests : Saving(p)' /\ req'[p].run # None => ~Settled(req'[p].mem)
  <2>1. ASSUME NEW p \in Requests, p # q, Saving(p)', req'[p].run # None
        PROVE  ~Settled(req'[p].mem)
    BY <1>1, <2>1 DEF CommitInv, Saving, At
  <2>2. QED
    BY <2>1
<1>5. \/ \A p \in Requests : Generating(p)' => \E r \in Requests : Generating(r)
      \/ Exposed = undone \/ overlaps' = overlaps + 1
  BY <1>1
<1>6. QED
  BY <1>3, <1>4, <1>5, NothingExposed DEF Same

\* An admin's decision is at risk from its first step on.
LEMMA CommitDecides ==
  ASSUME TypeOK, BusyInv, CommitInv, NEW q \in Requests, Decides(q),
         overlaps' \in Nat, overlaps' >= overlaps
  PROVE  CommitInv'
<1>0. /\ overlaps \in Nat /\ IsFiniteSet(Exposed) /\ Cardinality(Exposed) <= 1 + overlaps
      /\ Cardinality(undone) <= overlaps
      /\ (\E p \in Requests : Generating(p)) => Cardinality(Exposed) <= overlaps
  BY DEF CommitInv, TypeOK
<1>1. Others(q) /\ Same /\ Saving(q)' /\ req'[q].run = None
  BY DEF Decides, Saving, At
<1>2. Quiet \/ overlaps' = overlaps + 1
  BY StartBusy DEF Decides, TypeOK, ServerTyped
<1>3. ASSUME NEW p \in Requests, p # q
      PROVE  /\ req'[p] = req[p]
             /\ Risky(p)' <=> Risky(p)
             /\ Deciding(p)' <=> Deciding(p)
             /\ Target(p)' = Target(p)
             /\ Generating(p)' <=> Generating(p)
  <2>1. req'[p] = req[p] /\ RowAt(p)' = RowAt(p)
    BY <1>1, <1>3 DEF Others, Same, RowAt
  <2>2. QED
    BY <2>1, SameThreat
<1>4. ~Generating(q)'
  BY <1>1 DEF Generating, Saving, At, Decides
<1>5. Exposed' \in SUBSET (Exposed \cup {Target(q)'})
  <2>1. ASSUME NEW x \in Exposed'
        PROVE  x \in Exposed \cup {Target(q)'}
    <3>1. CASE x \in undone'
      BY <1>1, <3>1 DEF Exposed, Same
    <3>2. CASE \E p \in Requests : (Risky(p)' \/ Deciding(p)') /\ x = Target(p)'
      <4>1. PICK p \in Requests : (Risky(p)' \/ Deciding(p)') /\ x = Target(p)'
        BY <3>2
      <4>2. CASE p = q
        BY <4>1, <4>2
      <4>3. CASE p # q
        BY <1>3, <4>1, <4>3 DEF Exposed
      <4>4. QED
        BY <4>2, <4>3
    <3>3. QED
      BY <2>1, <3>1, <3>2 DEF Exposed
  <2>2. QED
    BY <2>1
<1>6. /\ IsFiniteSet(Exposed') /\ Cardinality(Exposed') \in Nat /\ Cardinality(Exposed) \in Nat
      /\ Cardinality(Exposed') <= Cardinality(Exposed) + 1
  BY <1>0, <1>5, OneMore
<1>7. undone \in SUBSET Exposed /\ undone' = undone
  BY <1>1 DEF Exposed, Same
<1>8. Cardinality(undone) \in Nat
  BY <1>0, <1>7, Fewer
<1>9. Cardinality(Exposed') <= 1 + overlaps'
  <2>1. CASE Quiet
    <3>1. Exposed = undone
      BY <2>1, QuietExposed
    <3>2. QED
      BY <1>0, <1>6, <3>1
  <2>2. CASE overlaps' = overlaps + 1
    BY <1>0, <1>6, <2>2
  <2>3. QED
    BY <1>2, <2>1, <2>2
<1>10. ASSUME NEW p \in Requests, Generating(p)'
       PROVE  Cardinality(Exposed') <= overlaps'
  <2>1. p # q /\ Generating(p)
    BY <1>3, <1>4, <1>10
  <2>2. ~Quiet
    BY <2>1, QuietExposed
  <2>3. QED
    BY <1>0, <1>2, <1>6, <2>1, <2>2
<1>11. (\E p \in Requests : Generating(p))' => Cardinality(Exposed') <= overlaps'
  BY <1>10
<1>12. \A p \in Requests : Saving(p)' /\ req'[p].run # None => ~Settled(req'[p].mem)
  <2>1. ASSUME NEW p \in Requests, p # q, Saving(p)', req'[p].run # None
        PROVE  ~Settled(req'[p].mem)
    BY <1>3, <2>1 DEF CommitInv, Saving, At
  <2>2. QED
    BY <1>1, <2>1
<1>13. Cardinality(undone') <= overlaps'
  BY <1>0, <1>7, <1>8
<1>14. QED
  BY <1>6, <1>9, <1>11, <1>12, <1>13 DEF CommitInv

\* A row that request p is about to save stays when request q adds one.
LEMMA CommitInserts ==
  ASSUME TypeOK, BusyInv, CommitInv, NEW q \in Requests, Leaves(q), InsertRow(q)
  PROVE  CommitInv'
<1>0. /\ req[q].t \in Table /\ req[q].a \in Agents /\ req[q].mem \in RowOf(req[q].t)
      /\ rows' = [rows EXCEPT ![req[q].t][req[q].a] = Append(@, req[q].mem)]
      /\ At(q, "insert") /\ UNCHANGED undone
  BY InsertEffect DEF InsertRow
<1>1. Others(q) /\ UNCHANGED overlaps /\ ~Saving(q)' /\ overlaps \in Nat
  BY DEF Leaves, Saving, At, TypeOK
<1>2. \A t \in Table, a \in Agents : \A j \in DOMAIN rows[t][a] : rows'[t][a][j] = rows[t][a][j]
  BY <1>0, RowAdded
<1>3. ASSUME NEW p \in Requests, p # q
      PROVE  /\ req'[p] = req[p]
             /\ Risky(p)' <=> Risky(p)
             /\ Deciding(p)' <=> Deciding(p)
             /\ Target(p)' = Target(p)
  <2>1. req'[p] = req[p]
    BY <1>1, <1>3 DEF Others
  <2>2. Saving(p) => RowAt(p)' = RowAt(p)
    BY <1>2, <2>1, AtSave DEF RowAt
  <2>3. QED
    BY <2>1, <2>2, SameThreat
<1>4. ~Risky(q)' /\ ~Deciding(q)'
  BY <1>1 DEF Risky, Deciding
<1>5. Exposed' \subseteq Exposed
  BY <1>0, <1>3, <1>4 DEF Exposed
<1>6. \A p \in Requests : Saving(p)' /\ req'[p].run # None => ~Settled(req'[p].mem)
  <2>1. ASSUME NEW p \in Requests, p # q, Saving(p)', req'[p].run # None
        PROVE  ~Settled(req'[p].mem)
    BY <1>3, <2>1 DEF CommitInv, Saving, At
  <2>2. QED
    BY <1>1, <2>1
<1>7. Generating(q)
  BY <1>0 DEF Generating, At
<1>8. QED
  BY <1>0, <1>1, <1>5, <1>6, <1>7, NothingExposed

\* The row that a save writes, and what it does to every row.
LEMMA UpdateEffect ==
  ASSUME TypeOK, NEW q \in Requests, UpdateRow(q), Saving(q)
  PROVE  LET new == Overwrite(RowAt(q), req[q].mem, req[q].dirty) IN
         /\ new \in RowOf(req[q].t)
         /\ undone' = IF Undoes(q, RowAt(q), new) THEN undone \cup {Target(q)} ELSE undone
         /\ \A t \in Table, a \in Agents :
              /\ DOMAIN rows'[t][a] = DOMAIN rows[t][a]
              /\ \A j \in DOMAIN rows[t][a] :
                   rows'[t][a][j] = IF <<t, a, j>> = Target(q) THEN new ELSE rows[t][a][j]
<1> DEFINE new == Overwrite(RowAt(q), req[q].mem, req[q].dirty)
<1>1. new \in RowOf(req[q].t)
  BY AtSave, OverwriteType
<1>2. rows' = [rows EXCEPT ![req[q].t][req[q].a][req[q].i] = new]
  BY DEF UpdateRow, RowAt
<1>3. undone' = IF Undoes(q, RowAt(q), new) THEN undone \cup {Target(q)} ELSE undone
  BY DEF UpdateRow, RowAt, Target
<1> HIDE DEF new
<1>4. \A t \in Table, a \in Agents :
        /\ DOMAIN rows'[t][a] = DOMAIN rows[t][a]
        /\ \A j \in DOMAIN rows[t][a] :
             rows'[t][a][j] = IF <<t, a, j>> = <<req[q].t, req[q].a, req[q].i>>
                              THEN new ELSE rows[t][a][j]
  <2> DEFINE tt == req[q].t
             aa == req[q].a
             ii == req[q].i
  <2>1. tt \in Table /\ aa \in Agents /\ ii \in DOMAIN rows[tt][aa] /\ new \in RowOf(tt)
    BY <1>1, AtSave
  <2>2. rows' = [rows EXCEPT ![tt][aa][ii] = new]
    BY <1>2
  <2> HIDE DEF tt, aa, ii
  <2>3. \A t \in Table, a \in Agents :
          /\ DOMAIN rows'[t][a] = DOMAIN rows[t][a]
          /\ \A j \in DOMAIN rows[t][a] :
               rows'[t][a][j] = IF <<t, a, j>> = <<tt, aa, ii>> THEN new ELSE rows[t][a][j]
    BY <2>1, <2>2, RowChanged
  <2>4. QED
    BY <2>3 DEF tt, aa, ii
<1>5. QED
  BY <1>1, <1>3, <1>4 DEF new, Target

\* A generation undoes only what was at risk, and puts nothing else at risk:
\* its own rows are pending and keep the deductions it has read.
LEMMA CommitUpdates ==
  ASSUME TypeOK, BusyInv, CommitInv, NEW q \in Requests, Leaves(q), UpdateRow(q), Saving(q)
  PROVE  CommitInv'
<1> DEFINE new == Overwrite(RowAt(q), req[q].mem, req[q].dirty)
<1>1. Others(q) /\ UNCHANGED overlaps /\ ~Saving(q)' /\ overlaps \in Nat
  BY DEF Leaves, Saving, At, TypeOK
<1>2. /\ new \in RowOf(req[q].t)
      /\ undone' = IF Undoes(q, RowAt(q), new) THEN undone \cup {Target(q)} ELSE undone
      /\ \A t \in Table, a \in Agents : \A j \in DOMAIN rows[t][a] :
           rows'[t][a][j] = IF <<t, a, j>> = Target(q) THEN new ELSE rows[t][a][j]
  BY UpdateEffect
<1>3. /\ req[q].t \in Table /\ RowAt(q) \in RowOf(req[q].t) /\ req[q].mem \in RowOf(req[q].t)
  BY AtSave
<1>4. /\ new.status \in {RowAt(q).status, req[q].mem.status}
      /\ req[q].t = "salary" => new.deductions \in {RowAt(q).deductions, req[q].mem.deductions}
  BY <1>3, OverwriteType
<1> HIDE DEF new
<1>5. \A p \in Requests : p # q => req'[p] = req[p]
  BY <1>1 DEF Others
<1>6. ~Risky(q)' /\ ~Deciding(q)'
  BY <1>1 DEF Risky, Deciding
<1>7. ASSUME NEW p \in Requests, p # q, Saving(p)
      PROVE  RowAt(p)' = IF Target(p) = Target(q) THEN new ELSE RowAt(p)
  BY <1>2, <1>5, <1>7, AtSave DEF RowAt, Target
<1>8. ASSUME NEW p \in Requests, p # q, Target(p) # Target(q)
      PROVE  /\ Risky(p)' <=> Risky(p)
             /\ Deciding(p)' <=> Deciding(p)
             /\ Target(p)' = Target(p)
  BY <1>5, <1>7, <1>8, SameThreat
<1>9. ASSUME NEW p \in Requests, p # q
      PROVE  Target(p)' = Target(p) /\ (Deciding(p)' <=> Deciding(p)) /\ (Saving(p)' <=> Saving(p))
  BY <1>5, <1>9 DEF Target, Deciding, Saving, At
<1>10. Risky(q) \/ Deciding(q) => Target(q) \in Exposed
  BY DEF Exposed
<1>11. ASSUME req[q].run # None, ~Risky(q)
       PROVE  /\ ~Settled(RowAt(q)) /\ ~Settled(new)
              /\ req[q].t = "salary" => new.deductions = RowAt(q).deductions
              /\ undone' = undone
  <2>1. ~Settled(RowAt(q)) /\ (req[q].t = "salary" => req[q].mem.deductions = RowAt(q).deductions)
    BY <1>11 DEF Risky
  <2>2. ~Settled(req[q].mem)
    BY <1>11 DEF CommitInv
  <2>3. ~Settled(new)
    BY <1>4, <2>1, <2>2 DEF Settled
  <2>4. ~Undoes(q, RowAt(q), new)
    BY <1>4, <2>1 DEF Undoes
  <2>5. QED
    BY <1>2, <1>4, <2>1, <2>3, <2>4
<1>12. ASSUME req[q].run # None, ~Risky(q), NEW p \in Requests, p # q, Risky(p)',
              Target(p) = Target(q)
       PROVE  Risky(p)
  <2>1. Saving(p) /\ req'[p] = req[p] /\ RowAt(p)' = new
    BY <1>5, <1>7, <1>9, <1>12 DEF Risky
  <2>2. RowAt(p) = RowAt(q) /\ req[p].t = req[q].t
    BY <1>12 DEF Target, RowAt
  <2>3. QED
    BY <1>11, <1>12, <2>1, <2>2 DEF Risky
<1>13. undone' \subseteq Exposed
  <2>1. CASE Risky(q) \/ Deciding(q)
    BY <1>2, <1>10, <2>1 DEF Exposed
  <2>2. CASE req[q].run # None /\ ~Risky(q)
    BY <1>11, <2>2 DEF Exposed
  <2>3. QED
    BY <2>1, <2>2 DEF Deciding
<1>14. ASSUME NEW p \in Requests, Risky(p)' \/ Deciding(p)'
       PROVE  Target(p)' \in Exposed
  <2>1. p # q /\ Target(p)' = Target(p)
    BY <1>6, <1>9, <1>14
  <2>2. CASE Target(p) # Target(q)
    BY <1>8, <1>14, <2>1, <2>2 DEF Exposed
  <2>3. CASE Target(p) = Target(q)
    <3>1. CASE Risky(q) \/ Deciding(q)
      BY <1>10, <2>1, <2>3, <3>1
    <3>2. CASE req[q].run # None /\ ~Risky(q)
      BY <1>9, <1>12, <1>14, <2>1, <2>3, <3>2 DEF Exposed
    <3>3. QED
      BY <3>1, <3>2 DEF Deciding
  <2>4. QED
    BY <2>2, <2>3
<1>15. Exposed' \subseteq Exposed
  <2>1. ASSUME NEW x \in Exposed'
        PROVE  x \in Exposed
    <3>1. CASE x \in undone'
      BY <1>13, <3>1
    <3>2. CASE \E p \in Requests : (Risky(p)' \/ Deciding(p)') /\ x = Target(p)'
      BY <1>14, <3>2
    <3>3. QED
      BY <2>1, <3>1, <3>2 DEF Exposed
  <2>2. QED
    BY <2>1
<1>16. \A p \in Requests : Saving(p)' /\ req'[p].run # None => ~Settled(req'[p].mem)
  <2>1. ASSUME NEW p \in Requests, p # q, Saving(p)', req'[p].run # None
        PROVE  ~Settled(req'[p].mem)
    BY <1>5, <1>9, <2>1 DEF CommitInv
  <2>2. QED
    BY <1>1, <2>1
<1>17. undone' = undone \/ \E p \in Requests : Generating(p)
  <2>1. CASE req[q].run # None
    BY <2>1 DEF Generating
  <2>2. CASE req[q].run = None
    BY <1>2, <2>2 DEF Undoes
  <2>3. QED
    BY <2>1, <2>2
<1>18. ASSUME NEW p \in Requests, Generating(p)'
       PROVE  \E r \in Requests : Generating(r)
  <2>1. CASE p # q
    BY <1>5, <1>18, <2>1 DEF Generating, Saving, At
  <2>2. CASE p = q
    BY <1>1, <1>18, <2>2 DEF Generating, Leaves, Saving, At
  <2>3. QED
    BY <2>1, <2>2
<1>19. QED
  BY <1>1, <1>15, <1>16, <1>17, <1>18, NothingExposed

LEMMA CommitKept == TypeOK /\ BusyInv /\ CommitInv /\ [Next]_vars => CommitInv'
<1> SUFFICES ASSUME TypeOK, BusyInv, CommitInv, [Next]_vars PROVE CommitInv'
  OBVIOUS
<1>0. overlaps \in Nat /\ overlaps' \in Nat /\ overlaps' >= overlaps /\ TypeOK' /\ BusyInv'
  BY TypesKept, BusyKept DEF TypeOK
<1>1. CASE UNCHANGED <<req, overlaps, rows, undone>>
  BY <1>1 DEF CommitInv, Exposed, Risky, Deciding, Saving, Target, RowAt, Generating, At
<1>2. ASSUME NEW q \in Requests, Withdraws(q)
      PROVE  CommitInv'
  <2>1. ~Generating(q)' /\ ~Saving(q)' /\ ~Risky(q)' /\ ~Deciding(q)'
    BY <1>2 DEF Withdraws, Generating, Saving, At, Risky, Deciding
  <2>2. QED
    BY <1>0, <1>2, <2>1, CommitStays DEF Withdraws
<1>3. ASSUME NEW q \in Requests, Begins(q)
      PROVE  CommitInv'
  <2>1. ~Saving(q)' /\ ~Risky(q)' /\ ~Deciding(q)'
    BY <1>3 DEF Begins, Saving, At, Risky, Deciding
  <2>2. Quiet \/ overlaps' = overlaps + 1
    BY <1>3, StartBusy DEF Begins, TypeOK, ServerTyped
  <2>3. Exposed = undone \/ overlaps' = overlaps + 1
    BY <2>2, QuietExposed
  <2>4. QED
    BY <1>0, <1>3, <2>1, <2>3, CommitStays DEF Begins
<1>4. ASSUME NEW q \in Requests, Nears(q)
      PROVE  CommitInv'
  <2>1. ~Saving(q)' /\ ~Risky(q)' /\ ~Deciding(q)' /\ Generating(q)
    BY <1>4 DEF Nears, Saving, At, Risky, Deciding, Generating
  <2>2. QED
    BY <1>0, <1>4, <2>1, CommitStays DEF Nears
<1>5. ASSUME NEW q \in Requests, Misses(q)
      PROVE  CommitInv'
  <2>1. ~Saving(q)' /\ ~Risky(q)' /\ ~Deciding(q)' /\ Generating(q)
    BY <1>5 DEF Misses, Reaches, Saving, At, Risky, Deciding, Generating
  <2>2. QED
    BY <1>0, <1>5, <2>1, CommitStays DEF Misses, Reaches
<1>6. ASSUME NEW q \in Requests, Finds(q)
      PROVE  CommitInv'
  <2>1. Generating(q) /\ Others(q) /\ Same /\ req'[q].run # None
    BY <1>6, RunAssumption DEF Finds, Reaches, At, Generating, RunAssumption
  <2>2. RowAt(q)' = rows[req'[q].t][req'[q].a][req'[q].i]
    BY <2>1 DEF RowAt, Same
  <2>3. ~Risky(q)'
    BY <1>6, <2>2 DEF Finds, Risky
  <2>4. ~Deciding(q)'
    BY <2>1 DEF Deciding
  <2>5. ~Settled(req'[q].mem)
    BY <1>6 DEF Finds, Settled
  <2>6. QED
    BY <1>0, <2>1, <2>3, <2>4, <2>5, CommitStays
<1>7. ASSUME NEW q \in Requests, Compares(q)
      PROVE  CommitInv'
  <2>1. req[q] \in Step /\ req[q].at = "select" /\ Saving(q)
    BY <1>7 DEF TypeOK, Compares, At, Saving
  <2> DEFINE d == {c \in DOMAIN req[q].mem : req[q].mem[c] # RowAt(q)[c]}
             r == [req[q] EXCEPT !.at = "update", !.dirty = d]
  <2>2. /\ r.at = "update" /\ r.t = req[q].t /\ r.a = req[q].a /\ r.i = req[q].i
        /\ r.mem = req[q].mem /\ r.run = req[q].run
    BY <2>1, SaveMemory
  <2>3. req'[q] = r /\ Others(q) /\ Same
    BY <1>7 DEF Compares
  <2> HIDE DEF d, r
  <2>4. /\ Saving(q)' /\ Target(q)' = Target(q) /\ RowAt(q)' = RowAt(q)
        /\ Generating(q)' => Generating(q)
        /\ Deciding(q)' => Deciding(q)
    BY <2>1, <2>2, <2>3 DEF Saving, At, Target, RowAt, Same, Generating, Deciding
  <2>5. Risky(q)' => Risky(q)
    BY <2>1, <2>2, <2>3, <2>4 DEF Risky
  <2>6. req'[q].run # None => ~Settled(req'[q].mem)
    BY <2>1, <2>2, <2>3 DEF CommitInv
  <2>7. QED
    BY <1>0, <2>3, <2>4, <2>5, <2>6, CommitStays
<1>8. ASSUME NEW q \in Requests, Leaves(q), Same, Saving(q)
      PROVE  CommitInv'
  <2>1. ~Saving(q)' /\ ~Risky(q)' /\ ~Deciding(q)' /\ (Generating(q)' => Generating(q))
    BY <1>8 DEF Leaves, Saving, At, Risky, Deciding, Generating
  <2>2. QED
    BY <1>0, <1>8, <2>1, CommitStays DEF Leaves
<1>9. QED
  BY Shapes, <1>0, <1>1, <1>2, <1>3, <1>4, <1>5, <1>6, <1>7, <1>8, CommitDecides, CommitInserts,
     CommitUpdates

LEMMA CommitStarts == Init => CommitInv
<1> SUFFICES ASSUME Init PROVE CommitInv
  OBVIOUS
<1>1. Quiet /\ undone = {} /\ overlaps = 0
  BY DEF Init, ServerInit, Idle, Quiet, InFlight
<1>2. Exposed = {} /\ \A p \in Requests : ~Generating(p) /\ ~Saving(p)
  BY <1>1, QuietExposed
<1>3. QED
  BY <1>1, <1>2, FS_EmptySet DEF CommitInv

\* What an admin has decided about a row, its status or its deductions, no
\* generation takes back, but in at most one row for every request that has
\* started while another was in flight.
THEOREM CommittedAlwaysKept == Spec => []CommittedKept
<1> DEFINE Inv == TypeOK /\ BusyInv /\ CommitInv
<1>1. Init => Inv
  BY StartsTyped, BusyStarts, CommitStarts
<1>2. Inv /\ [Next]_vars => Inv'
  BY TypesKept, BusyKept, CommitKept
<1>3. Inv => CommittedKept
  BY DEF CommitInv, CommittedKept
<1> HIDE DEF Inv
<1>4. QED
  BY <1>1, <1>2, <1>3, PTL DEF Spec

-----------------------------------------------------------------------------
(* The totals.                                                             *)

LEMMA TotalsFinite ==
  ASSUME TypeOK, BusyInv, NEW t \in Table, NEW a \in Agents
  PROVE  /\ IsFiniteSet(Spoiled(t, a)) /\ Cardinality(Spoiled(t, a)) \in Nat
         /\ IsFiniteSet(Savers(t, a)) /\ Cardinality(Savers(t, a)) \in Nat
<1>1. Savers(t, a) \in SUBSET Busy
  BY DEF Savers, MaySave, Saving, Busy, At, InFlight
<1>2. rows[t][a] \in Seq(RowOf(t))
  BY DEF TypeOK
<1>3. DOMAIN rows[t][a] = 1..Len(rows[t][a]) /\ Len(rows[t][a]) \in Nat
  BY <1>2
<1>4. IsFiniteSet(DOMAIN rows[t][a])
  BY <1>3, FS_Interval
<1>5. Spoiled(t, a) \in SUBSET DOMAIN rows[t][a]
  BY DEF Spoiled
<1>6. QED
  BY <1>1, <1>4, <1>5, Fewer DEF BusyInv

\* What must be shown for each agent, for each kind of step: fewer rows are
\* spoiled and fewer requests may save one; ...
LEMMA TotalsLess ==
  ASSUME TypeOK, BusyInv, TotalsInv, NEW t \in Table, NEW a \in Agents,
         overlaps' \in Nat, overlaps' >= overlaps,
         Spoiled(t, a)' \subseteq Spoiled(t, a), Savers(t, a)' \subseteq Savers(t, a)
  PROVE  /\ Cardinality(Spoiled(t, a)') <= overlaps'
         /\ Cardinality(Spoiled(t, a)') + Cardinality(Savers(t, a)') <= 1 + overlaps'
<1> DEFINE s  == Cardinality(Spoiled(t, a))
           v  == Cardinality(Savers(t, a))
           ss == Cardinality(Spoiled(t, a)')
           vv == Cardinality(Savers(t, a)')
<1>1. s \in Nat /\ ss \in Nat /\ ss <= s
  BY TotalsFinite, Fewer
<1>2. v \in Nat /\ vv \in Nat /\ vv <= v
  BY TotalsFinite, Fewer
<1>3. s <= overlaps /\ s + v <= 1 + overlaps /\ overlaps \in Nat
  BY DEF TotalsInv, TypeOK
<1> HIDE DEF s, v, ss, vv
<1>4. PICK oo \in Nat : oo = overlaps' /\ overlaps <= oo
  BY <1>3
<1>5. overlaps <= oo
  BY <1>4
<1>6. ss <= oo /\ ss + vv <= 1 + oo
  BY <1>1, <1>2, <1>3, <1>5
<1>7. QED
  BY <1>4, <1>6 DEF ss, vv

\* ... a request starts that may save one; ...
LEMMA TotalsStart ==
  ASSUME TypeOK, BusyInv, TotalsInv, NEW t \in Table, NEW a \in Agents, NEW q,
         overlaps' \in Nat, overlaps' >= overlaps, Quiet \/ overlaps' = overlaps + 1,
         Spoiled(t, a)' \subseteq Spoiled(t, a), Savers(t, a)' \subseteq Savers(t, a) \cup {q}
  PROVE  /\ Cardinality(Spoiled(t, a)') <= overlaps'
         /\ Cardinality(Spoiled(t, a)') + Cardinality(Savers(t, a)') <= 1 + overlaps'
<1> DEFINE s  == Cardinality(Spoiled(t, a))
           v  == Cardinality(Savers(t, a))
           ss == Cardinality(Spoiled(t, a)')
           vv == Cardinality(Savers(t, a)')
<1>1. s \in Nat /\ ss \in Nat /\ ss <= s
  BY TotalsFinite, Fewer
<1>2. v \in Nat /\ vv \in Nat /\ vv <= v + 1
  BY TotalsFinite, OneMore
<1>3. s <= overlaps /\ s + v <= 1 + overlaps /\ overlaps \in Nat
  BY DEF TotalsInv, TypeOK
<1>4. Quiet => v = 0
  <2>1. ASSUME Quiet
        PROVE  Savers(t, a) = {}
    <3>1. \A p \in Requests : req[p].at = "idle"
      BY <2>1 DEF Quiet, InFlight
    <3>2. QED
      BY <3>1 DEF Savers, MaySave, Saving, At
  <2>2. QED
    BY <2>1, FS_EmptySet
<1> HIDE DEF s, v, ss, vv
<1>5. PICK oo \in Nat : oo = overlaps' /\ overlaps <= oo
  BY <1>3
<1>6. overlaps <= oo /\ (v = 0 \/ oo = overlaps + 1)
  BY <1>3, <1>4, <1>5
<1>7. ss <= oo /\ ss + vv <= 1 + oo
  BY <1>1, <1>2, <1>3, <1>6
<1>8. QED
  BY <1>5, <1>7 DEF ss, vv

\* ... or a request saves one, and may spoil what another one is to save.
LEMMA TotalsSave ==
  ASSUME TypeOK, BusyInv, TotalsInv, NEW t \in Table, NEW a \in Agents, NEW q, NEW i,
         overlaps' = overlaps, q \in Savers(t, a), Savers(t, a)' \subseteq Savers(t, a) \ {q},
         Spoiled(t, a)' \subseteq Spoiled(t, a) \cup {i},
         Spoiled(t, a)' \subseteq Spoiled(t, a) \/ Savers(t, a)' # {}
  PROVE  /\ Cardinality(Spoiled(t, a)') <= overlaps'
         /\ Cardinality(Spoiled(t, a)') + Cardinality(Savers(t, a)') <= 1 + overlaps'
<1> DEFINE s  == Cardinality(Spoiled(t, a))
           v  == Cardinality(Savers(t, a))
           ss == Cardinality(Spoiled(t, a)')
           vv == Cardinality(Savers(t, a)')
<1>1. s \in Nat /\ ss \in Nat /\ ss <= s + 1
  BY TotalsFinite, OneMore
<1>2. v \in Nat /\ vv \in Nat /\ vv + 1 <= v /\ IsFiniteSet(Savers(t, a)')
  BY TotalsFinite, OneLess
<1>3. s <= overlaps /\ s + v <= 1 + overlaps /\ overlaps \in Nat
  BY DEF TotalsInv, TypeOK
<1>4. ss <= s \/ vv # 0
  <2>1. CASE Spoiled(t, a)' \subseteq Spoiled(t, a)
    BY <2>1, TotalsFinite, Fewer
  <2>2. CASE Savers(t, a)' # {}
    BY <1>2, <2>2, FS_EmptySet
  <2>3. QED
    BY <2>1, <2>2
<1> HIDE DEF s, v, ss, vv
<1>5. ss <= overlaps' /\ ss + vv <= 1 + overlaps'
  BY <1>1, <1>2, <1>3, <1>4
<1>6. QED
  BY <1>5 DEF ss, vv

\* A request that stays where it is may save what it might.
LEMMA SameSaver ==
  ASSUME NEW p \in Requests, req'[p] = req[p], NEW t, NEW a
  PROVE  MaySave(p, t, a)' <=> MaySave(p, t, a)
BY DEF MaySave, Saving, At

LEMMA SaversStay ==
  ASSUME NEW q \in Requests, Others(q), NEW t, NEW a
  PROVE  /\ Savers(t, a)' \subseteq Savers(t, a) \cup {q}
         /\ (MaySave(q, t, a)' => MaySave(q, t, a)) => Savers(t, a)' \subseteq Savers(t, a)
         /\ ~MaySave(q, t, a)' => Savers(t, a)' \subseteq Savers(t, a) \ {q}
<1>1. \A p \in Requests : p # q => (MaySave(p, t, a)' <=> MaySave(p, t, a))
  BY SameSaver DEF Others
<1>2. QED
  BY <1>1 DEF Savers

\* Request q writes no row, and what it is to save adds up if the row does.
LEMMA SpoiledStay ==
  ASSUME NEW q \in Requests, Others(q), Same, NEW t, NEW a,
         ASSUME NEW i \in DOMAIN rows[t][a], Saving(q)', Target(q)' = <<t, a, i>>,
                ~AddsUp(t, Result(q)')
         PROVE  i \in Spoiled(t, a)
  PROVE  Spoiled(t, a)' \subseteq Spoiled(t, a)
<1>1. ASSUME NEW i \in Spoiled(t, a)'
      PROVE  i \in Spoiled(t, a)
  <2>1. i \in DOMAIN rows[t][a] /\ rows' = rows
    BY <1>1 DEF Spoiled, Same
  <2>2. CASE ~AddsUp(t, rows'[t][a][i])
    BY <2>1, <2>2 DEF Spoiled
  <2>3. CASE \E p \in Requests : Saving(p)' /\ Target(p)' = <<t, a, i>> /\ ~AddsUp(t, Result(p)')
    <3>1. PICK p \in Requests : Saving(p)' /\ Target(p)' = <<t, a, i>> /\ ~AddsUp(t, Result(p)')
      BY <2>3
    <3>2. CASE p = q
      BY <2>1, <3>1, <3>2
    <3>3. CASE p # q
      <4>1. req'[p] = req[p]
        BY <3>3 DEF Others
      <4>2. /\ Saving(p)' <=> Saving(p)
            /\ Target(p)' = Target(p) /\ RowAt(p)' = RowAt(p)
        BY <2>1, <4>1 DEF Saving, At, Target, RowAt
      <4>3. Result(p)' = Result(p)
        BY <4>1, <4>2 DEF Result, At
      <4>4. QED
        BY <2>1, <3>1, <4>2, <4>3 DEF Spoiled
    <3>4. QED
      BY <3>2, <3>3
  <2>4. QED
    BY <1>1, <2>2, <2>3 DEF Spoiled
<1>2. QED
  BY <1>1

\* Request q's part of the invariant: it stays within what it may save, and
\* adds up what it is to insert.
LEMMA TotalsStay ==
  ASSUME TypeOK, BusyInv, TotalsInv, NEW q \in Requests, Others(q),
         ASSUME NEW t \in Table, NEW a \in Agents
         PROVE  /\ Cardinality(Spoiled(t, a)') <= overlaps'
                /\ Cardinality(Spoiled(t, a)') + Cardinality(Savers(t, a)') <= 1 + overlaps',
         req'[q].at = "insert" => AddsUp(req'[q].t, req'[q].mem)
  PROVE  TotalsInv'
<1>1. \A p \in Requests : req'[p].at = "insert" => AddsUp(req'[p].t, req'[p].mem)
  <2>1. ASSUME NEW p \in Requests, p # q, req'[p].at = "insert"
        PROVE  AddsUp(req'[p].t, req'[p].mem)
    <3>1. req'[p] = req[p] /\ At(p, "insert")
      BY <2>1 DEF Others, At
    <3>2. AddsUp(req[p].t, req[p].mem)
      BY <3>1 DEF TotalsInv
    <3>3. QED
      BY <3>1, <3>2
  <2>2. QED
    BY <2>1
<1>2. \A t \in Table, a \in Agents :
        /\ Cardinality(Spoiled(t, a)') <= overlaps'
        /\ Cardinality(Spoiled(t, a)') + Cardinality(Savers(t, a)') <= 1 + overlaps'
  OBVIOUS
<1>3. QED
  BY <1>1, <1>2 DEF TotalsInv, At

\* It writes no row and is not about to save one that does not add up.
LEMMA TotalsCalm ==
  ASSUME TypeOK, BusyInv, TotalsInv, NEW q \in Requests, Others(q), Same,
         overlaps' \in Nat, overlaps' >= overlaps,
         \A t \in Table, a \in Agents : MaySave(q, t, a)' => MaySave(q, t, a),
         \/ ~Saving(q)'
         \/ AddsUp(req'[q].t, Result(q)')
         \/ Saving(q) /\ Target(q)' = Target(q) /\ Result(q)' = Result(q),
         req'[q].at = "insert" => AddsUp(req'[q].t, req'[q].mem)
  PROVE  TotalsInv'
<1>1. ASSUME NEW t \in Table, NEW a \in Agents
      PROVE  /\ Cardinality(Spoiled(t, a)') <= overlaps'
             /\ Cardinality(Spoiled(t, a)') + Cardinality(Savers(t, a)') <= 1 + overlaps'
  <2>1. Savers(t, a)' \subseteq Savers(t, a)
    BY SaversStay
  <2>2. ASSUME NEW i \in DOMAIN rows[t][a], Saving(q)', Target(q)' = <<t, a, i>>,
               ~AddsUp(t, Result(q)')
        PROVE  i \in Spoiled(t, a)
    <3>1. req'[q].t = t
      BY <2>2 DEF Target
    <3>2. Saving(q) /\ Target(q)' = Target(q) /\ Result(q)' = Result(q)
      BY <2>2, <3>1
    <3>3. QED
      BY <2>2, <3>2 DEF Spoiled
  <2>3. Spoiled(t, a)' \subseteq Spoiled(t, a)
    BY <2>2, SpoiledStay
  <2>4. QED
    BY <2>1, <2>3, TotalsLess
<1>2. QED
  BY <1>1, TotalsStay

\* A request that starts finds no other one, or counts as an overlap.
LEMMA TotalsBegin ==
  ASSUME TypeOK, BusyInv, TotalsInv, NEW q \in Requests, Begins(q) \/ Decides(q),
         overlaps' \in Nat, overlaps' >= overlaps
  PROVE  TotalsInv'
<1>1. Others(q) /\ Same /\ (Quiet \/ overlaps' = overlaps + 1) /\ req'[q].at # "insert"
  BY StartBusy DEF Begins, Decides, TypeOK, ServerTyped
<1>2. ASSUME NEW t \in Table, NEW a \in Agents
      PROVE  /\ Cardinality(Spoiled(t, a)') <= overlaps'
             /\ Cardinality(Spoiled(t, a)') + Cardinality(Savers(t, a)') <= 1 + overlaps'
  <2>1. Savers(t, a)' \subseteq Savers(t, a) \cup {q}
    BY <1>1, SaversStay
  <2>2. ASSUME NEW i \in DOMAIN rows[t][a], Saving(q)', Target(q)' = <<t, a, i>>,
               ~AddsUp(t, Result(q)')
        PROVE  i \in Spoiled(t, a)
    <3>1. Decides(q) /\ req'[q].at = "select"
      BY <2>2 DEF Begins, Decides, Saving, At
    <3>2. req'[q].t = t /\ req'[q].a = a /\ req'[q].i = i
      BY <2>2 DEF Target
    <3>3. Result(q)' = req'[q].mem
      BY <3>1 DEF Result, At
    <3>4. ~AddsUp(t, rows[t][a][i])
      BY <2>2, <3>1, <3>2, <3>3 DEF Decides
    <3>5. QED
      BY <3>4 DEF Spoiled
  <2>3. Spoiled(t, a)' \subseteq Spoiled(t, a)
    BY <1>1, <2>2, SpoiledStay
  <2>4. QED
    BY <1>1, <2>1, <2>3, TotalsStart
<1>3. QED
  BY <1>1, <1>2, TotalsStay

\* The SELECT of a save leaves what the save will leave.
LEMMA TotalsCompare ==
  ASSUME TypeOK, NEW q \in Requests, Compares(q)
  PROVE  /\ Saving(q) /\ Saving(q)' /\ Target(q)' = Target(q) /\ Result(q)' = Result(q)
         /\ req'[q].at # "insert"
         /\ \A t \in Table, a \in Agents : MaySave(q, t, a)' => MaySave(q, t, a)
<1>1. req[q] \in Step /\ req[q].at = "select" /\ Saving(q)
  BY DEF TypeOK, Compares, At, Saving
<1> DEFINE d == {c \in DOMAIN req[q].mem : req[q].mem[c] # RowAt(q)[c]}
           r == [req[q] EXCEPT !.at = "update", !.dirty = d]
<1>2. /\ r.at = "update" /\ r.t = req[q].t /\ r.a = req[q].a /\ r.i = req[q].i
      /\ r.mem = req[q].mem /\ r.run = req[q].run /\ r.dirty = d
  BY <1>1, SaveMemory
<1>3. req'[q] = r /\ Same
  BY DEF Compares
<1>4. /\ req[q].mem \in RowOf(req[q].t) /\ RowAt(q) \in RowOf(req[q].t) /\ req[q].t \in Table
  BY <1>1, AtSave
<1>5. Overwrite(RowAt(q), req[q].mem, d) = req[q].mem
  <2>1. CASE req[q].t = "incentive"
    BY <1>4, <2>1 DEF Overwrite, RowOf, IncentiveRow
  <2>2. CASE req[q].t = "salary"
    BY <1>4, <2>2 DEF Overwrite, RowOf, SalaryRow
  <2>3. QED
    BY <1>4, <2>1, <2>2 DEF Table
<1> HIDE DEF d, r
<1>6. Saving(q)' /\ Target(q)' = Target(q) /\ RowAt(q)' = RowAt(q) /\ req'[q].at = "update"
  BY <1>2, <1>3 DEF Saving, At, Target, RowAt, Same
<1>7. Result(q)' = Overwrite(RowAt(q), req[q].mem, d)
  BY <1>2, <1>3, <1>6 DEF Result, At
<1>8. Result(q) = req[q].mem
  BY <1>1 DEF Result, At
<1>9. \A t \in Table, a \in Agents : MaySave(q, t, a)' => MaySave(q, t, a)
  BY <1>1, <1>2, <1>3, <1>6 DEF MaySave, Saving, At
<1>10. QED
  BY <1>1, <1>5, <1>6, <1>7, <1>8, <1>9

\* What is left of a generation that has done with an agent.
LEMMA LeavesSavers ==
  ASSUME NEW q \in Requests, Leaves(q), NEW t \in Table, NEW a \in Agents
  PROVE  /\ MaySave(q, t, a)' => MaySave(q, t, a)
         /\ req[q].t = t /\ req[q].a = a => MaySave(q, t, a) /\ ~MaySave(q, t, a)'
         /\ ~Saving(q)' /\ req'[q].at # "insert"
<1>1. ~Saving(q)' /\ req'[q].at # "insert"
  BY DEF Leaves, Saving, At
<1>2. MaySave(q, t, a)' => /\ req[q].run # None /\ req[q].t = t
                           /\ a \in req[q].run.left \ {req[q].a}
  BY DEF Leaves, MaySave, Saving, At
<1>3. QED
  BY <1>1, <1>2 DEF Leaves, MaySave

\* A row that is inserted adds up, and no other changes.
LEMMA TotalsInsert ==
  ASSUME TypeOK, BusyInv, TotalsInv, NEW q \in Requests, Leaves(q), InsertRow(q)
  PROVE  TotalsInv'
<1>0. /\ req[q].t \in Table /\ req[q].a \in Agents /\ req[q].mem \in RowOf(req[q].t)
      /\ rows' = [rows EXCEPT ![req[q].t][req[q].a] = Append(@, req[q].mem)]
      /\ At(q, "insert")
  BY InsertEffect DEF InsertRow
<1>1. Others(q) /\ overlaps' = overlaps /\ overlaps \in Nat /\ ~Saving(q)' /\ req'[q].at # "insert"
  BY DEF Leaves, Saving, At, TypeOK
<1>2. AddsUp(req[q].t, req[q].mem)
  BY <1>0 DEF TotalsInv
<1>3. \A t \in Table, a \in Agents :
        /\ \A j \in DOMAIN rows[t][a] : rows'[t][a][j] = rows[t][a][j]
        /\ \A j \in DOMAIN rows'[t][a] \ DOMAIN rows[t][a] :
             t = req[q].t /\ rows'[t][a][j] = req[q].mem
  BY <1>0, RowAdded
<1>4. ASSUME NEW t \in Table, NEW a \in Agents
      PROVE  Spoiled(t, a)' \subseteq Spoiled(t, a)
  <2>1. ASSUME NEW i \in Spoiled(t, a)'
        PROVE  i \in Spoiled(t, a)
    <3>1. i \in DOMAIN rows'[t][a]
      BY <2>1 DEF Spoiled
    <3>2. CASE ~AddsUp(t, rows'[t][a][i])
      <4>1. i \in DOMAIN rows[t][a]
        BY <1>2, <1>3, <3>1, <3>2
      <4>2. rows'[t][a][i] = rows[t][a][i]
        BY <1>3, <4>1
      <4>3. QED
        BY <3>2, <4>1, <4>2 DEF Spoiled
    <3>3. CASE \E p \in Requests : Saving(p)' /\ Target(p)' = <<t, a, i>> /\ ~AddsUp(t, Result(p)')
      <4>1. PICK p \in Requests : Saving(p)' /\ Target(p)' = <<t, a, i>> /\ ~AddsUp(t, Result(p)')
        BY <3>3
      <4>2. p # q
        BY <1>1, <4>1
      <4>3. req'[p] = req[p]
        BY <1>1, <4>2 DEF Others
      <4>4. Saving(p) /\ Target(p) = <<t, a, i>>
        BY <4>1, <4>3 DEF Saving, At, Target
      <4>5. req[p].t = t /\ req[p].a = a /\ req[p].i = i /\ i \in DOMAIN rows[t][a]
        BY <4>4, AtSave DEF Target
      <4>6. RowAt(p)' = RowAt(p)
        BY <1>3, <4>3, <4>5 DEF RowAt
      <4>7. Result(p)' = Result(p)
        BY <4>3, <4>6 DEF Result, At
      <4>8. QED
        BY <4>1, <4>4, <4>5, <4>7 DEF Spoiled
    <3>4. QED
      BY <2>1, <3>2, <3>3 DEF Spoiled
  <2>2. QED
    BY <2>1
<1>5. ASSUME NEW t \in Table, NEW a \in Agents
      PROVE  /\ Cardinality(Spoiled(t, a)') <= overlaps'
             /\ Cardinality(Spoiled(t, a)') + Cardinality(Savers(t, a)') <= 1 + overlaps'
  <2>1. Savers(t, a)' \subseteq Savers(t, a)
    BY <1>1, LeavesSavers, SaversStay
  <2>2. overlaps' \in Nat /\ overlaps' >= overlaps
    BY <1>1
  <2>3. QED
    BY <1>4, <2>1, <2>2, TotalsLess
<1>6. QED
  BY <1>1, <1>5, TotalsStay

\* A row that is saved becomes what its save was to leave; what another one
\* leaves of it may have changed, but then that one is still to save it.
LEMMA TotalsUpdate ==
  ASSUME TypeOK, BusyInv, TotalsInv, NEW q \in Requests, Leaves(q), UpdateRow(q), Saving(q)
  PROVE  TotalsInv'
<1> DEFINE new == Overwrite(RowAt(q), req[q].mem, req[q].dirty)
<1>0. /\ req[q].t \in Table /\ req[q].a \in Agents
      /\ req[q].i \in DOMAIN rows[req[q].t][req[q].a]
  BY AtSave
<1>1. /\ Others(q) /\ overlaps' = overlaps /\ overlaps \in Nat /\ ~Saving(q)'
      /\ req'[q].at # "insert" /\ At(q, "update")
  BY DEF Leaves, Saving, At, TypeOK, UpdateRow
<1>2. \A t \in Table, a \in Agents :
        /\ DOMAIN rows'[t][a] = DOMAIN rows[t][a]
        /\ \A j \in DOMAIN rows[t][a] :
             rows'[t][a][j] = IF <<t, a, j>> = Target(q) THEN new ELSE rows[t][a][j]
  BY UpdateEffect
<1>3. Result(q) = new
  BY <1>1 DEF Result, At
<1> HIDE DEF new
<1>4. ASSUME NEW t \in Table, NEW a \in Agents, NEW i \in Spoiled(t, a)'
      PROVE  \/ i \in Spoiled(t, a)
             \/ <<t, a, i>> = Target(q) /\ \E p \in Requests : p # q /\ MaySave(p, t, a)'
  <2>1. i \in DOMAIN rows[t][a]
    BY <1>2, <1>4 DEF Spoiled
  <2>2. CASE ~AddsUp(t, rows'[t][a][i])
    <3>1. CASE <<t, a, i>> = Target(q)
      <4>1. rows'[t][a][i] = Result(q)
        BY <1>2, <1>3, <2>1, <3>1
      <4>2. QED
        BY <2>1, <2>2, <3>1, <4>1 DEF Spoiled
    <3>2. CASE <<t, a, i>> # Target(q)
      <4>1. rows'[t][a][i] = rows[t][a][i]
        BY <1>2, <2>1, <3>2
      <4>2. QED
        BY <2>1, <2>2, <4>1 DEF Spoiled
    <3>3. QED
      BY <3>1, <3>2
  <2>3. CASE \E p \in Requests : Saving(p)' /\ Target(p)' = <<t, a, i>> /\ ~AddsUp(t, Result(p)')
    <3>1. PICK p \in Requests : Saving(p)' /\ Target(p)' = <<t, a, i>> /\ ~AddsUp(t, Result(p)')
      BY <2>3
    <3>2. p # q
      BY <1>1, <3>1
    <3>3. req'[p] = req[p]
      BY <1>1, <3>2 DEF Others
    <3>4. Saving(p) /\ Target(p) = <<t, a, i>> /\ req[p].t = t /\ req[p].a = a /\ req[p].i = i
      BY <3>1, <3>3 DEF Saving, At, Target
    <3>5. CASE <<t, a, i>> = Target(q)
      <4>1. MaySave(p, t, a)'
        BY <3>1, <3>3, <3>4 DEF MaySave
      <4>2. QED
        BY <3>2, <3>5, <4>1
    <3>6. CASE <<t, a, i>> # Target(q)
      <4>1. RowAt(p)' = RowAt(p)
        BY <1>2, <2>1, <3>3, <3>4, <3>6 DEF RowAt
      <4>2. Result(p)' = Result(p)
        BY <3>3, <4>1 DEF Result, At
      <4>3. QED
        BY <2>1, <3>1, <3>4, <4>2 DEF Spoiled
    <3>7. QED
      BY <3>5, <3>6
  <2>4. QED
    BY <1>4, <2>2, <2>3 DEF Spoiled
<1>5. ASSUME NEW t \in Table, NEW a \in Agents
      PROVE  /\ Cardinality(Spoiled(t, a)') <= overlaps'
             /\ Cardinality(Spoiled(t, a)') + Cardinality(Savers(t, a)') <= 1 + overlaps'
  <2>1. CASE t = req[q].t /\ a = req[q].a
    <3>1. q \in Savers(t, a) /\ Savers(t, a)' \subseteq Savers(t, a) \ {q}
      BY <1>1, <2>1, LeavesSavers, SaversStay DEF Savers
    <3>2. Spoiled(t, a)' \subseteq Spoiled(t, a) \cup {req[q].i}
      BY <1>4 DEF Target
    <3>3. Spoiled(t, a)' \subseteq Spoiled(t, a) \/ Savers(t, a)' # {}
      BY <1>4 DEF Savers
    <3>4. QED
      BY <1>1, <3>1, <3>2, <3>3, TotalsSave
  <2>2. CASE ~(t = req[q].t /\ a = req[q].a)
    <3>1. Savers(t, a)' \subseteq Savers(t, a)
      BY <1>1, LeavesSavers, SaversStay
    <3>2. Spoiled(t, a)' \subseteq Spoiled(t, a)
      BY <1>4, <2>2 DEF Target
    <3>3. overlaps' \in Nat /\ overlaps' >= overlaps
      BY <1>1
    <3>4. QED
      BY <3>1, <3>2, <3>3, TotalsLess
  <2>3. QED
    BY <2>1, <2>2
<1>6. QED
  BY <1>1, <1>5, TotalsStay

LEMMA TotalsKept == TypeOK /\ BusyInv /\ TotalsInv /\ [Next]_vars => TotalsInv'
<1> SUFFICES ASSUME TypeOK, BusyInv, TotalsInv, [Next]_vars PROVE TotalsInv'
  OBVIOUS
<1>0. overlaps \in Nat /\ overlaps' \in Nat /\ overlaps' >= overlaps /\ TypeOK'
  BY TypesKept, BusyKept DEF TypeOK
<1>1. CASE UNCHANGED <<req, overlaps, rows, undone>>
  BY <1>1 DEF TotalsInv, Spoiled, Saving, Target, Result, RowAt, Savers, MaySave, At
<1>2. ASSUME NEW q \in Requests, Withdraws(q)
      PROVE  TotalsInv'
  <2>1. /\ Others(q) /\ Same /\ ~Saving(q)' /\ req'[q].at # "insert"
        /\ \A t \in Table, a \in Agents : ~MaySave(q, t, a)'
    BY <1>2 DEF Withdraws, Saving, At, MaySave
  <2>2. QED
    BY <1>0, <2>1, TotalsCalm
<1>3. ASSUME NEW q \in Requests, Nears(q)
      PROVE  TotalsInv'
  <2>1. /\ Others(q) /\ Same /\ ~Saving(q)' /\ req'[q].at # "insert"
        /\ \A t \in Table, a \in Agents : MaySave(q, t, a)' => MaySave(q, t, a)
    BY <1>3 DEF Nears, Saving, At, MaySave
  <2>2. QED
    BY <1>0, <2>1, TotalsCalm
<1>4. ASSUME NEW q \in Requests, Misses(q) \/ Finds(q)
      PROVE  TotalsInv'
  <2>1. /\ Others(q) /\ Same /\ AddsUp(req'[q].t, req'[q].mem)
        /\ req'[q].at \in {"insert", "select"}
        /\ \A t \in Table, a \in Agents : MaySave(q, t, a)' => MaySave(q, t, a)
    BY <1>4 DEF Misses, Finds, Reaches, Saving, At, MaySave
  <2>2. Saving(q)' => Result(q)' = req'[q].mem
    BY <2>1 DEF Saving, Result, At
  <2>3. ~Saving(q)' \/ AddsUp(req'[q].t, Result(q)')
    BY <2>1, <2>2
  <2>4. QED
    BY <1>0, <2>1, <2>3, TotalsCalm
<1>5. ASSUME NEW q \in Requests, Compares(q)
      PROVE  TotalsInv'
  <2>1. Others(q) /\ Same
    BY <1>5 DEF Compares
  <2>2. QED
    BY <1>0, <1>5, <2>1, TotalsCompare, TotalsCalm
<1>6. ASSUME NEW q \in Requests, Leaves(q), Same, Saving(q)
      PROVE  TotalsInv'
  <2>1. /\ Others(q) /\ ~Saving(q)' /\ req'[q].at # "insert"
        /\ \A t \in Table, a \in Agents : MaySave(q, t, a)' => MaySave(q, t, a)
    BY <1>6, LeavesSavers DEF Leaves, Saving, At
  <2>2. QED
    BY <1>0, <1>6, <2>1, TotalsCalm
<1>7. QED
  BY Shapes, <1>0, <1>1, <1>2, <1>3, <1>4, <1>5, <1>6, TotalsBegin, TotalsInsert, TotalsUpdate

LEMMA TotalsStarts == Init => TotalsInv
<1> SUFFICES ASSUME Init PROVE TotalsInv
  OBVIOUS
<1>1. overlaps = 0 /\ \A q \in Requests : req[q].at = "idle"
  BY DEF Init, ServerInit, Idle
<1>2. ASSUME NEW t \in Table, NEW a \in Agents
      PROVE  Spoiled(t, a) = {} /\ Savers(t, a) = {}
  BY <1>1 DEF Init, Spoiled, Savers, MaySave, Saving, At
<1>3. ASSUME NEW t \in Table, NEW a \in Agents
      PROVE  /\ Cardinality(Spoiled(t, a)) <= overlaps
             /\ Cardinality(Spoiled(t, a)) + Cardinality(Savers(t, a)) <= 1 + overlaps
  <2>1. Cardinality(Spoiled(t, a)) = 0 /\ Cardinality(Savers(t, a)) = 0
    BY <1>2, FS_EmptySet
  <2>2. QED
    BY <1>1, <2>1
<1>4. \A q \in Requests : At(q, "insert") => AddsUp(req[q].t, req[q].mem)
  BY <1>1 DEF At
<1>5. QED
  BY <1>3, <1>4 DEF TotalsInv

\* A row's amount is that of its own columns, but in at most one row of an
\* agent for every request that has started while another was in flight.
THEOREM TotalsAlwaysAddUp == Spec => []TotalsAddUp
<1> DEFINE Inv == TypeOK /\ BusyInv /\ TotalsInv
<1>1. Init => Inv
  BY StartsTyped, BusyStarts, TotalsStarts
<1>2. Inv /\ [Next]_vars => Inv'
  BY TypesKept, BusyKept, TotalsKept
<1>3. Inv => TotalsAddUp
  <2> SUFFICES ASSUME Inv, NEW t \in Table, NEW a \in Agents
               PROVE  Cardinality({i \in DOMAIN rows[t][a] : ~AddsUp(t, rows[t][a][i])}) <= overlaps
    BY DEF TotalsAddUp
  <2>1. {i \in DOMAIN rows[t][a] : ~AddsUp(t, rows[t][a][i])} \in SUBSET Spoiled(t, a)
    BY DEF Spoiled
  <2>2. Cardinality(Spoiled(t, a)) <= overlaps /\ overlaps \in Nat
    BY DEF TotalsInv, TypeOK
  <2>3. QED
    BY <2>1, <2>2, TotalsFinite, Fewer
<1> HIDE DEF Inv
<1>4. QED
  BY <1>1, <1>2, <1>3, PTL DEF Spec

-----------------------------------------------------------------------------
(* The cache.                                                              *)

LEMMA GoAt ==
  ASSUME TypeOK, NEW q \in Requests, NEW r, Go(q, r)
  PROVE  Others(q) /\ req'[q] = r /\ UNCHANGED <<overlaps, deaths>>
<1>1. req'[q] = r /\ \A p \in Requests : p # q => req'[p] = req[p]
  BY Moves
<1>2. QED
  BY <1>1 DEF Others, Go

LEMMA AnswerAt ==
  ASSUME TypeOK, NEW q \in Requests, Answer(q)
  PROVE  Others(q) /\ req'[q].at = "idle" /\ UNCHANGED <<overlaps, deaths>>
<1>1. Idle.at = "idle"
  BY DEF Idle
<1>2. Go(q, Idle)
  BY DEF Answer
<1>3. QED
  BY <1>1, <1>2, GoAt

\* Where a generation, or a save, goes on.
LEMMA GoOnAt ==
  ASSUME TypeOK, NEW q \in Requests, NEW t, NEW run, GoOn(q, t, run)
  PROVE  Others(q) /\ req'[q].at \in {"idle", "find"} /\ UNCHANGED <<overlaps, deaths>>
<1>1. CASE Answer(q)
  BY <1>1, AnswerAt
<1>2. CASE Go(q, [at |-> "find", t |-> t, run |-> run])
  <2> DEFINE r == [at |-> "find", t |-> t, run |-> run]
  <2>1. Go(q, r) /\ r.at = "find"
    BY <1>2
  <2> HIDE DEF r
  <2>2. QED
    BY <2>1, GoAt
<1>3. QED
  BY <1>1, <1>2 DEF GoOn

LEMMA SavedAt ==
  ASSUME TypeOK, NEW q \in Requests, Saved(q)
  PROVE  Others(q) /\ req'[q].at \in {"idle", "find"} /\ UNCHANGED <<overlaps, deaths>>
<1>1. CASE Answer(q)
  BY <1>1, AnswerAt
<1>2. QED
  BY <1>1, GoOnAt DEF Saved

\* Steps that have nothing to do with the settings.
LEMMA CacheStays ==
  ASSUME TypeOK, CacheInv, NEW q \in Requests, Others(q), UNCHANGED <<settings, cache>>,
         overlaps' = 0 => overlaps = 0, deaths' = 0 => deaths = 0,
         req[q].at # "forget", req'[q].at \notin {"forget", "fill"}
  PROVE  CacheInv'
<1> SUFFICES ASSUME overlaps' = 0, deaths' = 0
             PROVE  /\ \A k \in Key : \/ cache'[k] \in {None, settings'[k]}
                                      \/ \E p \in Requests : req'[p].at = "forget" /\ req'[p].key = k
                    /\ \A p \in Requests : req'[p].at = "fill" =>
                         req'[p].value = settings'[KeyOf[req'[p].t]]
  BY DEF CacheInv, At
<1>1. /\ \A k \in Key : \/ cache[k] \in {None, settings[k]}
                        \/ \E p \in Requests : req[p].at = "forget" /\ req[p].key = k
      /\ \A p \in Requests : req[p].at = "fill" => req[p].value = settings[KeyOf[req[p].t]]
  BY DEF CacheInv, At
<1>2. ASSUME NEW k \in Key, cache'[k] \notin {None, settings'[k]}
      PROVE  \E p \in Requests : req'[p].at = "forget" /\ req'[p].key = k
  <2>1. PICK p \in Requests : req[p].at = "forget" /\ req[p].key = k
    BY <1>1, <1>2
  <2>2. p # q
    BY <2>1
  <2>3. QED
    BY <2>1, <2>2 DEF Others
<1>3. ASSUME NEW p \in Requests, req'[p].at = "fill"
      PROVE  req'[p].value = settings'[KeyOf[req'[p].t]]
  <2>1. p # q
    BY <1>3
  <2>2. req'[p] = req[p]
    BY <2>1 DEF Others
  <2>3. QED
    BY <1>1, <1>3, <2>2
<1>4. QED
  BY <1>2, <1>3

\* A step of the only request in flight.
LEMMA CacheAlone ==
  ASSUME TypeOK, BusyInv, CacheInv, NEW q \in Requests, Others(q), InFlight(q),
         overlaps' = overlaps,
         overlaps = 0 /\ deaths' = 0 =>
           /\ \A k \in Key : \/ cache'[k] \in {None, settings'[k]}
                             \/ req'[q].at = "forget" /\ req'[q].key = k
           /\ req'[q].at = "fill" => req'[q].value = settings'[KeyOf[req'[q].t]]
  PROVE  CacheInv'
<1> SUFFICES ASSUME overlaps' = 0, deaths' = 0
             PROVE  /\ \A k \in Key : \/ cache'[k] \in {None, settings'[k]}
                                      \/ \E p \in Requests : req'[p].at = "forget" /\ req'[p].key = k
                    /\ \A p \in Requests : req'[p].at = "fill" =>
                         req'[p].value = settings'[KeyOf[req'[p].t]]
  BY DEF CacheInv, At
<1>1. ASSUME NEW p \in Requests, req'[p].at = "fill"
      PROVE  p = q
  <2>1. ASSUME p # q
        PROVE  FALSE
    <3>1. req[p].at = "fill"
      BY <1>1, <2>1 DEF Others
    <3>2. InFlight(p)
      BY <3>1 DEF InFlight
    <3>3. QED
      BY <2>1, <3>2, BusyAlone
  <2>2. QED
    BY <2>1
<1>2. QED
  BY <1>1

LEMMA CacheKept == TypeOK /\ BusyInv /\ CacheInv /\ [Next]_vars => CacheInv'
<1> SUFFICES ASSUME TypeOK, BusyInv, CacheInv, [Next]_vars PROVE CacheInv'
  OBVIOUS
<1>0. overlaps \in Nat /\ overlaps' \in Nat /\ overlaps' >= overlaps /\ deaths \in Nat
  BY TypesKept, BusyKept DEF TypeOK
<1>a. overlaps' = 0 => overlaps = 0
  BY <1>0
<1>b. settings \in [Key -> Value] /\ cache \in [Key -> Value \cup {None}]
  BY DEF TypeOK
<1>c. ASSUME overlaps = 0, deaths = 0
      PROVE  /\ \A k \in Key : \/ cache[k] \in {None, settings[k]}
                               \/ \E p \in Requests : req[p].at = "forget" /\ req[p].key = k
             /\ \A p \in Requests : req[p].at = "fill" => req[p].value = settings[KeyOf[req[p].t]]
  BY <1>c DEF CacheInv, At
<1>1. ASSUME NEW q \in Requests, EditSettings(q)
      PROVE  CacheInv'
  <2>1. PICK r : Start(q, r) /\ r.at = "set"
    BY <1>1 DEF EditSettings
  <2>2. Others(q) /\ req'[q].at = "set" /\ req[q].at = "idle" /\ UNCHANGED deaths
    BY <2>1, Moves DEF Others, Start, InFlight
  <2>3. QED
    BY <1>1, <1>a, <2>2, CacheStays DEF EditSettings, data
<1>2. ASSUME NEW q \in Requests, SaveSetting(q)
      PROVE  CacheInv'
  <2>1. /\ req[q].at = "set" /\ Go(q, [req[q] EXCEPT !.at = "forget"]) /\ UNCHANGED cache
        /\ settings' = [settings EXCEPT ![req[q].key] = req[q].new[req[q].key]]
    BY <1>2 DEF SaveSetting, At
  <2>2. req[q] \in Step
    BY DEF TypeOK
  <2> DEFINE r == [req[q] EXCEPT !.at = "forget"]
  <2>3. r.at = "forget" /\ r.key = req[q].key /\ req[q].key \in Key
    BY <2>1, <2>2, SettingsMemory
  <2>4. Go(q, r)
    BY <2>1
  <2> HIDE DEF r
  <2>5. Others(q) /\ req'[q] = r /\ InFlight(q) /\ UNCHANGED <<overlaps, deaths>>
    BY <2>1, <2>4, Moves DEF Others, InFlight, Go
  <2>6. ASSUME overlaps = 0, deaths' = 0, NEW k \in Key, k # req[q].key
        PROVE  cache'[k] \in {None, settings'[k]}
    <3>1. settings'[k] = settings[k] /\ cache'[k] = cache[k]
      BY <1>b, <2>1, <2>6
    <3>2. \A p \in Requests : req[p].at # "forget"
      <4>1. ASSUME NEW p \in Requests, req[p].at = "forget"
            PROVE  FALSE
        <5>1. InFlight(p) /\ p # q
          BY <2>1, <4>1 DEF InFlight
        <5>2. QED
          BY <2>5, <2>6, <5>1, BusyAlone
      <4>2. QED
        BY <4>1
    <3>3. QED
      BY <1>c, <2>5, <2>6, <3>1, <3>2
  <2>7. QED
    BY <2>3, <2>5, <2>6, CacheAlone
<1>3. ASSUME NEW q \in Requests, ForgetSetting(q)
      PROVE  CacheInv'
  <2>1. /\ req[q].at = "forget" /\ cache' = [cache EXCEPT ![req[q].key] = None]
        /\ UNCHANGED settings
    BY <1>3 DEF ForgetSetting, At
  <2>2. req[q] \in Step
    BY DEF TypeOK
  <2> DEFINE left == req[q].left \ {req[q].key}
  <2>3. \A k \in left : [req[q] EXCEPT !.at = "set", !.left = left, !.key = k].at = "set"
    BY <2>1, <2>2, SettingsMemory
  <2>4. \/ Answer(q)
        \/ \E k \in left : Go(q, [req[q] EXCEPT !.at = "set", !.left = left, !.key = k])
    BY <1>3 DEF ForgetSetting
  <2> HIDE DEF left
  <2>5. Others(q) /\ req'[q].at \in {"idle", "set"} /\ UNCHANGED <<overlaps, deaths>>
    <3>1. CASE Answer(q)
      BY <3>1, AnswerAt
    <3>2. ASSUME NEW r, Go(q, r), r.at = "set"
          PROVE  Others(q) /\ req'[q].at \in {"idle", "set"} /\ UNCHANGED <<overlaps, deaths>>
      BY <3>2, Moves DEF Others, Go
    <3>3. QED
      BY <2>3, <2>4, <3>1, <3>2
  <2>6. InFlight(q)
    BY <2>1 DEF InFlight
  <2>7. ASSUME overlaps = 0, deaths' = 0, NEW k \in Key
        PROVE  cache'[k] \in {None, settings'[k]}
    <3>1. CASE k = req[q].key
      BY <1>b, <2>1, <3>1
    <3>2. CASE k # req[q].key
      <4>1. cache'[k] = cache[k]
        BY <1>b, <2>1, <3>2
      <4>2. ASSUME NEW p \in Requests, req[p].at = "forget"
            PROVE  req[p].key # k
        <5>1. InFlight(p)
          BY <4>2 DEF InFlight
        <5>2. p = q
          BY <2>6, <2>7, <5>1, BusyAlone
        <5>3. QED
          BY <3>2, <5>2
      <4>3. QED
        BY <1>c, <2>1, <2>5, <2>7, <4>1, <4>2
    <3>3. QED
      BY <3>1, <3>2
  <2>8. QED
    BY <2>5, <2>6, <2>7, CacheAlone
<1>4. ASSUME NEW q \in Requests, NEW t \in Table, Generate(q, t)
      PROVE  CacheInv'
  <2>1. PICK r : Start(q, r) /\ r.at \in {"fetch", "load"}
    BY <1>4 DEF Generate
  <2>2. Others(q) /\ req'[q].at \in {"fetch", "load"} /\ req[q].at = "idle" /\ UNCHANGED deaths
    BY <2>1, Moves DEF Others, Start, InFlight
  <2>3. QED
    BY <1>4, <1>a, <2>2, CacheStays DEF Generate, data
<1>5. ASSUME NEW q \in Requests, FetchSetting(q)
      PROVE  CacheInv'
  <2> DEFINE r == [at |-> "fill", t |-> req[q].t, value |-> settings[KeyOf[req[q].t]]]
  <2>1. /\ r.at = "fill" /\ r.t = req[q].t /\ r.value = settings[KeyOf[req[q].t]]
        /\ Go(q, r) /\ req[q].at = "fetch" /\ UNCHANGED <<settings, cache>>
    BY <1>5 DEF FetchSetting, At, data
  <2> HIDE DEF r
  <2>2. req'[q] = r /\ Others(q) /\ InFlight(q) /\ UNCHANGED <<overlaps, deaths>>
    BY <2>1, Moves DEF Others, Go, InFlight
  <2>3. ASSUME overlaps = 0, deaths' = 0, NEW k \in Key
        PROVE  cache'[k] \in {None, settings'[k]}
    <3>1. ASSUME NEW p \in Requests, req[p].at = "forget"
          PROVE  FALSE
      <4>1. InFlight(p) /\ p # q
        BY <2>1, <3>1 DEF InFlight
      <4>2. QED
        BY <2>2, <2>3, <4>1, BusyAlone
    <3>2. QED
      BY <1>c, <2>1, <2>2, <2>3, <3>1
  <2>4. QED
    BY <2>1, <2>2, <2>3, CacheAlone
<1>6. ASSUME NEW q \in Requests, FillCache(q)
      PROVE  CacheInv'
  <2>1. req[q].at = "fill" /\ UNCHANGED settings
        /\ cache' = [cache EXCEPT ![KeyOf[req[q].t]] = req[q].value]
    BY <1>6 DEF FillCache, At
  <2>2. req[q] \in Step
    BY DEF TypeOK
  <2> DEFINE r == [req[q] EXCEPT !.at = "load"]
  <2>3. r.at = "load" /\ req[q].t \in Table
    BY <2>1, <2>2, SettingMemory
  <2>4. Go(q, r)
    BY <1>6 DEF FillCache
  <2> HIDE DEF r
  <2>5. req'[q] = r /\ Others(q) /\ InFlight(q) /\ UNCHANGED <<overlaps, deaths>>
    BY <2>1, <2>4, Moves DEF Others, Go, InFlight
  <2>6. ASSUME overlaps = 0, deaths' = 0, NEW k \in Key
        PROVE  cache'[k] \in {None, settings'[k]}
    <3>1. CASE k = KeyOf[req[q].t]
      BY <1>b, <1>c, <2>1, <2>5, <2>6, <3>1
    <3>2. CASE k # KeyOf[req[q].t]
      <4>1. cache'[k] = cache[k]
        BY <1>b, <2>1, <3>2
      <4>2. ASSUME NEW p \in Requests, req[p].at = "forget"
            PROVE  FALSE
        <5>1. InFlight(p) /\ p # q
          BY <2>1, <4>2 DEF InFlight
        <5>2. QED
          BY <2>5, <2>6, <5>1, BusyAlone
      <4>3. QED
        BY <1>c, <2>1, <2>5, <2>6, <4>1, <4>2
    <3>3. QED
      BY <3>1, <3>2
  <2>7. QED
    BY <2>3, <2>5, <2>6, CacheAlone
<1>7. ASSUME NEW q \in Requests, LoadRevenue(q) \/ LoadIncentives(q)
      PROVE  CacheInv'
  <2>1. PICK t, run : GoOn(q, t, run)
    BY <1>7 DEF LoadRevenue, LoadIncentives
  <2>2. req[q].at = "load" /\ UNCHANGED <<settings, cache>>
    BY <1>7 DEF LoadRevenue, LoadIncentives, At, data
  <2>3. QED
    BY <2>1, <2>2, GoOnAt, CacheStays
<1>8. ASSUME NEW q \in Requests, FindNone(q) \/ FindRow(q)
      PROVE  CacheInv'
  <2>1. req[q].at = "find" /\ UNCHANGED <<settings, cache>>
    BY <1>8 DEF FindNone, FindRow, At, data
  <2>2. \/ \E t, run : GoOn(q, t, run)
        \/ \E r : Go(q, r) /\ r.at \in {"insert", "select"}
    <3>1. CASE FindNone(q)
      BY <3>1 DEF FindNone
    <3>2. CASE FindRow(q)
      <4> DEFINE t   == req[q].t
                 run == req[q].run
      <4>1. PICK a, i :
              IF Settled(rows[t][a][i]) THEN GoOn(q, t, [run EXCEPT !.left = @ \ {a}])
              ELSE \E mem \in Computed(t, run, a, OwnDeductions(t, rows[t][a][i])) :
                     Go(q, [at |-> "select", t |-> t, run |-> run, a |-> a, i |-> i,
                            mem |-> mem, dirty |-> {}])
        BY <3>2 DEF FindRow
      <4>2. CASE Settled(rows[t][a][i])
        BY <4>1, <4>2
      <4>3. CASE ~Settled(rows[t][a][i])
        <5>1. PICK mem : Go(q, [at |-> "select", t |-> t, run |-> run, a |-> a, i |-> i,
                                mem |-> mem, dirty |-> {}])
          BY <4>1, <4>3
        <5> DEFINE r == [at |-> "select", t |-> t, run |-> run, a |-> a, i |-> i,
                         mem |-> mem, dirty |-> {}]
        <5>2. Go(q, r) /\ r.at = "select"
          BY <5>1
        <5> HIDE DEF r
        <5>3. QED
          BY <5>2
      <4>4. QED
        BY <4>2, <4>3
    <3>3. QED
      BY <1>8, <3>1, <3>2
  <2>3. ASSUME NEW r, Go(q, r), r.at \in {"insert", "select"}
        PROVE  CacheInv'
    <3>1. req'[q] = r /\ Others(q) /\ UNCHANGED <<overlaps, deaths>>
      BY <2>3, Moves DEF Others, Go
    <3>2. QED
      BY <2>1, <2>3, <3>1, CacheStays
  <2>4. QED
    BY <2>1, <2>2, <2>3, GoOnAt, CacheStays
<1>9. ASSUME NEW q \in Requests, InsertRow(q)
      PROVE  CacheInv'
  <2>1. PICK t, run : GoOn(q, t, run)
    BY <1>9 DEF InsertRow
  <2>2. req[q].at = "insert" /\ UNCHANGED <<settings, cache>>
    BY <1>9 DEF InsertRow, At
  <2>3. QED
    BY <2>1, <2>2, GoOnAt, CacheStays
<1>10. ASSUME NEW q \in Requests, SelectRow(q)
       PROVE  CacheInv'
  <2>1. req[q] \in Step /\ req[q].at = "select" /\ UNCHANGED <<settings, cache>>
    BY <1>10 DEF SelectRow, At, data, TypeOK
  <2> DEFINE diff == {c \in DOMAIN req[q].mem : req[q].mem[c] # rows[req[q].t][req[q].a][req[q].i][c]}
             r    == [req[q] EXCEPT !.at = "update", !.dirty = diff]
  <2>2. Saved(q) \/ Go(q, r)
    BY <1>10 DEF SelectRow
  <2>3. r.at = "update"
    BY <2>1, SaveMemory
  <2> HIDE DEF r
  <2>4. CASE Saved(q)
    BY <2>1, <2>4, SavedAt, CacheStays
  <2>5. CASE Go(q, r)
    <3>1. req'[q] = r /\ Others(q) /\ UNCHANGED <<overlaps, deaths>>
      BY <2>5, Moves DEF Others, Go
    <3>2. QED
      BY <2>1, <2>3, <3>1, CacheStays
  <2>6. QED
    BY <2>2, <2>4, <2>5
<1>11. ASSUME NEW q \in Requests, UpdateRow(q)
       PROVE  CacheInv'
  <2>1. req[q].at = "update" /\ UNCHANGED <<settings, cache>> /\ Saved(q)
    BY <1>11 DEF UpdateRow, At
  <2>2. QED
    BY <2>1, SavedAt, CacheStays
<1>12. ASSUME NEW q \in Requests, NEW a \in Agents, UpdateIncentive(q, a) \/ UpdateSalary(q, a)
       PROVE  CacheInv'
  <2>1. PICK r : Start(q, r) /\ r.at = "select"
    <3>1. PICK t, i, mem :
            Start(q, [at |-> "select", t |-> t, run |-> None, a |-> a, i |-> i,
                      mem |-> mem, dirty |-> {}])
      BY <1>12, DecidedRow
    <3> DEFINE r == [at |-> "select", t |-> t, run |-> None, a |-> a, i |-> i,
                     mem |-> mem, dirty |-> {}]
    <3>2. Start(q, r) /\ r.at = "select"
      BY <3>1
    <3> HIDE DEF r
    <3>3. QED
      BY <3>2
  <2>2. Others(q) /\ req'[q].at = "select" /\ req[q].at = "idle" /\ UNCHANGED deaths
    BY <2>1, Moves DEF Others, Start, InFlight
  <2>3. QED
    BY <1>12, <1>a, <2>2, CacheStays DEF UpdateIncentive, UpdateSalary, data
<1>13. ASSUME NEW q \in Requests, Crash(q)
       PROVE  CacheInv'
  <2>1. deaths' # 0
    BY <1>0, <1>13 DEF Crash, Die
  <2>2. QED
    BY <2>1 DEF CacheInv
<1>14. ASSUME NEW a \in Agents, Earn(a)
       PROVE  CacheInv'
  BY <1>14 DEF Earn, server, CacheInv, At
<1>15. ASSUME NEW k \in Key, Expire(k)
       PROVE  CacheInv'
  <2>1. UNCHANGED <<req, overlaps, deaths, settings>> /\ cache' = [cache EXCEPT ![k] = None]
    BY <1>15 DEF Expire, server
  <2>2. \A l \in Key : cache'[l] = IF l = k THEN None ELSE cache[l]
    BY <1>b, <2>1
  <2>3. QED
    BY <2>1, <2>2 DEF CacheInv, At
<1>16. CASE UNCHANGED vars
  BY <1>16 DEF vars, server, CacheInv, At
<1>17. QED
  BY EveryStep, <1>1, <1>2, <1>3, <1>4, <1>5, <1>6, <1>7, <1>8, <1>9, <1>10, <1>11, <1>12,
     <1>13, <1>14, <1>15, <1>16

LEMMA CacheStarts == Init => CacheInv
<1> SUFFICES ASSUME Init PROVE CacheInv
  OBVIOUS
<1>1. \A q \in Requests : req[q].at = "idle"
  BY DEF Init, ServerInit, Idle
<1>2. \A k \in Key : cache[k] = None
  BY DEF Init
<1>3. QED
  BY <1>1, <1>2 DEF CacheInv, At

\* An edit is in force when it is answered: as long as no request has overlapped
\* another one or died, the cache has nothing the table does not have.
THEOREM EditAlwaysInForce == Spec => []EditInForce
<1> DEFINE Inv == TypeOK /\ BusyInv /\ CacheInv
<1>1. Init => Inv
  BY StartsTyped, BusyStarts, CacheStarts
<1>2. Inv /\ [Next]_vars => Inv'
  BY TypesKept, BusyKept, CacheKept
<1>3. Inv => EditInForce
  <2> SUFFICES ASSUME Inv, overlaps = 0, deaths = 0, Quiet, NEW k \in Key
               PROVE  cache[k] \in {None, settings[k]}
    BY DEF EditInForce
  <2>1. \A q \in Requests : ~At(q, "forget")
    BY DEF Quiet, InFlight, At
  <2>2. QED
    BY <2>1 DEF CacheInv
<1> HIDE DEF Inv
<1>4. QED
  BY <1>1, <1>2, <1>3, PTL DEF Spec
=============================================================================
