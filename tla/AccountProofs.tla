--------------------------- MODULE AccountProofs ---------------------------
(***************************************************************************)
(* What holds of Accounts for any number of admins, passwords, codes,      *)
(* tokens and concurrent requests.                                         *)
(***************************************************************************)
EXTENDS Accounts, ServerProofs

Column == DOMAIN [age |-> 0, attempts |-> 0, verified |-> 0]

\* What a request has in its memory, by the steps it may be at.
SavingCode ==
  [at: {"selectCode", "updateCode"}, i: Nat \ {0}, mem: Code, dirty: SUBSET Column,
   op: {"expire", "wrong", "right"}]
Plain ==
  [at: {"insertCode", "findUser", "insertUser", "findProfile", "insertProfile"}]
Opening ==
  [at: {"build", "issue"}, s: Subject, password: Passwords \cup {Unused}, login: BOOLEAN]
Revoking == [at: {"retire", "revoke"}, i: Nat \ {0}]
RevokingAll == [at: {"revokeAll"}, s: Subject]
SavingAccount ==
  [at: {"selectAccount", "updateAccount"}, s: Subject, mem: Account,
   dirty: SUBSET {"active", "password"}, op: {"edit", "password", "restore", "remove"}]

LEMMA StepSplit ==
  Step = {Idle} \cup SavingCode \cup Plain \cup Opening \cup Revoking \cup RevokingAll
           \cup SavingAccount
BY DEF Step, SavingCode, Plain, Opening, Revoking, RevokingAll, SavingAccount, Column

LEMMA ColumnIs == Column = {"age", "attempts", "verified"}
BY DEF Column

\* The rows a request is about are there.
There(r) ==
  /\ r.at \in {"selectCode", "updateCode"} => r.i \in 1..Len(codes)
  /\ r.at \in {"retire", "revoke"} => r.i \in 1..Len(tokens)
  /\ r.at \in {"selectAccount", "updateAccount"} => accounts[r.s] # NoRow

RowsTyped ==
  /\ app \in {"user", "admin"}
  /\ accounts \in [Subject -> Account \cup {NoRow}]
  /\ profile \in BOOLEAN
  /\ codes \in Seq(Code) /\ Len(codes) <= MaxCodes
  /\ tokens \in Seq(Token)
  /\ guesses \in Seq(Nat) /\ Len(guesses) = Len(codes)
  /\ logins \in Nat

TypeInv == RowsTyped /\ ServerTyped(Step) /\ \A q \in Requests : There(req[q])

LEMMA TypeSplit == TypeInv <=> TypeOK /\ \A q \in Requests : There(req[q])
BY DEF TypeInv, TypeOK, RowsTyped, ServerTyped

\* Rows are changed in place and appended, never taken back.
RowsKept ==
  /\ Len(codes) <= Len(codes') /\ Len(tokens) <= Len(tokens')
  /\ \A s \in Subject : accounts[s] # NoRow => accounts'[s] # NoRow

LEMMA Memory ==
  ASSUME TypeInv, NEW q \in Requests
  PROVE  /\ req[q].at \in {"selectCode", "updateCode"} =>
              req[q] \in SavingCode /\ req[q].i \in 1..Len(codes)
         /\ req[q].at \in {"build", "issue"} => req[q] \in Opening
         /\ req[q].at \in {"retire", "revoke"} =>
              req[q] \in Revoking /\ req[q].i \in 1..Len(tokens)
         /\ At(q, "revokeAll") => req[q] \in RevokingAll
         /\ req[q].at \in {"selectAccount", "updateAccount"} =>
              req[q] \in SavingAccount /\ accounts[req[q].s] \in Account
<1>1. req[q] \in Step
  BY DEF TypeInv, ServerTyped
<1>2. Idle.at = "idle"
  BY DEF Idle
<1>3. /\ req[q].at \in {"selectCode", "updateCode"} => req[q] \in SavingCode
      /\ req[q].at \in {"build", "issue"} => req[q] \in Opening
      /\ req[q].at \in {"retire", "revoke"} => req[q] \in Revoking
      /\ At(q, "revokeAll") => req[q] \in RevokingAll
      /\ req[q].at \in {"selectAccount", "updateAccount"} => req[q] \in SavingAccount
  BY <1>1, <1>2, StepSplit
     DEF SavingCode, Plain, Opening, Revoking, RevokingAll, SavingAccount, At
<1>4. There(req[q])
  BY DEF TypeInv
<1>5. req[q].at \in {"selectAccount", "updateAccount"} => accounts[req[q].s] \in Account
  BY <1>3, <1>4 DEF There, TypeInv, RowsTyped, SavingAccount
<1>6. QED
  BY <1>3, <1>4, <1>5 DEF There

\* The rows r is about are there after a step.
ThereAfter(r) ==
  /\ r.at \in {"selectCode", "updateCode"} => r.i \in 1..Len(codes')
  /\ r.at \in {"retire", "revoke"} => r.i \in 1..Len(tokens')
  /\ r.at \in {"selectAccount", "updateAccount"} => accounts'[r.s] # NoRow

LEMMA IdleThere == Idle \in Step /\ There(Idle) /\ ThereAfter(Idle)
BY StepSplit DEF Idle, There, ThereAfter

\* One request goes from one step to another.
LEMMA OneMoves ==
  ASSUME TypeInv, RowsTyped', RowsKept, ServerTyped(Step)', NEW q \in Requests,
         NEW r, req'[q] = r, \A p \in Requests \ {q} : req'[p] = req[p], ThereAfter(r)
  PROVE  TypeInv'
<1>1. ASSUME NEW p \in Requests PROVE There(req[p])'
  <2>1. CASE p = q
    BY <2>1 DEF There, ThereAfter
  <2>2. CASE p # q
    <3>1. req'[p] = req[p] /\ There(req[p]) /\ req[p] \in Step
      BY <2>2 DEF TypeInv, ServerTyped
    <3>2. req[p].at \in {"selectAccount", "updateAccount"} => req[p].s \in Subject
      BY Memory DEF SavingAccount
    <3>3. /\ Len(codes) \in Nat /\ Len(tokens) \in Nat
          /\ Len(codes') \in Nat /\ Len(tokens') \in Nat
      BY DEF TypeInv, RowsTyped
    <3>4. 1..Len(codes) \subseteq 1..Len(codes') /\ 1..Len(tokens) \subseteq 1..Len(tokens')
      BY <3>3 DEF RowsKept
    <3>5. QED
      BY <3>1, <3>2, <3>4 DEF There, RowsKept
  <2>3. QED
    BY <2>1, <2>2
<1>2. QED
  BY <1>1 DEF TypeInv

LEMMA StartInv ==
  ASSUME TypeInv, NEW q \in Requests, NEW r \in Step, There(r), Start(q, r), UNCHANGED data
  PROVE  TypeInv'
<1>1. RowsTyped' /\ RowsKept /\ ThereAfter(r)
  BY DEF TypeInv, RowsTyped, RowsKept, There, ThereAfter, data
<1>2. ServerTyped(Step)'
  BY StartTyped DEF TypeInv
<1>3. req'[q] = r /\ \A p \in Requests \ {q} : req'[p] = req[p]
  BY DEF Start, TypeInv, ServerTyped
<1>4. QED
  BY <1>1, <1>2, <1>3, OneMoves

LEMMA GoInv ==
  ASSUME TypeInv, NEW q \in Requests, NEW r \in Step, ThereAfter(r), Go(q, r),
         RowsTyped', RowsKept
  PROVE  TypeInv'
<1>1. ServerTyped(Step)'
  BY GoTyped DEF TypeInv
<1>2. req'[q] = r /\ \A p \in Requests \ {q} : req'[p] = req[p]
  BY DEF Go, TypeInv, ServerTyped
<1>3. QED
  BY <1>1, <1>2, OneMoves

LEMMA AnswerInv ==
  ASSUME TypeInv, NEW q \in Requests, Answer(q), RowsTyped', RowsKept
  PROVE  TypeInv'
BY IdleThere, GoInv DEF Answer

LEMMA DataKept ==
  ASSUME TypeInv, UNCHANGED data
  PROVE  RowsTyped' /\ RowsKept
BY DEF TypeInv, RowsTyped, RowsKept, data

\* Columns of one row written over another of its type.
LEMMA CodeWritten ==
  ASSUME NEW row \in Code, NEW mem \in Code, NEW cols
  PROVE  Overwrite(row, mem, cols) \in Code /\ Differing(row, mem) \in SUBSET Column
BY ColumnIs DEF Overwrite, Differing, Code

LEMMA AccountWritten ==
  ASSUME NEW row \in Account, NEW mem \in Account, NEW cols
  PROVE  /\ Overwrite(row, mem, cols) \in Account
         /\ Differing(row, mem) \in SUBSET {"active", "password"}
BY DEF Overwrite, Differing, Account

LEMMA SeqUpdated ==
  ASSUME NEW T, NEW s \in Seq(T), NEW i \in 1..Len(s), NEW x \in T
  PROVE  [s EXCEPT ![i] = x] \in Seq(T) /\ Len([s EXCEPT ![i] = x]) = Len(s)
OBVIOUS

-----------------------------------------------------------------------------
(* The types.                                                              *)

LEMMA CodeRoutesInv ==
  ASSUME TypeInv, AccountsAssumption, NEW q \in Requests, OtpRoutes(q)
  PROVE  TypeInv'
<1>1. CASE SendOtp(q)
  <2>1. CASE Start(q, [at |-> "insertCode"])
    <3>1. [at |-> "insertCode"] \in Step /\ There([at |-> "insertCode"])
      BY StepSplit DEF Plain, There
    <3>2. QED
      BY <1>1, <2>1, <3>1, StartInv DEF SendOtp
  <2>2. ASSUME NEW i \in Newest(Valid),
               Start(q, [at |-> "selectCode", i |-> i, dirty |-> {}, op |-> "expire",
                         mem |-> [codes[i] EXCEPT !.age = "expired"]])
        PROVE  TypeInv'
    <3> DEFINE r == [at |-> "selectCode", i |-> i, dirty |-> {}, op |-> "expire",
                     mem |-> [codes[i] EXCEPT !.age = "expired"]]
    <3>1. i \in 1..Len(codes) /\ codes[i] \in Code
      BY DEF Newest, Valid, Unverified, TypeInv, RowsTyped
    <3>2. [codes[i] EXCEPT !.age = "expired"] \in Code
      BY <3>1 DEF Code
    <3>3. r \in SavingCode /\ There(r)
      BY <3>1, <3>2 DEF SavingCode, There
    <3>4. QED
      BY <1>1, <2>2, <3>3, StepSplit, StartInv DEF SendOtp
  <2>3. QED
    BY <1>1, <2>1, <2>2 DEF SendOtp
<1>2. CASE VerifyOtp(q)
  <2>1. PICK i \in Newest(Unverified), op \in {"right", "wrong"} :
          /\ codes[i].attempts < MaxAttempts
          /\ Start(q, [at |-> "selectCode", i |-> i, dirty |-> {}, op |-> op,
                       mem |-> [codes[i] EXCEPT !.attempts = @ + 1,
                                                !.verified = op = "right"]])
          /\ guesses' = [guesses EXCEPT ![i] = @ + 1]
    BY <1>2 DEF VerifyOtp
  <2> DEFINE mem == [codes[i] EXCEPT !.attempts = @ + 1, !.verified = op = "right"]
             r   == [at |-> "selectCode", i |-> i, dirty |-> {}, op |-> op, mem |-> mem]
  <2>2. i \in 1..Len(codes) /\ codes[i] \in Code
    BY DEF Newest, Unverified, TypeInv, RowsTyped
  <2>3. mem \in Code
    <3>1. codes[i].attempts + 1 \in Nat /\ (op = "right") \in BOOLEAN
      BY <2>2 DEF Code
    <3>2. QED
      BY <2>2, <3>1 DEF Code
  <2>4. r \in Step
    BY <2>2, <2>3, StepSplit DEF SavingCode
  <2>5. i \in 1..Len(guesses) /\ guesses \in Seq(Nat) /\ guesses[i] + 1 \in Nat
    BY <2>2 DEF TypeInv, RowsTyped
  <2>6. guesses' \in Seq(Nat) /\ Len(guesses') = Len(codes)
    BY <2>1, <2>5, SeqUpdated DEF TypeInv, RowsTyped
  <2>7. RowsTyped' /\ RowsKept
    BY <1>2, <2>6 DEF VerifyOtp, TypeInv, RowsTyped, RowsKept
  <2>8. ServerTyped(Step)'
    BY <2>1, <2>4, StartTyped DEF TypeInv
  <2>9. req'[q] = r /\ \A p \in Requests \ {q} : req'[p] = req[p]
    BY <2>1 DEF Start, TypeInv, ServerTyped
  <2>10. ThereAfter(r)
    BY <1>2, <2>2 DEF ThereAfter, VerifyOtp
  <2>11. QED
    BY <2>7, <2>8, <2>9, <2>10, OneMoves
<1>3. QED
  BY <1>1, <1>2 DEF OtpRoutes

LEMMA RefreshInv ==
  ASSUME TypeInv, NEW q \in Requests, Refresh(q) \/ Logout(q)
  PROVE  TypeInv'
<1>1. PICK i \in Live, at \in {"retire", "revoke"} :
        Start(q, [at |-> at, i |-> i]) /\ UNCHANGED data
  BY DEF Refresh, Logout
<1>2. i \in 1..Len(tokens) /\ i \in Nat \ {0}
  BY DEF Live, TypeInv, RowsTyped
<1>3. [at |-> at, i |-> i] \in Step /\ There([at |-> at, i |-> i])
  BY <1>2, StepSplit DEF Revoking, There
<1>4. QED
  BY <1>1, <1>3, StartInv

LEMMA LogoutAllInv ==
  ASSUME TypeInv, NEW q \in Requests, NEW s \in Subject, LogoutAll(q, s)
  PROVE  TypeInv'
<1>1. [at |-> "revokeAll", s |-> s] \in Step /\ There([at |-> "revokeAll", s |-> s])
  BY StepSplit DEF RevokingAll, There
<1>2. QED
  BY <1>1, StartInv DEF LogoutAll

LEMMA SessionRoutesInv ==
  ASSUME TypeInv, NEW q \in Requests, SessionRoutes(q)
  PROVE  TypeInv'
BY RefreshInv, LogoutAllInv DEF SessionRoutes, Subject

LEMMA LoginInv ==
  ASSUME TypeInv, NEW q \in Requests, NEW s \in Admins, Login(q, s)
  PROVE  TypeInv'
<1> DEFINE r == Session(s, accounts[s].password, TRUE)
<1>1. s \in Subject /\ accounts[s] \in Account
  BY DEF Subject, Login, Active, Exists, TypeInv, RowsTyped
<1>2. r \in Step /\ There(r)
  BY <1>1, StepSplit DEF Session, Opening, Account, There
<1>3. QED
  BY <1>2, StartInv DEF Login

\* An account loaded, and saved as another one of its type.
LEMMA EditInv ==
  ASSUME TypeInv, NEW q \in Requests, NEW s \in Subject, accounts[s] \in Account,
         NoRowAssumption, NEW mem \in Account,
         NEW op \in {"edit", "password", "restore", "remove"}, Edit(q, s, mem, op)
  PROVE  TypeInv'
<1> DEFINE r == [at |-> "selectAccount", s |-> s, mem |-> mem, dirty |-> {}, op |-> op]
<1>1. r \in SavingAccount
  BY DEF SavingAccount
<1>2. r \in Step /\ There(r)
  BY <1>1, StepSplit, NoRowAssumption DEF There
<1>3. QED
  BY <1>2, StartInv DEF Edit

LEMMA AccountIs ==
  ASSUME TypeInv, NEW s \in Subject, Exists(s)
  PROVE  /\ accounts[s] \in Account
         /\ \A b \in BOOLEAN : [accounts[s] EXCEPT !.active = b] \in Account
         /\ \A new \in Passwords : [accounts[s] EXCEPT !.password = new] \in Account
BY DEF Exists, TypeInv, RowsTyped, Account

LEMMA ResetInv ==
  ASSUME TypeInv, NoRowAssumption, NEW q \in Requests, NEW s \in Admins, Exists(s),
         Reset(q, s)
  PROVE  TypeInv'
<1>1. PICK new \in Passwords :
        Edit(q, s, [accounts[s] EXCEPT !.password = new], "password")
  BY DEF Reset
<1>2. s \in Subject /\ accounts[s] \in Account
        /\ [accounts[s] EXCEPT !.password = new] \in Account
  BY AccountIs DEF Subject
<1>3. QED
  BY <1>1, <1>2, EditInv

LEMMA CustomerRoutesInv ==
  ASSUME TypeInv, NoRowAssumption, NEW q \in Requests, ProfileRoutes(q) \/ CustomerRoutes(q)
  PROVE  TypeInv'
<1>1. PICK mem \in {accounts[User], [accounts[User] EXCEPT !.active = FALSE],
                    [accounts[User] EXCEPT !.active = TRUE]},
           op \in {"edit", "password", "restore", "remove"} : Edit(q, User, mem, op)
  BY DEF ProfileRoutes, CustomerRoutes, UpdateProfile, UpdateCustomer, BlockCustomer,
         UnblockCustomer
<1>2. Exists(User) /\ User \in Subject
  BY DEF ProfileRoutes, CustomerRoutes, UpdateProfile, UpdateCustomer, BlockCustomer,
         UnblockCustomer, Acting, Active, Subject
<1>3. accounts[User] \in Account /\ mem \in Account
  BY <1>2, AccountIs
<1>4. QED
  BY <1>1, <1>2, <1>3, EditInv

LEMMA AdminRoutesInv ==
  ASSUME TypeInv, NoRowAssumption, NEW q \in Requests, AdminRoutes(q)
  PROVE  TypeInv'
<1>1. PICK actor \in Admins, s \in Admins :
        UpdateAdmin(q, actor, s) \/ DeactivateAdmin(q, actor, s) \/ ActivateAdmin(q, actor, s)
  BY DEF AdminRoutes
<1>2. s \in Subject
  BY DEF Subject
<1>3. CASE UpdateAdmin(q, actor, s)
  <2>1. CASE Reset(q, s)
    BY <1>3, <2>1, ResetInv DEF UpdateAdmin
  <2>2. CASE Edit(q, s, accounts[s], "edit")
    BY <1>2, <1>3, <2>2, AccountIs, EditInv DEF UpdateAdmin
  <2>3. QED
    BY <1>3, <2>1, <2>2 DEF UpdateAdmin
<1>4. CASE DeactivateAdmin(q, actor, s)
  <2>1. Exists(s) /\ Edit(q, s, [accounts[s] EXCEPT !.active = FALSE], "remove")
    BY <1>4 DEF DeactivateAdmin, Active
  <2>2. QED
    BY <1>2, <2>1, AccountIs, EditInv
<1>5. CASE ActivateAdmin(q, actor, s)
  <2>1. Exists(s) /\ Edit(q, s, [accounts[s] EXCEPT !.active = TRUE], "restore")
    BY <1>5 DEF ActivateAdmin
  <2>2. QED
    BY <1>2, <2>1, AccountIs, EditInv
<1>6. QED
  BY <1>1, <1>3, <1>4, <1>5

LEMMA AdminAuthRoutesInv ==
  ASSUME TypeInv, NoRowAssumption, NEW q \in Requests, AdminAuthRoutes(q)
  PROVE  TypeInv'
<1>1. ASSUME NEW s \in Admins, ChangePassword(q, s) PROVE TypeInv'
  BY <1>1, ResetInv DEF ChangePassword, Acting, Active
<1>2. ASSUME NEW s \in Admins, LogoutAll(q, s) PROVE TypeInv'
  BY <1>2, LogoutAllInv DEF Subject
<1>3. QED
  BY <1>1, <1>2, LoginInv, RefreshInv DEF AdminAuthRoutes

\* The step after a code is saved.
LEMMA CodeSavedInv ==
  ASSUME TypeInv, RowsTyped', RowsKept, NEW q \in Requests, req[q] \in SavingCode,
         CodeSaved(q)
  PROVE  TypeInv'
<1>1. \/ \E at \in {"insertCode", "findUser"} : Go(q, [at |-> at])
      \/ Answer(q)
  BY DEF CodeSaved, SavingCode
<1>2. ASSUME NEW at \in {"insertCode", "findUser"} 
      PROVE  [at |-> at] \in Step /\ ThereAfter([at |-> at])
  BY StepSplit DEF Plain, ThereAfter
<1>3. QED
  BY <1>1, <1>2, GoInv, AnswerInv

LEMMA SelectCodeInv ==
  ASSUME TypeInv, NEW q \in Requests, SelectCode(q)
  PROVE  TypeInv'
<1> DEFINE diff == Differing(codes[req[q].i], req[q].mem)
           r    == [req[q] EXCEPT !.at = "updateCode", !.dirty = diff]
<1>1. req[q] \in SavingCode /\ req[q].i \in 1..Len(codes)
  BY Memory DEF SelectCode, At
<1>2. RowsTyped' /\ RowsKept
  BY DataKept DEF SelectCode
<1>3. CASE CodeSaved(q)
  BY <1>1, <1>2, <1>3, CodeSavedInv
<1>4. CASE Go(q, r)
  <2>1. codes[req[q].i] \in Code /\ req[q].mem \in Code
    BY <1>1 DEF SavingCode, TypeInv, RowsTyped
  <2>2. diff \in SUBSET Column
    BY <2>1, CodeWritten
  <2>3. r \in SavingCode /\ r.i = req[q].i /\ r.at = "updateCode"
    BY <1>1, <2>2 DEF SavingCode
  <2>4. ThereAfter(r)
    BY <1>1, <2>3 DEF ThereAfter, SelectCode, data
  <2>5. QED
    BY <1>2, <1>4, <2>3, <2>4, StepSplit, GoInv
<1>5. QED
  BY <1>3, <1>4 DEF SelectCode

LEMMA UpdateCodeInv ==
  ASSUME TypeInv, NEW q \in Requests, UpdateCode(q)
  PROVE  TypeInv'
<1>1. req[q] \in SavingCode /\ req[q].i \in 1..Len(codes)
  BY Memory DEF UpdateCode, At
<1>2. codes[req[q].i] \in Code /\ req[q].mem \in Code /\ codes \in Seq(Code)
  BY <1>1 DEF SavingCode, TypeInv, RowsTyped
<1> DEFINE row == Overwrite(codes[req[q].i], req[q].mem, req[q].dirty)
<1>3. row \in Code
  BY <1>2, CodeWritten
<1> HIDE DEF row
<1>4. codes' = [codes EXCEPT ![req[q].i] = row]
  BY DEF UpdateCode, row
<1>5. codes' \in Seq(Code) /\ Len(codes') = Len(codes)
  BY <1>1, <1>2, <1>3, <1>4, SeqUpdated
<1>6. RowsTyped' /\ RowsKept
  BY <1>5 DEF UpdateCode, TypeInv, RowsTyped, RowsKept
<1>7. QED
  BY <1>1, <1>6, CodeSavedInv DEF UpdateCode

LEMMA InsertCodeInv ==
  ASSUME TypeInv, AccountsAssumption, NEW q \in Requests, InsertCode(q)
  PROVE  TypeInv'
<1> DEFINE row == [age |-> "fresh", attempts |-> 0, verified |-> FALSE]
<1>1. row \in Code
  BY DEF Code
<1> HIDE DEF row
<1>2. codes' = Append(codes, row) /\ guesses' = Append(guesses, 0)
  BY DEF InsertCode, row
<1>3. /\ codes' \in Seq(Code) /\ Len(codes') = Len(codes) + 1
      /\ guesses' \in Seq(Nat) /\ Len(guesses') = Len(guesses) + 1
  BY <1>1, <1>2 DEF TypeInv, RowsTyped
<1>4. Len(codes) \in Nat /\ Len(codes) < MaxCodes /\ MaxCodes \in Nat
  BY DEF InsertCode, TypeInv, RowsTyped, AccountsAssumption
<1>5. RowsTyped' /\ RowsKept
  BY <1>3, <1>4 DEF InsertCode, TypeInv, RowsTyped, RowsKept
<1>6. QED
  BY <1>5, AnswerInv DEF InsertCode

LEMMA UserInv ==
  ASSUME TypeInv, NoRowAssumption, NEW q \in Requests,
         FindUser(q) \/ InsertUser(q) \/ FindProfile(q) \/ InsertProfile(q)
  PROVE  TypeInv'
<1>1. RowsTyped' /\ RowsKept
  <2>1. CASE UNCHANGED data
    BY <2>1, DataKept
  <2>2. CASE InsertUser(q) /\ accounts' # accounts
    <3> DEFINE row == [active |-> TRUE, password |-> Unused]
    <3>1. row \in Account
      BY DEF Account
    <3>2. User \in Subject
      BY DEF Subject
    <3> HIDE DEF row
    <3>3. accounts' = [accounts EXCEPT ![User] = row] /\ row # NoRow
      BY <2>2, <3>1, NoRowAssumption DEF InsertUser, row
    <3>4. accounts' \in [Subject -> Account \cup {NoRow}]
      BY <3>1, <3>2, <3>3 DEF TypeInv, RowsTyped
    <3>5. \A s \in Subject : accounts[s] # NoRow => accounts'[s] # NoRow
      BY <3>2, <3>3 DEF TypeInv, RowsTyped
    <3>6. QED
      BY <2>2, <3>4, <3>5 DEF InsertUser, TypeInv, RowsTyped, RowsKept
  <2>3. CASE InsertProfile(q)
    BY <2>3 DEF InsertProfile, TypeInv, RowsTyped, RowsKept
  <2>4. QED
    BY <2>1, <2>2, <2>3 DEF FindUser, InsertUser, FindProfile, InsertProfile, data
<1>2. \/ Answer(q)
      \/ \E at \in {"insertUser", "findProfile", "insertProfile"} : Go(q, [at |-> at])
      \/ Go(q, Session(User, Unused, TRUE))
  BY DEF FindUser, InsertUser, FindProfile, InsertProfile
<1>3. ASSUME NEW at \in {"insertUser", "findProfile", "insertProfile"}
      PROVE  [at |-> at] \in Step /\ ThereAfter([at |-> at])
  BY StepSplit DEF Plain, ThereAfter
<1>4. Session(User, Unused, TRUE) \in Step /\ ThereAfter(Session(User, Unused, TRUE))
  BY StepSplit DEF Session, Opening, Subject, ThereAfter
<1>5. QED
  BY <1>1, <1>2, <1>3, <1>4, GoInv, AnswerInv

LEMMA BuildInv ==
  ASSUME TypeInv, NEW q \in Requests, Build(q)
  PROVE  TypeInv'
<1> DEFINE r == [req[q] EXCEPT !.at = "issue"]
<1>1. req[q] \in Opening
  BY Memory DEF Build, At
<1>2. r \in Opening /\ r.at = "issue"
  BY <1>1 DEF Opening
<1>3. r \in Step /\ ThereAfter(r)
  BY <1>2, StepSplit DEF ThereAfter
<1>4. QED
  BY <1>3, DataKept, GoInv, AnswerInv DEF Build

LEMMA IssueSessionInv ==
  ASSUME TypeInv, NEW q \in Requests, IssueSession(q)
  PROVE  TypeInv'
<1> DEFINE row == [owner |-> req[q].s, password |-> req[q].password, live |-> TRUE]
<1>1. req[q] \in Opening
  BY Memory DEF IssueSession, At
<1>2. row \in Token
  BY <1>1 DEF Opening, Token
<1> HIDE DEF row
<1>3. tokens' = Append(tokens, row)
  BY DEF IssueSession, row
<1>4. tokens' \in Seq(Token) /\ Len(tokens') = Len(tokens) + 1
  BY <1>2, <1>3 DEF TypeInv, RowsTyped
<1>5. logins' \in Nat
  BY DEF IssueSession, TypeInv, RowsTyped
<1>6. Len(tokens) \in Nat /\ Len(codes) \in Nat
  BY DEF TypeInv, RowsTyped
<1>7. RowsTyped' /\ RowsKept
  BY <1>4, <1>5, <1>6 DEF IssueSession, TypeInv, RowsTyped, RowsKept
<1>8. QED
  BY <1>7, AnswerInv DEF IssueSession

\* One token is revoked.
LEMMA TokenRevoked ==
  ASSUME TypeInv, NEW i \in 1..Len(tokens), tokens' = [tokens EXCEPT ![i].live = FALSE],
         UNCHANGED <<app, accounts, profile, codes, guesses, logins>>
  PROVE  RowsTyped' /\ RowsKept /\ Len(tokens') = Len(tokens)
<1> DEFINE row == [tokens[i] EXCEPT !.live = FALSE]
<1>1. tokens[i] \in Token /\ tokens \in Seq(Token)
  BY DEF TypeInv, RowsTyped
<1>2. row \in Token
  BY <1>1 DEF Token
<1>3. tokens' = [tokens EXCEPT ![i] = row]
  OBVIOUS
<1> HIDE DEF row
<1>4. tokens' \in Seq(Token) /\ Len(tokens') = Len(tokens)
  <2>1. [tokens EXCEPT ![i] = row] \in Seq(Token) /\ Len([tokens EXCEPT ![i] = row]) = Len(tokens)
    BY <1>1, <1>2, SeqUpdated
  <2>2. QED
    BY <1>3, <2>1, Zenon
<1>5. QED
  BY <1>4 DEF TypeInv, RowsTyped, RowsKept

LEMMA RetireInv ==
  ASSUME TypeInv, NEW q \in Requests, Retire(q) \/ Revoke(q)
  PROVE  TypeInv'
<1>1. req[q].i \in 1..Len(tokens)
  BY Memory DEF Retire, Revoke, At
<1>2. RowsTyped' /\ RowsKept
  BY <1>1, TokenRevoked DEF Retire, Revoke
<1> DEFINE r == Session(tokens[req[q].i].owner, tokens[req[q].i].password, FALSE)
<1>3. tokens[req[q].i] \in Token
  BY <1>1 DEF TypeInv, RowsTyped
<1>4. r \in Step /\ ThereAfter(r)
  BY <1>3, StepSplit DEF Session, Opening, Token, ThereAfter
<1>5. QED
  BY <1>2, <1>4, GoInv, AnswerInv DEF Retire, Revoke

LEMMA RevokeAllInv ==
  ASSUME TypeInv, NEW q \in Requests, RevokeAll(q)
  PROVE  TypeInv'
<1>1. /\ DOMAIN tokens = 1..Len(tokens) /\ Len(tokens) \in Nat
      /\ \A i \in 1..Len(tokens) : tokens[i] \in Token
  BY DEF TypeInv, RowsTyped
<1>2. \A i \in 1..Len(tokens) : [tokens[i] EXCEPT !.live = FALSE] \in Token
  BY <1>1 DEF Token
<1>3. tokens' = [i \in 1..Len(tokens) |->
                   IF tokens[i].owner = req[q].s THEN [tokens[i] EXCEPT !.live = FALSE]
                                                 ELSE tokens[i]]
  BY <1>1 DEF RevokeAll
<1>4. tokens' \in [1..Len(tokens) -> Token]
  BY <1>1, <1>2, <1>3
<1>5. tokens' \in Seq(Token) /\ Len(tokens') = Len(tokens)
  BY <1>1, <1>3, <1>4
<1>6. RowsTyped' /\ RowsKept
  BY <1>5 DEF RevokeAll, TypeInv, RowsTyped, RowsKept
<1>7. QED
  BY <1>6, AnswerInv DEF RevokeAll

\* The step after an account is saved.
LEMMA AccountSavedInv ==
  ASSUME TypeInv, RowsTyped', RowsKept, NEW q \in Requests, req[q] \in SavingAccount,
         AccountSaved(q)
  PROVE  TypeInv'
<1> DEFINE r == [at |-> "revokeAll", s |-> req[q].s]
<1>1. Go(q, r) \/ Answer(q)
  BY DEF AccountSaved
<1>2. r \in Step /\ ThereAfter(r)
  BY StepSplit DEF SavingAccount, RevokingAll, ThereAfter
<1>3. QED
  BY <1>1, <1>2, GoInv, AnswerInv

LEMMA SelectAccountInv ==
  ASSUME TypeInv, NEW q \in Requests, SelectAccount(q)
  PROVE  TypeInv'
<1> DEFINE diff == Differing(accounts[req[q].s], req[q].mem)
           r    == [req[q] EXCEPT !.at = "updateAccount", !.dirty = diff]
<1>1. req[q] \in SavingAccount /\ accounts[req[q].s] \in Account
  BY Memory DEF SelectAccount, At
<1>2. RowsTyped' /\ RowsKept
  BY DataKept DEF SelectAccount
<1>3. CASE AccountSaved(q)
  BY <1>1, <1>2, <1>3, AccountSavedInv
<1>4. CASE Go(q, r)
  <2>1. diff \in SUBSET {"active", "password"}
    BY <1>1, AccountWritten DEF SavingAccount
  <2>2. r \in SavingAccount /\ r.s = req[q].s /\ r.at = "updateAccount"
    BY <1>1, <2>1 DEF SavingAccount
  <2>3. accounts[req[q].s] # NoRow
    BY DEF SelectAccount, At, TypeInv, There
  <2>4. ThereAfter(r)
    BY <2>2, <2>3 DEF ThereAfter, SelectAccount, data
  <2>5. QED
    BY <1>2, <1>4, <2>2, <2>4, StepSplit, GoInv
<1>5. QED
  BY <1>3, <1>4 DEF SelectAccount

\* An account's row is written over, and stays a row.
LEMMA AccountUpdated ==
  ASSUME TypeInv, NoRowAssumption, NEW q \in Requests, UpdateAccount(q)
  PROVE  /\ req[q] \in SavingAccount /\ accounts[req[q].s] \in Account
         /\ accounts' = [accounts EXCEPT ![req[q].s] =
                           Overwrite(accounts[req[q].s], req[q].mem, req[q].dirty)]
         /\ Overwrite(accounts[req[q].s], req[q].mem, req[q].dirty) \in Account
         /\ RowsTyped' /\ RowsKept
<1> DEFINE row == Overwrite(accounts[req[q].s], req[q].mem, req[q].dirty)
<1>1. req[q] \in SavingAccount /\ accounts[req[q].s] \in Account
  BY Memory DEF UpdateAccount, At
<1>2. row \in Account /\ req[q].s \in Subject
  BY <1>1, AccountWritten DEF SavingAccount
<1>3. accounts' = [accounts EXCEPT ![req[q].s] = row]
  BY DEF UpdateAccount
<1> HIDE DEF row
<1>4. row # NoRow
  BY <1>2, NoRowAssumption
<1>5. RowsTyped' /\ RowsKept
  BY <1>2, <1>3, <1>4 DEF UpdateAccount, TypeInv, RowsTyped, RowsKept
<1>6. QED
  BY <1>1, <1>2, <1>3, <1>5 DEF row

LEMMA UpdateAccountInv ==
  ASSUME TypeInv, NoRowAssumption, NEW q \in Requests, UpdateAccount(q)
  PROVE  TypeInv'
BY AccountUpdated, AccountSavedInv DEF UpdateAccount

LEMMA StatementInv ==
  ASSUME TypeInv, AccountsAssumption, NoRowAssumption, NEW q \in Requests, Statement(q)
  PROVE  TypeInv'
BY SelectCodeInv, UpdateCodeInv, InsertCodeInv, UserInv, BuildInv, IssueSessionInv, RetireInv,
   RevokeAllInv, SelectAccountInv, UpdateAccountInv DEF Statement

LEMMA CrashInv ==
  ASSUME TypeInv, NEW q \in Requests, Crash(q)
  PROVE  TypeInv'
<1>1. RowsTyped' /\ RowsKept
  BY DataKept DEF Crash
<1>2. ServerTyped(Step)'
  BY IdleThere, DieTyped DEF Crash, TypeInv
<1>3. req'[q] = Idle /\ \A p \in Requests \ {q} : req'[p] = req[p]
  BY DEF Crash, Die, TypeInv, ServerTyped
<1>4. QED
  BY <1>1, <1>2, <1>3, IdleThere, OneMoves

\* What happens to a code or a token without a request.
LEMMA TimeInv ==
  ASSUME TypeInv, RowsTyped', RowsKept, UNCHANGED server
  PROVE  TypeInv'
<1>1. ServerTyped(Step)' /\ \A q \in Requests : req'[q] = req[q]
  BY DEF TypeInv, ServerTyped, server
<1>2. ASSUME NEW q \in Requests PROVE There(req[q])'
  <2>1. req'[q] = req[q] /\ There(req[q])
    BY <1>1 DEF TypeInv
  <2>2. req[q].at \in {"selectAccount", "updateAccount"} => req[q].s \in Subject
    BY Memory DEF SavingAccount
  <2>3. /\ Len(codes) \in Nat /\ Len(tokens) \in Nat
        /\ Len(codes') \in Nat /\ Len(tokens') \in Nat
    BY DEF TypeInv, RowsTyped
  <2>4. 1..Len(codes) \subseteq 1..Len(codes') /\ 1..Len(tokens) \subseteq 1..Len(tokens')
    BY <2>3 DEF RowsKept
  <2>5. QED
    BY <2>1, <2>2, <2>4 DEF There, RowsKept
<1>3. QED
  BY <1>1, <1>2 DEF TypeInv

LEMMA AgeInv ==
  ASSUME TypeInv, NEW i \in DOMAIN codes, Age(i)
  PROVE  TypeInv'
<1> DEFINE row == [codes[i] EXCEPT !.age = IF @ = "fresh" THEN "live" ELSE "expired"]
<1>1. i \in 1..Len(codes) /\ codes[i] \in Code /\ codes \in Seq(Code)
  BY DEF TypeInv, RowsTyped
<1>2. row \in Code
  BY <1>1 DEF Code
<1>3. codes' = [codes EXCEPT ![i] = row]
  BY DEF Age
<1> HIDE DEF row
<1>4. [codes EXCEPT ![i] = row] \in Seq(Code) /\ Len([codes EXCEPT ![i] = row]) = Len(codes)
  BY <1>1, <1>2, SeqUpdated
<1>5. codes' \in Seq(Code) /\ Len(codes') = Len(codes)
  BY <1>3, <1>4, Zenon
<1>6. RowsTyped' /\ RowsKept
  BY <1>5 DEF Age, TypeInv, RowsTyped, RowsKept
<1>7. QED
  BY <1>6, TimeInv DEF Age

LEMMA ExpireInv ==
  ASSUME TypeInv, NEW i \in DOMAIN tokens, Expire(i)
  PROVE  TypeInv'
<1>1. i \in 1..Len(tokens)
  BY DEF TypeInv, RowsTyped
<1>2. RowsTyped' /\ RowsKept
  BY <1>1, TokenRevoked DEF Expire
<1>3. QED
  BY <1>2, TimeInv DEF Expire

LEMMA InitInv ==
  ASSUME AccountsAssumption, Init
  PROVE  TypeInv
<1>1. RowsTyped
  <2>1. PICK password \in [Admins -> Passwords] :
          accounts = [s \in Subject |->
            IF s \in Admins /\ app = "admin"
            THEN [active |-> TRUE, password |-> password[s]] ELSE NoRow]
    BY DEF Init
  <2>2. accounts \in [Subject -> Account \cup {NoRow}]
    BY <2>1 DEF Account
  <2>3. app \in {"user", "admin"} /\ logins = 0 /\ codes = <<>> /\ tokens = <<>> /\ guesses = <<>>
    BY DEF Init
  <2>4. profile \in BOOLEAN
    BY DEF Init
  <2>5. QED
    BY <2>2, <2>3, <2>4 DEF RowsTyped, AccountsAssumption
<1>2. ServerTyped(Step) /\ \A q \in Requests : req[q] = Idle
  BY IdleThere, StepSplit DEF Init, ServerInit, ServerTyped
<1>3. There(Idle)
  BY DEF There, Idle
<1>4. QED
  BY <1>1, <1>2, <1>3 DEF TypeInv

LEMMA NextInv ==
  ASSUME AccountsAssumption, NoRowAssumption, TypeInv, [Next]_vars
  PROVE  TypeInv'
<1>1. CASE UNCHANGED vars
  BY <1>1, DataKept, TimeInv DEF vars, data
<1>2. ASSUME NEW q \in Requests, OtpRoutes(q) \/ SessionRoutes(q) \/ AdminAuthRoutes(q)
      PROVE  TypeInv'
  BY <1>2, CodeRoutesInv, SessionRoutesInv, AdminAuthRoutesInv
<1>3. ASSUME NEW q \in Requests, ProfileRoutes(q) \/ CustomerRoutes(q) \/ AdminRoutes(q)
      PROVE  TypeInv'
  BY <1>3, CustomerRoutesInv, AdminRoutesInv
<1>4. ASSUME NEW q \in Requests, Statement(q) \/ Crash(q)
      PROVE  TypeInv'
  BY <1>4, StatementInv, CrashInv
<1>5. QED
  BY <1>1, <1>2, <1>3, <1>4, AgeInv, ExpireInv DEF Next

LEMMA TypeInvariant == Spec => []TypeInv
<1>1. Init => TypeInv
  BY AccountsAssumption, InitInv
<1>2. TypeInv /\ [Next]_vars => TypeInv'
  BY AccountsAssumption, NoRowAssumption, NextInv
<1>3. QED
  BY <1>1, <1>2, PTL DEF Spec

\* The types of the accounts, codes, tokens and of the requests' memory, in
\* every behaviour and with any number of requests at once.
THEOREM AccountTypeCorrect == Spec => []TypeOK
BY TypeInvariant, TypeSplit, PTL

-----------------------------------------------------------------------------
(* Some admin stays active, and a blocked account stays blocked, as long   *)
(* as no request overlaps another.  Until then the one request in flight   *)
(* saves an account that nobody has changed since it was loaded (Fresh).   *)

Saving(r) == r.at \in {"selectAccount", "updateAccount"}

OtherActive(s) == \E a \in Admins \ {s} : Active(a)

\* What a save will make of the account it has loaded.
Fresh(r) ==
  /\ r.op \in {"edit", "password"} => r.mem.active = accounts[r.s].active
  /\ r.op = "restore" => r.mem.active
  /\ r.op = "remove" => ~r.mem.active /\ (app = "admin" => OtherActive(r.s))

AdminLeft == app = "admin" => \E s \in Admins : Active(s)

FreshAndLeft == AdminLeft /\ \A q \in Requests : Saving(req[q]) => Fresh(req[q])

SafeInv == TypeInv /\ Alone /\ (overlaps = 0 => FreshAndLeft)

LEMMA IdleSavesNothing == ~Saving(Idle) /\ Idle.at = "idle"
BY DEF Saving, Idle

-----------------------------------------------------------------------------
(* One lemma for each way a step moves its request.                        *)

LEMMA StartSafe ==
  ASSUME SafeInv, NEW q \in Requests, NEW r, Start(q, r), UNCHANGED <<app, accounts>>,
         AdminLeft /\ Saving(r) => Fresh(r)
  PROVE  Alone' /\ (overlaps' = 0 => FreshAndLeft')
<1>1. /\ Alone'
      /\ overlaps' = 0 => overlaps = 0
      /\ req'[q] = r /\ \A p \in Requests \ {q} : req'[p] = req[p]
  BY StartAlone DEF SafeInv, TypeInv
<1>2. ASSUME overlaps' = 0 PROVE FreshAndLeft'
  <2>1. FreshAndLeft
    BY <1>1, <1>2 DEF SafeInv
  <2>2. AdminLeft'
    BY <2>1 DEF FreshAndLeft, AdminLeft, Active, Exists
  <2>3. ASSUME NEW p \in Requests, Saving(req'[p]) PROVE Fresh(req[p])'
    <3>1. PICK m \in {r, req[p]} : req'[p] = m /\ Fresh(m)
      BY <1>1, <2>1, <2>3 DEF FreshAndLeft
    <3>2. QED
      BY <3>1 DEF Fresh, OtherActive, Active, Exists
  <2>4. QED
    BY <2>2, <2>3 DEF FreshAndLeft, Saving
<1>3. QED
  BY <1>1, <1>2

\* The request goes on, without a write to an account.
LEMMA GoSafe ==
  ASSUME SafeInv, NEW q \in Requests, InFlight(q), NEW r, Go(q, r),
         UNCHANGED <<app, accounts>>,
         Saving(r) => Saving(req[q]) /\ r.s = req[q].s /\ r.mem = req[q].mem
                                     /\ r.op = req[q].op
  PROVE  Alone' /\ (overlaps' = 0 => FreshAndLeft')
<1>1. /\ Alone' /\ overlaps' = overlaps
      /\ req'[q] = r /\ \A p \in Requests \ {q} : req'[p] = req[p]
  BY GoAlone DEF SafeInv, TypeInv
<1>2. ASSUME overlaps' = 0 PROVE FreshAndLeft'
  <2>1. FreshAndLeft
    BY <1>1, <1>2 DEF SafeInv
  <2>2. AdminLeft'
    BY <2>1 DEF FreshAndLeft, AdminLeft, Active, Exists
  <2>3. ASSUME NEW p \in Requests, Saving(req'[p]) PROVE Fresh(req[p])'
    <3>1. /\ Fresh(req[p])
          /\ req'[p].s = req[p].s /\ req'[p].mem = req[p].mem /\ req'[p].op = req[p].op
      BY <1>1, <2>1, <2>3 DEF FreshAndLeft
    <3>2. QED
      BY <3>1 DEF Fresh, OtherActive, Active, Exists
  <2>4. QED
    BY <2>2, <2>3 DEF FreshAndLeft, Saving
<1>3. QED
  BY <1>1, <1>2

LEMMA AnswerSafe ==
  ASSUME SafeInv, NEW q \in Requests, InFlight(q), Answer(q), UNCHANGED <<app, accounts>>
  PROVE  Alone' /\ (overlaps' = 0 => FreshAndLeft')
BY GoSafe, IdleSavesNothing DEF Answer

\* The request goes on after a write to an account.
LEMMA WriteSafe ==
  ASSUME SafeInv, NEW q \in Requests, InFlight(q), NEW r, Go(q, r), ~Saving(r),
         overlaps = 0 => AdminLeft'
  PROVE  Alone' /\ (overlaps' = 0 => FreshAndLeft')
<1>1. /\ Alone' /\ overlaps' = overlaps
      /\ req'[q] = r /\ \A p \in Requests \ {q} : req'[p] = req[p]
  BY GoAlone DEF SafeInv, TypeInv
<1>2. ASSUME overlaps' = 0, NEW p \in Requests PROVE ~Saving(req'[p])
  <2>1. CASE p = q
    BY <1>1, <2>1
  <2>2. CASE p # q
    <3>1. ~InFlight(p)
      BY <1>1, <1>2, <2>2 DEF SafeInv, Alone
    <3>2. QED
      BY <1>1, <2>2, <3>1 DEF InFlight, Saving
  <2>3. QED
    BY <2>1, <2>2
<1>3. QED
  BY <1>1, <1>2 DEF FreshAndLeft, Saving

-----------------------------------------------------------------------------
(* The handlers' first steps.                                              *)

\* Those that save no account.
LEMMA OtherRoutesSafe ==
  ASSUME SafeInv, NEW q \in Requests,
         \/ OtpRoutes(q) \/ Refresh(q) \/ Logout(q)
         \/ \E s \in Subject : LogoutAll(q, s) \/ Login(q, s)
  PROVE  Alone' /\ (overlaps' = 0 => FreshAndLeft')
<1>1. UNCHANGED <<app, accounts>>
  BY DEF OtpRoutes, SendOtp, VerifyOtp, Refresh, Logout, LogoutAll, Login, data
<1>2. ASSUME SendOtp(q) PROVE \E r : Start(q, r) /\ ~Saving(r)
  <2>1. CASE Start(q, [at |-> "insertCode"])
    BY <2>1 DEF Saving
  <2>2. ASSUME NEW i, Start(q, [at |-> "selectCode", i |-> i, dirty |-> {}, op |-> "expire",
                                mem |-> [codes[i] EXCEPT !.age = "expired"]])
        PROVE  \E r : Start(q, r) /\ ~Saving(r)
    BY <2>2 DEF Saving
  <2>3. QED
    BY <1>2, <2>1, <2>2 DEF SendOtp
<1>3. ASSUME VerifyOtp(q) PROVE \E r : Start(q, r) /\ ~Saving(r)
  <2>1. PICK i, op :
          Start(q, [at |-> "selectCode", i |-> i, dirty |-> {}, op |-> op,
                    mem |-> [codes[i] EXCEPT !.attempts = @ + 1,
                                             !.verified = op = "right"]])
    BY <1>3 DEF VerifyOtp
  <2>2. QED
    BY <2>1 DEF Saving
<1>4. ASSUME Refresh(q) \/ Logout(q) PROVE \E r : Start(q, r) /\ ~Saving(r)
  <2>1. PICK i \in Live, at \in {"retire", "revoke"} : Start(q, [at |-> at, i |-> i])
    BY <1>4 DEF Refresh, Logout
  <2>2. ~Saving([at |-> at, i |-> i])
    BY DEF Saving
  <2>3. QED
    BY <2>1, <2>2
<1>5. ASSUME NEW s \in Subject, LogoutAll(q, s) \/ Login(q, s)
      PROVE  \E r : Start(q, r) /\ ~Saving(r)
  BY <1>5 DEF LogoutAll, Login, Session, Saving
<1>6. QED
  BY <1>1, <1>2, <1>3, <1>4, <1>5, StartSafe DEF OtpRoutes

LEMMA EditSafe ==
  ASSUME SafeInv, NEW q \in Requests, NEW s, NEW mem, NEW op, Edit(q, s, mem, op),
         op \in {"edit", "password"} => mem.active = accounts[s].active,
         op = "restore" => mem.active,
         op = "remove" => ~mem.active /\ (AdminLeft /\ app = "admin" => OtherActive(s))
  PROVE  Alone' /\ (overlaps' = 0 => FreshAndLeft')
<1> DEFINE r == [at |-> "selectAccount", s |-> s, mem |-> mem, dirty |-> {}, op |-> op]
<1>1. Start(q, r) /\ UNCHANGED <<app, accounts>>
  BY DEF Edit, data
<1>2. AdminLeft => Fresh(r)
  BY DEF Fresh
<1> HIDE DEF r
<1>3. QED
  BY <1>1, <1>2, StartSafe

\* An account's other column, and the same one.
LEMMA Columns ==
  ASSUME TypeInv, NEW s \in Subject, Exists(s)
  PROVE  /\ \A b \in BOOLEAN : [accounts[s] EXCEPT !.active = b].active = b
         /\ \A new : [accounts[s] EXCEPT !.password = new].active = accounts[s].active
<1>1. accounts[s] \in Account
  BY AccountIs
<1>2. QED
  BY <1>1 DEF Account

LEMMA ResetSafe ==
  ASSUME SafeInv, NEW q \in Requests, NEW s \in Admins, Exists(s), Reset(q, s)
  PROVE  Alone' /\ (overlaps' = 0 => FreshAndLeft')
<1>1. PICK new \in Passwords :
        Edit(q, s, [accounts[s] EXCEPT !.password = new], "password")
  BY DEF Reset
<1>2. [accounts[s] EXCEPT !.password = new].active = accounts[s].active
  BY Columns DEF Subject, SafeInv
<1>3. QED
  BY <1>1, <1>2, EditSafe

LEMMA CustomerRoutesSafe ==
  ASSUME SafeInv, AccountsAssumption, NEW q \in Requests,
         ProfileRoutes(q) \/ CustomerRoutes(q)
  PROVE  Alone' /\ (overlaps' = 0 => FreshAndLeft')
<1>1. AdminLeft /\ app = "admin" => OtherActive(User)
  BY DEF AdminLeft, OtherActive, AccountsAssumption
<1>2. CASE UpdateProfile(q) \/ UpdateCustomer(q)
  BY <1>2, EditSafe DEF UpdateProfile, UpdateCustomer
<1>3. CASE BlockCustomer(q) \/ UnblockCustomer(q)
  <2>1. Exists(User) /\ User \in Subject /\ TypeInv
    BY <1>3 DEF BlockCustomer, UnblockCustomer, Subject, SafeInv
  <2>2. /\ [accounts[User] EXCEPT !.active = TRUE].active
        /\ ~[accounts[User] EXCEPT !.active = FALSE].active
    BY <2>1, Columns
  <2>3. QED
    BY <1>1, <1>3, <2>2, EditSafe DEF BlockCustomer, UnblockCustomer
<1>4. QED
  BY <1>2, <1>3 DEF ProfileRoutes, CustomerRoutes

\* The admin who deactivates another one is active.
LEMMA AdminRoutesSafe ==
  ASSUME SafeInv, NEW q \in Requests, AdminRoutes(q)
  PROVE  Alone' /\ (overlaps' = 0 => FreshAndLeft')
<1>1. PICK actor \in Admins, s \in Admins :
        UpdateAdmin(q, actor, s) \/ DeactivateAdmin(q, actor, s) \/ ActivateAdmin(q, actor, s)
  BY DEF AdminRoutes
<1>2. s \in Subject /\ TypeInv
  BY DEF Subject, SafeInv
<1>3. CASE UpdateAdmin(q, actor, s)
  BY <1>3, ResetSafe, EditSafe DEF UpdateAdmin
<1>4. CASE DeactivateAdmin(q, actor, s)
  <2>1. /\ Edit(q, s, [accounts[s] EXCEPT !.active = FALSE], "remove")
        /\ Exists(s) /\ OtherActive(s)
    BY <1>4 DEF DeactivateAdmin, Acting, Active, OtherActive
  <2>2. ~[accounts[s] EXCEPT !.active = FALSE].active
    BY <1>2, <2>1, Columns
  <2>3. QED
    BY <2>1, <2>2, EditSafe
<1>5. CASE ActivateAdmin(q, actor, s)
  <2>1. Edit(q, s, [accounts[s] EXCEPT !.active = TRUE], "restore") /\ Exists(s)
    BY <1>5 DEF ActivateAdmin
  <2>2. [accounts[s] EXCEPT !.active = TRUE].active
    BY <1>2, <2>1, Columns
  <2>3. QED
    BY <2>1, <2>2, EditSafe
<1>6. QED
  BY <1>1, <1>3, <1>4, <1>5

LEMMA AdminAuthRoutesSafe ==
  ASSUME SafeInv, NEW q \in Requests, AdminAuthRoutes(q)
  PROVE  Alone' /\ (overlaps' = 0 => FreshAndLeft')
<1>1. ASSUME NEW s \in Admins, ChangePassword(q, s)
      PROVE  Alone' /\ (overlaps' = 0 => FreshAndLeft')
  BY <1>1, ResetSafe DEF ChangePassword, Acting, Active
<1>2. QED
  BY <1>1, OtherRoutesSafe DEF AdminAuthRoutes, Subject

-----------------------------------------------------------------------------
(* The statements.                                                         *)

LEMMA OtherStatementsSafe ==
  ASSUME SafeInv, NEW q \in Requests,
         \/ SelectCode(q) \/ UpdateCode(q) \/ InsertCode(q)
         \/ FindUser(q) \/ FindProfile(q) \/ InsertProfile(q)
         \/ Build(q) \/ IssueSession(q) \/ Retire(q) \/ Revoke(q) \/ RevokeAll(q)
  PROVE  Alone' /\ (overlaps' = 0 => FreshAndLeft')
<1>1. InFlight(q) /\ ~Saving(req[q]) /\ UNCHANGED <<app, accounts>>
  BY DEF SelectCode, UpdateCode, InsertCode, FindUser, FindProfile, InsertProfile, Build,
         IssueSession, Retire, Revoke, RevokeAll, At, InFlight, Saving, data
<1>2. ASSUME SelectCode(q) \/ UpdateCode(q), ~Answer(q)
      PROVE  \E r : Go(q, r) /\ ~Saving(r)
  <2>1. req[q] \in SavingCode
    BY <1>2, Memory DEF SafeInv, SelectCode, UpdateCode, At
  <2>2. CASE CodeSaved(q)
    <3>1. PICK at \in {"insertCode", "findUser"} : Go(q, [at |-> at])
      BY <1>2, <2>1, <2>2 DEF CodeSaved, SavingCode
    <3>2. ~Saving([at |-> at])
      BY DEF Saving
    <3>3. QED
      BY <3>1, <3>2
  <2>3. CASE ~CodeSaved(q)
    <3> DEFINE r == [req[q] EXCEPT !.at = "updateCode",
                                   !.dirty = Differing(codes[req[q].i], req[q].mem)]
    <3>1. Go(q, r)
      BY <1>2, <2>3 DEF SelectCode, UpdateCode
    <3>2. r.at = "updateCode"
      BY <2>1 DEF SavingCode
    <3>3. QED
      BY <3>1, <3>2 DEF Saving
  <2>4. QED
    BY <2>2, <2>3
<1>3. ASSUME \/ InsertCode(q) \/ FindUser(q) \/ FindProfile(q) \/ InsertProfile(q)
             \/ IssueSession(q) \/ Retire(q) \/ Revoke(q) \/ RevokeAll(q),
             ~Answer(q)
      PROVE  \E r : Go(q, r) /\ ~Saving(r)
  BY <1>3 DEF InsertCode, FindUser, FindProfile, InsertProfile, IssueSession, Retire, Revoke,
              RevokeAll, Session, Saving
<1>4. ASSUME Build(q), ~Answer(q)
      PROVE  \E r : Go(q, r) /\ ~Saving(r)
  <2>1. req[q] \in Opening /\ Go(q, [req[q] EXCEPT !.at = "issue"])
    BY <1>4, Memory DEF SafeInv, Build, At
  <2>2. [req[q] EXCEPT !.at = "issue"].at = "issue"
    BY <2>1 DEF Opening
  <2>3. QED
    BY <2>1, <2>2 DEF Saving
<1>5. QED
  BY <1>1, <1>2, <1>3, <1>4, GoSafe, AnswerSafe

\* Nothing is saved after revokeAll, nor after an answer.
LEMMA AfterSave ==
  ASSUME NEW q \in Requests, AccountSaved(q)
  PROVE  \E r : Go(q, r) /\ ~Saving(r)
BY IdleSavesNothing DEF AccountSaved, Answer, Saving

\* The users are no admins.
LEMMA InsertUserSafe ==
  ASSUME SafeInv, AccountsAssumption, NEW q \in Requests, InsertUser(q)
  PROVE  Alone' /\ (overlaps' = 0 => FreshAndLeft')
<1>1. InFlight(q) /\ app' = app /\ \A s \in Admins : accounts'[s] = accounts[s]
  BY DEF InsertUser, At, InFlight, AccountsAssumption, SafeInv, TypeInv, RowsTyped, Subject
<1>2. \E r : Go(q, r) /\ ~Saving(r)
  BY IdleSavesNothing DEF InsertUser, Answer, Saving
<1>3. overlaps = 0 => AdminLeft'
  BY <1>1 DEF SafeInv, FreshAndLeft, AdminLeft, Active, Exists
<1>4. QED
  BY <1>1, <1>2, <1>3, WriteSafe

LEMMA SelectAccountSafe ==
  ASSUME SafeInv, NEW q \in Requests, SelectAccount(q)
  PROVE  Alone' /\ (overlaps' = 0 => FreshAndLeft')
<1> DEFINE r == [req[q] EXCEPT !.at = "updateAccount",
                               !.dirty = Differing(accounts[req[q].s], req[q].mem)]
<1>1. req[q] \in SavingAccount /\ InFlight(q) /\ Saving(req[q]) /\ UNCHANGED <<app, accounts>>
  BY Memory DEF SafeInv, SelectAccount, At, InFlight, Saving, data
<1>2. CASE AccountSaved(q)
  BY <1>1, <1>2, AfterSave, GoSafe
<1>3. CASE Go(q, r)
  <2>1. r.s = req[q].s /\ r.mem = req[q].mem /\ r.op = req[q].op
    BY <1>1 DEF SavingAccount
  <2>2. QED
    BY <1>1, <1>3, <2>1, GoSafe
<1>4. QED
  BY <1>2, <1>3 DEF SelectAccount

\* What a save without an overlap does to who is active.
LEMMA Saved ==
  ASSUME SafeInv, NoRowAssumption, overlaps = 0, NEW q \in Requests, UpdateAccount(q)
  PROVE  /\ \A s \in Subject : s # req[q].s => accounts'[s] = accounts[s]
         /\ req[q].s \in Subject /\ accounts[req[q].s] # NoRow /\ accounts'[req[q].s] # NoRow
         /\ req[q].op \in {"edit", "password"} =>
              accounts'[req[q].s].active = accounts[req[q].s].active
         /\ req[q].op = "restore" /\ accounts[req[q].s].active =>
              accounts'[req[q].s].active
         /\ req[q].op = "remove" =>
              /\ ~accounts[req[q].s].active => ~accounts'[req[q].s].active
              /\ app = "admin" => OtherActive(req[q].s)
         /\ req[q].op \in {"edit", "password", "restore", "remove"}
<1> DEFINE s == req[q].s
           row == Overwrite(accounts[s], req[q].mem, req[q].dirty)
<1>1. /\ req[q] \in SavingAccount /\ accounts[s] \in Account
      /\ accounts' = [accounts EXCEPT ![s] = row] /\ row \in Account
  BY AccountUpdated DEF SafeInv
<1>2. s \in Subject /\ accounts'[s] = row
  BY <1>1 DEF SavingAccount, SafeInv, TypeInv, RowsTyped
<1>3. \A o \in Subject : o # s => accounts'[o] = accounts[o]
  BY <1>1 DEF SafeInv, TypeInv, RowsTyped
<1>4. Fresh(req[q])
  BY DEF SafeInv, FreshAndLeft, UpdateAccount, At, Saving
<1>5. row.active \in {accounts[s].active, req[q].mem.active}
  BY <1>1 DEF Overwrite, Account
<1>6. req[q].mem.active \in BOOLEAN /\ accounts[s].active \in BOOLEAN
  BY <1>1 DEF SavingAccount, Account
<1> HIDE DEF row
<1>7. /\ req[q].op \in {"edit", "password"} => accounts'[s].active = accounts[s].active
      /\ req[q].op = "restore" /\ accounts[s].active => accounts'[s].active
      /\ req[q].op = "remove" => /\ ~accounts[s].active => ~accounts'[s].active
                                 /\ app = "admin" => OtherActive(s)
  BY <1>2, <1>4, <1>5, <1>6 DEF Fresh
<1>8. QED
  BY <1>1, <1>2, <1>3, <1>7, NoRowAssumption DEF SavingAccount

LEMMA UpdateAccountSafe ==
  ASSUME SafeInv, AccountsAssumption, NoRowAssumption, NEW q \in Requests, UpdateAccount(q)
  PROVE  Alone' /\ (overlaps' = 0 => FreshAndLeft')
<1>1. InFlight(q) /\ app' = app
  BY DEF UpdateAccount, At, InFlight
<1>2. ASSUME overlaps = 0, app = "admin" PROVE \E s \in Admins : Active(s)'
  <2>1. PICK a \in Admins : Active(a) /\ (req[q].op = "remove" => a # req[q].s)
    BY <1>2, Saved DEF SafeInv, FreshAndLeft, AdminLeft, OtherActive
  <2>2. a \in Subject
    BY DEF Subject
  <2>3. CASE a # req[q].s
    BY <1>2, <2>1, <2>2, <2>3, Saved DEF Active, Exists
  <2>4. CASE a = req[q].s
    BY <1>2, <2>1, <2>4, Saved DEF Active, Exists
  <2>5. QED
    BY <2>3, <2>4
<1>3. overlaps = 0 => AdminLeft'
  BY <1>1, <1>2 DEF AdminLeft
<1>4. \E r : Go(q, r) /\ ~Saving(r)
  BY AfterSave DEF UpdateAccount
<1>5. QED
  BY <1>1, <1>3, <1>4, WriteSafe

-----------------------------------------------------------------------------
LEMMA InitSafe ==
  ASSUME Init
  PROVE  Alone /\ FreshAndLeft
<1>1. \A q \in Requests : req[q] = Idle
  BY DEF Init, ServerInit
<1>2. Alone /\ \A q \in Requests : ~Saving(req[q])
  BY <1>1, IdleSavesNothing DEF Alone, InFlight
<1>3. AdminLeft
  <2>1. PICK password \in [Admins -> Passwords] :
          accounts = [s \in Subject |->
            IF s \in Admins /\ app = "admin"
            THEN [active |-> TRUE, password |-> password[s]] ELSE NoRow]
    BY DEF Init
  <2>2. SUFFICES ASSUME app = "admin" PROVE \E s \in Admins : Active(s)
    BY DEF AdminLeft
  <2>3. PICK s \in Admins : TRUE
    BY AccountsAssumption DEF AccountsAssumption
  <2>4. s \in Subject
    BY DEF Subject
  <2>5. accounts[s] = [active |-> TRUE, password |-> password[s]]
    BY <2>1, <2>2, <2>4
  <2>6. accounts[s] \in Account /\ accounts[s].active
    BY <2>5 DEF Account
  <2>7. Active(s)
    BY <2>6, NoRowAssumption DEF Active, Exists
  <2>8. QED
    BY <2>7
<1>4. QED
  BY <1>2, <1>3 DEF FreshAndLeft

LEMMA NextSafe ==
  ASSUME AccountsAssumption, NoRowAssumption, SafeInv, [Next]_vars
  PROVE  SafeInv'
<1>1. TypeInv'
  BY NextInv DEF SafeInv
<1>2. ASSUME UNCHANGED <<server, app, accounts>>
      PROVE  Alone' /\ (overlaps' = 0 => FreshAndLeft')
  <2>1. req' = req /\ overlaps' = overlaps /\ app' = app /\ accounts' = accounts
    BY <1>2 DEF server
  <2>2. Alone'
    BY <2>1 DEF SafeInv, Alone, InFlight
  <2>3. ASSUME overlaps = 0 PROVE FreshAndLeft'
    <3>1. FreshAndLeft
      BY <2>3 DEF SafeInv
    <3>2. AdminLeft'
      BY <2>1, <3>1 DEF FreshAndLeft, AdminLeft, Active, Exists
    <3>3. ASSUME NEW p \in Requests, Saving(req'[p]) PROVE Fresh(req[p])'
      <4>1. req'[p] = req[p] /\ Fresh(req[p])
        BY <2>1, <3>1, <3>3 DEF FreshAndLeft
      <4>2. QED
        BY <2>1, <4>1 DEF Fresh, OtherActive, Active, Exists
    <3>4. QED
      BY <3>2, <3>3 DEF FreshAndLeft, Saving
  <2>4. QED
    BY <2>1, <2>2, <2>3
<1>3. CASE UNCHANGED vars
  <2>1. UNCHANGED <<server, app, accounts>>
    BY <1>3 DEF vars, data
  <2>2. QED
    BY <1>1, <1>2, <2>1 DEF SafeInv
<1>4. ASSUME NEW q \in Requests, OtpRoutes(q) \/ SessionRoutes(q) \/ AdminAuthRoutes(q)
      PROVE  Alone' /\ (overlaps' = 0 => FreshAndLeft')
  BY <1>4, OtherRoutesSafe, AdminAuthRoutesSafe DEF SessionRoutes, Subject
<1>5. ASSUME NEW q \in Requests, ProfileRoutes(q) \/ CustomerRoutes(q) \/ AdminRoutes(q)
      PROVE  Alone' /\ (overlaps' = 0 => FreshAndLeft')
  BY <1>5, CustomerRoutesSafe, AdminRoutesSafe
<1>6. ASSUME NEW q \in Requests, Statement(q)
      PROVE  Alone' /\ (overlaps' = 0 => FreshAndLeft')
  BY <1>6, OtherStatementsSafe, InsertUserSafe, SelectAccountSafe, UpdateAccountSafe
     DEF Statement
<1>7. ASSUME NEW q \in Requests, Crash(q)
      PROVE  Alone' /\ (overlaps' = 0 => FreshAndLeft')
  <2>1. /\ Alone' /\ overlaps' = overlaps /\ UNCHANGED <<app, accounts>>
        /\ req'[q] = Idle /\ \A p \in Requests \ {q} : req'[p] = req[p]
    BY <1>7, DieAlone DEF Crash, SafeInv, TypeInv, data
  <2>2. ASSUME overlaps = 0 PROVE FreshAndLeft'
    <3>1. FreshAndLeft
      BY <2>2 DEF SafeInv
    <3>2. AdminLeft'
      BY <2>1, <3>1 DEF FreshAndLeft, AdminLeft, Active, Exists
    <3>3. ASSUME NEW p \in Requests, Saving(req'[p]) PROVE Fresh(req[p])'
      <4>1. req'[p] = req[p] /\ Fresh(req[p])
        BY <2>1, <3>1, <3>3, IdleSavesNothing DEF FreshAndLeft
      <4>2. QED
        BY <2>1, <4>1 DEF Fresh, OtherActive, Active, Exists
    <3>4. QED
      BY <3>2, <3>3 DEF FreshAndLeft, Saving
  <2>3. QED
    BY <2>1, <2>2
<1>8. ASSUME \/ \E i \in DOMAIN codes : Age(i)
             \/ \E i \in DOMAIN tokens : Expire(i)
      PROVE  UNCHANGED <<server, app, accounts>>
  BY <1>8 DEF Age, Expire
<1>9. CASE Next
  <2>1. CASE \/ \E i \in DOMAIN codes : Age(i)
             \/ \E i \in DOMAIN tokens : Expire(i)
    BY <1>1, <1>2, <1>8, <2>1 DEF SafeInv
  <2>2. QED
    BY <1>1, <1>4, <1>5, <1>6, <1>7, <1>9, <2>1 DEF Next, SafeInv
<1>10. QED
  BY <1>3, <1>9

LEMMA SafeInvariant == Spec => []SafeInv
<1>1. Init => SafeInv
  BY AccountsAssumption, InitInv, InitSafe DEF SafeInv
<1>2. SafeInv /\ [Next]_vars => SafeInv'
  BY AccountsAssumption, NoRowAssumption, NextSafe
<1>3. QED
  BY <1>1, <1>2, PTL DEF Spec

\* Some admin can always log in, unless requests overlap: whoever deactivates
\* an admin is another admin, active when the row was loaded and still active
\* when it is saved.
THEOREM SomeAdminAlwaysActive == Spec => []SomeAdminActive
<1>1. SafeInv => SomeAdminActive
  BY DEF SafeInv, FreshAndLeft, AdminLeft, SomeAdminActive
<1>2. QED
  BY <1>1, SafeInvariant, PTL

\* A blocked or deactivated account comes back only by unblock or activate,
\* unless requests overlap: every other save writes the flag it has loaded.
THEOREM BlockAlwaysKept == Spec => BlockKept
<1> DEFINE Back(s) ==
      Exists(s) /\ ~Active(s) /\ Active(s)' =>
        \/ overlaps > 0
        \/ \E q \in Requests : At(q, "updateAccount") /\ req[q].op = "restore"
<1>1. ASSUME SafeInv, [Next]_vars, NEW s \in Subject PROVE Back(s)
  <2>1. SUFFICES ASSUME Exists(s), ~Active(s), Active(s)', overlaps = 0
                 PROVE  \E q \in Requests : At(q, "updateAccount") /\ req[q].op = "restore"
    BY <1>1 DEF SafeInv, TypeInv, ServerTyped
  <2>2. accounts'[s] # accounts[s]
    BY <2>1 DEF Active, Exists
  <2>3. PICK q \in Requests : InsertUser(q) \/ UpdateAccount(q)
    <3>1. \/ UNCHANGED accounts
          \/ \E q \in Requests : InsertUser(q) \/ UpdateAccount(q)
      <4>1. ASSUME NEW q \in Requests,
                   \/ OtpRoutes(q) \/ SessionRoutes(q) \/ AdminAuthRoutes(q)
                   \/ ProfileRoutes(q) \/ CustomerRoutes(q) \/ AdminRoutes(q)
            PROVE  UNCHANGED accounts
        BY <4>1 DEF OtpRoutes, SendOtp, VerifyOtp, SessionRoutes, Refresh, Logout, LogoutAll,
             AdminAuthRoutes, Login, ChangePassword, Reset, ProfileRoutes, UpdateProfile,
             CustomerRoutes, UpdateCustomer, BlockCustomer, UnblockCustomer, AdminRoutes,
             UpdateAdmin, DeactivateAdmin, ActivateAdmin, Edit, data
      <4>2. ASSUME NEW q \in Requests, Statement(q) \/ Crash(q),
                   ~InsertUser(q), ~UpdateAccount(q)
            PROVE  UNCHANGED accounts
        BY <4>2 DEF Statement, SelectCode, UpdateCode, InsertCode, FindUser, FindProfile,
             InsertProfile, Build, IssueSession, Retire, Revoke, RevokeAll, SelectAccount,
             Crash, data
      <4>3. QED
        BY <1>1, <4>1, <4>2 DEF Next, Age, Expire, vars, data
    <3>2. QED
      BY <2>2, <3>1
  <2>4. CASE InsertUser(q)
    <3>1. ~Exists(User) /\ s # User
      BY <2>1, <2>2, <2>4 DEF InsertUser
    <3>2. accounts'[s] = accounts[s]
      BY <1>1, <2>4, <3>1 DEF InsertUser, SafeInv, TypeInv, RowsTyped
    <3>3. QED
      BY <2>2, <3>2
  <2>5. CASE UpdateAccount(q)
    <3>1. s = req[q].s
      BY <1>1, <2>1, <2>2, <2>5, Saved, NoRowAssumption
    <3>2. ~accounts[s].active /\ accounts'[s].active
      BY <2>1 DEF Active, Exists
    <3>3. req[q].op = "restore"
      BY <1>1, <2>1, <2>5, <3>1, <3>2, Saved, NoRowAssumption
    <3>4. QED
      BY <2>5, <3>3 DEF UpdateAccount
  <2>6. QED
    BY <2>3, <2>4, <2>5
<1>2. SafeInv /\ [Next]_vars => [\A s \in Subject : Back(s)]_vars
  BY <1>1
<1>3. QED
  BY <1>2, SafeInvariant, PTL DEF Spec, BlockKept

-----------------------------------------------------------------------------
(* How a step moves the requests, and what it does to codes and tokens.    *)

Others(q) == \A p \in Requests : p # q => req'[p] = req[p]

\* A handler's first step: what it finds, and what it goes on with.
Opens(q, r) ==
  \/ r.at = "insertCode" /\ Valid = {} /\ UNCHANGED guesses
  \/ /\ r.at = "selectCode" /\ r.op = "expire" /\ r.i \in Newest(Valid)
     /\ r.mem = [codes[r.i] EXCEPT !.age = "expired"]
     /\ UNCHANGED guesses
  \/ /\ r.at = "selectCode" /\ r.op \in {"right", "wrong"}
     /\ r.i \in Newest(Unverified) /\ codes[r.i].age # "expired"
     /\ codes[r.i].attempts < MaxAttempts
     /\ r.mem = [codes[r.i] EXCEPT !.attempts = @ + 1, !.verified = r.op = "right"]
     /\ guesses' = [guesses EXCEPT ![r.i] = @ + 1]
  \/ r.at \in {"retire", "revoke"} /\ r.i \in Live /\ UNCHANGED guesses
  \/ r.at = "revokeAll" /\ r.s \in Subject /\ UNCHANGED guesses
  \/ /\ r.at = "build" /\ r.login /\ r.s \in Admins /\ r.password = accounts[r.s].password
     /\ UNCHANGED guesses
  \/ /\ r.at = "selectAccount" /\ r.s \in Subject /\ Exists(r.s)
     /\ (r.op = "password" /\ r.s \in Admins) \/ r.mem.password = accounts[r.s].password
     /\ UNCHANGED guesses

Started(q) ==
  /\ \E r : Start(q, r) /\ Opens(q, r)
  /\ UNCHANGED <<app, accounts, profile, codes, tokens, logins>>

LEMMA CodeRoutesOpen ==
  ASSUME TypeInv, NEW q \in Requests, OtpRoutes(q)
  PROVE  Started(q)
<1>1. CASE SendOtp(q)
  <2>1. UNCHANGED data
    BY <1>1 DEF SendOtp
  <2>2. CASE Valid = {} /\ Start(q, [at |-> "insertCode"])
    <3> DEFINE r == [at |-> "insertCode"]
    <3>1. r.at = "insertCode" /\ Start(q, r)
      BY <2>2
    <3> HIDE DEF r
    <3>2. QED
      BY <2>1, <2>2, <3>1 DEF Started, Opens, data
  <2>3. ASSUME NEW i \in Newest(Valid),
               Start(q, [at |-> "selectCode", i |-> i, dirty |-> {}, op |-> "expire",
                         mem |-> [codes[i] EXCEPT !.age = "expired"]])
        PROVE  Started(q)
    <3> DEFINE r == [at |-> "selectCode", i |-> i, dirty |-> {}, op |-> "expire",
                     mem |-> [codes[i] EXCEPT !.age = "expired"]]
    <3>1. /\ r.at = "selectCode" /\ r.op = "expire" /\ r.i = i
          /\ r.mem = [codes[i] EXCEPT !.age = "expired"] /\ Start(q, r)
      BY <2>3
    <3> HIDE DEF r
    <3>2. UNCHANGED guesses /\ UNCHANGED <<app, accounts, profile, codes, tokens, logins>>
      BY <2>1 DEF data
    <3>3. Opens(q, r)
      BY <3>1, <3>2 DEF Opens
    <3>4. QED
      BY <3>1, <3>2, <3>3 DEF Started
  <2>4. QED
    BY <1>1, <2>2, <2>3 DEF SendOtp
<1>2. CASE VerifyOtp(q)
  <2>1. PICK i \in Newest(Unverified), op \in {"right", "wrong"} :
          /\ codes[i].age # "expired"
          /\ codes[i].attempts < MaxAttempts
          /\ Start(q, [at |-> "selectCode", i |-> i, dirty |-> {}, op |-> op,
                       mem |-> [codes[i] EXCEPT !.attempts = @ + 1,
                                                !.verified = op = "right"]])
          /\ guesses' = [guesses EXCEPT ![i] = @ + 1]
    BY <1>2 DEF VerifyOtp
  <2> DEFINE mem == [codes[i] EXCEPT !.attempts = @ + 1, !.verified = op = "right"]
             r   == [at |-> "selectCode", i |-> i, dirty |-> {}, op |-> op, mem |-> mem]
  <2>2. r.at = "selectCode" /\ r.op = op /\ r.i = i /\ r.mem = mem /\ Start(q, r)
    BY <2>1
  <2> HIDE DEF r
  <2>3. Opens(q, r)
    BY <2>1, <2>2 DEF Opens
  <2>4. UNCHANGED <<app, accounts, profile, codes, tokens, logins>>
    BY <1>2 DEF VerifyOtp
  <2>5. QED
    BY <2>2, <2>3, <2>4 DEF Started
<1>3. QED
  BY <1>1, <1>2 DEF OtpRoutes

LEMMA SessionRoutesOpen ==
  ASSUME TypeInv, NEW q \in Requests,
         \/ Refresh(q) \/ Logout(q)
         \/ \E s \in Subject : LogoutAll(q, s)
         \/ \E s \in Admins : Login(q, s)
  PROVE  Started(q)
<1>1. UNCHANGED data
  BY DEF Refresh, Logout, LogoutAll, Login
<1>2. UNCHANGED guesses /\ UNCHANGED <<app, accounts, profile, codes, tokens, logins>>
  BY <1>1 DEF data
<1>3. CASE Refresh(q) \/ Logout(q)
  <2>1. PICK i \in Live, at \in {"retire", "revoke"} : Start(q, [at |-> at, i |-> i])
    BY <1>3 DEF Refresh, Logout
  <2> DEFINE r == [at |-> at, i |-> i]
  <2>2. r.at = at /\ r.i = i /\ Start(q, r)
    BY <2>1
  <2> HIDE DEF r
  <2>3. QED
    BY <1>2, <2>1, <2>2 DEF Started, Opens
<1>4. ASSUME NEW s \in Subject, LogoutAll(q, s)
      PROVE  Started(q)
  <2> DEFINE r == [at |-> "revokeAll", s |-> s]
  <2>1. r.at = "revokeAll" /\ r.s = s /\ Start(q, r)
    BY <1>4 DEF LogoutAll
  <2> HIDE DEF r
  <2>2. QED
    BY <1>2, <2>1 DEF Started, Opens
<1>5. ASSUME NEW s \in Admins, Login(q, s)
      PROVE  Started(q)
  <2> DEFINE r == Session(s, accounts[s].password, TRUE)
  <2>1. /\ r.at = "build" /\ r.s = s /\ r.login /\ r.password = accounts[s].password
        /\ Start(q, r)
    BY <1>5 DEF Login, Session
  <2> HIDE DEF r
  <2>2. QED
    BY <1>2, <2>1 DEF Started, Opens
<1>6. QED
  BY <1>3, <1>4, <1>5

LEMMA EditOpens ==
  ASSUME TypeInv, NEW q \in Requests, NEW s \in Subject, Exists(s), NEW mem, NEW op,
         Edit(q, s, mem, op),
         (op = "password" /\ s \in Admins) \/ mem.password = accounts[s].password
  PROVE  Started(q)
<1> DEFINE r == [at |-> "selectAccount", s |-> s, mem |-> mem, dirty |-> {}, op |-> op]
<1>1. r.at = "selectAccount" /\ r.s = s /\ r.mem = mem /\ r.op = op /\ Start(q, r)
  BY DEF Edit
<1> HIDE DEF r
<1>2. UNCHANGED guesses /\ UNCHANGED <<app, accounts, profile, codes, tokens, logins>>
  BY DEF Edit, data
<1>3. Opens(q, r)
  BY <1>1, <1>2 DEF Opens
<1>4. QED
  BY <1>1, <1>2, <1>3 DEF Started

\* The password of an account that is saved with another flag.
LEMMA PasswordKept ==
  ASSUME TypeInv, NEW s \in Subject, Exists(s), NEW b \in BOOLEAN
  PROVE  [accounts[s] EXCEPT !.active = b].password = accounts[s].password
<1>1. accounts[s] \in Account
  BY AccountIs
<1>2. QED
  BY <1>1 DEF Account

LEMMA AccountRoutesOpen ==
  ASSUME TypeInv, NEW q \in Requests,
         \/ ProfileRoutes(q) \/ CustomerRoutes(q) \/ AdminRoutes(q)
         \/ \E s \in Admins : ChangePassword(q, s)
  PROVE  Started(q)
<1>1. ASSUME NEW s \in Admins, Exists(s), Reset(q, s)
      PROVE  Started(q)
  <2>1. PICK new : Edit(q, s, [accounts[s] EXCEPT !.password = new], "password")
    BY <1>1 DEF Reset
  <2>2. QED
    BY <1>1, <2>1, EditOpens DEF Subject
<1>2. ASSUME NEW s \in Subject, Exists(s), NEW op, NEW b \in BOOLEAN,
             \/ Edit(q, s, accounts[s], op)
             \/ Edit(q, s, [accounts[s] EXCEPT !.active = b], op)
      PROVE  Started(q)
  BY <1>2, PasswordKept, EditOpens
<1>3. User \in Subject /\ Admins \subseteq Subject
  BY DEF Subject
<1>4. CASE UpdateProfile(q) \/ UpdateCustomer(q) \/ BlockCustomer(q) \/ UnblockCustomer(q)
  <2>1. Exists(User)
    BY <1>4 DEF UpdateProfile, UpdateCustomer, BlockCustomer, UnblockCustomer, Acting, Active
  <2>2. \/ Edit(q, User, accounts[User], "edit")
        \/ Edit(q, User, [accounts[User] EXCEPT !.active = FALSE], "remove")
        \/ Edit(q, User, [accounts[User] EXCEPT !.active = TRUE], "restore")
    BY <1>4 DEF UpdateProfile, UpdateCustomer, BlockCustomer, UnblockCustomer
  <2>3. QED
    BY <1>2, <1>3, <2>1, <2>2
<1>5. ASSUME NEW actor \in Admins, NEW s \in Admins,
             UpdateAdmin(q, actor, s) \/ DeactivateAdmin(q, actor, s) \/ ActivateAdmin(q, actor, s)
      PROVE  Started(q)
  <2>1. Exists(s)
    BY <1>5 DEF UpdateAdmin, DeactivateAdmin, ActivateAdmin, Active
  <2>2. \/ Reset(q, s)
        \/ Edit(q, s, accounts[s], "edit")
        \/ Edit(q, s, [accounts[s] EXCEPT !.active = FALSE], "remove")
        \/ Edit(q, s, [accounts[s] EXCEPT !.active = TRUE], "restore")
    BY <1>5 DEF UpdateAdmin, DeactivateAdmin, ActivateAdmin
  <2>3. QED
    BY <1>1, <1>2, <1>3, <2>1, <2>2
<1>6. ASSUME NEW s \in Admins, ChangePassword(q, s)
      PROVE  Started(q)
  BY <1>1, <1>6 DEF ChangePassword, Acting, Active
<1>7. QED
  BY <1>4, <1>5, <1>6 DEF ProfileRoutes, CustomerRoutes, AdminRoutes

LEMMA RoutesOpen ==
  ASSUME TypeInv, NEW q \in Requests,
         \/ OtpRoutes(q) \/ SessionRoutes(q) \/ AdminAuthRoutes(q)
         \/ ProfileRoutes(q) \/ CustomerRoutes(q) \/ AdminRoutes(q)
  PROVE  Started(q)
<1>1. User \in Subject /\ Admins \subseteq Subject
  BY DEF Subject
<1>2. QED
  BY <1>1, CodeRoutesOpen, SessionRoutesOpen, AccountRoutesOpen
     DEF SessionRoutes, AdminAuthRoutes

\* The statements that are not about tokens, and where they lead.
LEMMA OtherStatements ==
  ASSUME TypeInv, NEW q \in Requests,
         \/ SelectCode(q) \/ UpdateCode(q) \/ InsertCode(q)
         \/ FindUser(q) \/ InsertUser(q) \/ FindProfile(q) \/ InsertProfile(q)
         \/ SelectAccount(q) \/ UpdateAccount(q)
  PROVE  /\ InFlight(q) /\ UNCHANGED <<tokens, logins>>
         /\ req[q].at \notin {"retire", "build", "issue", "revoke", "revokeAll"}
         /\ \E r : /\ Go(q, r)
                   /\ \/ r.at \in {"idle", "insertCode", "updateCode", "findUser", "insertUser",
                                   "findProfile", "insertProfile", "updateAccount", "revokeAll"}
                      \/ r.at = "build" /\ r.login /\ r.s = User /\ r.password = Unused
<1> DEFINE Way(r) == \/ r.at \in {"idle", "insertCode", "updateCode", "findUser", "insertUser",
                                  "findProfile", "insertProfile", "updateAccount", "revokeAll"}
                     \/ r.at = "build" /\ r.login /\ r.s = User /\ r.password = Unused
<1>1. /\ InFlight(q) /\ UNCHANGED <<tokens, logins>>
      /\ req[q].at \notin {"retire", "build", "issue", "revoke", "revokeAll"}
  BY DEF SelectCode, UpdateCode, InsertCode, FindUser, InsertUser, FindProfile, InsertProfile,
         SelectAccount, UpdateAccount, At, InFlight, data
<1>2. Way(Idle)
  BY DEF Idle
<1>3. ASSUME Answer(q) PROVE \E r : Go(q, r) /\ Way(r)
  BY <1>2, <1>3 DEF Answer
<1>4. ASSUME NEW at \in {"insertCode", "findUser", "insertUser", "findProfile",
                         "insertProfile"}, Go(q, [at |-> at])
      PROVE  \E r : Go(q, r) /\ Way(r)
  <2> DEFINE r == [at |-> at]
  <2>1. Go(q, r) /\ Way(r)
    BY <1>4
  <2> HIDE DEF r, Way
  <2>2. QED
    BY <2>1
<1>5. ASSUME Go(q, Session(User, Unused, TRUE))
      PROVE  \E r : Go(q, r) /\ Way(r)
  <2> DEFINE r == Session(User, Unused, TRUE)
  <2>1. Go(q, r) /\ Way(r)
    BY <1>5 DEF Session
  <2> HIDE DEF r, Way
  <2>2. QED
    BY <2>1
<1>6. ASSUME SelectCode(q) \/ UpdateCode(q)
      PROVE  \E r : Go(q, r) /\ Way(r)
  <2>1. req[q] \in SavingCode
    BY <1>6, Memory DEF SelectCode, UpdateCode, At
  <2>2. CASE CodeSaved(q)
    BY <1>3, <1>4, <2>1, <2>2 DEF CodeSaved, SavingCode
  <2>3. CASE ~CodeSaved(q)
    <3> DEFINE r == [req[q] EXCEPT !.at = "updateCode",
                                   !.dirty = Differing(codes[req[q].i], req[q].mem)]
    <3>1. Go(q, r)
      BY <1>6, <2>3 DEF SelectCode, UpdateCode
    <3>2. r.at = "updateCode"
      BY <2>1 DEF SavingCode
    <3> HIDE DEF r
    <3>3. QED
      BY <3>1, <3>2
  <2>4. QED
    BY <2>2, <2>3
<1>7. ASSUME SelectAccount(q) \/ UpdateAccount(q)
      PROVE  \E r : Go(q, r) /\ Way(r)
  <2>1. req[q] \in SavingAccount
    BY <1>7, Memory DEF SelectAccount, UpdateAccount, At
  <2>2. CASE AccountSaved(q)
    <3> DEFINE r == [at |-> "revokeAll", s |-> req[q].s]
    <3>1. Answer(q) \/ Go(q, r)
      BY <2>2 DEF AccountSaved
    <3>2. r.at = "revokeAll"
      OBVIOUS
    <3> HIDE DEF r
    <3>3. QED
      BY <1>3, <3>1, <3>2
  <2>3. CASE ~AccountSaved(q)
    <3> DEFINE r == [req[q] EXCEPT !.at = "updateAccount",
                                   !.dirty = Differing(accounts[req[q].s], req[q].mem)]
    <3>1. Go(q, r)
      BY <1>7, <2>3 DEF SelectAccount, UpdateAccount
    <3>2. r.at = "updateAccount"
      BY <2>1 DEF SavingAccount
    <3> HIDE DEF r
    <3>3. QED
      BY <3>1, <3>2
  <2>4. QED
    BY <2>2, <2>3
<1> HIDE DEF Way
<1>8. ASSUME InsertCode(q) \/ FindUser(q) \/ InsertUser(q) \/ FindProfile(q) \/ InsertProfile(q)
      PROVE  \E r : Go(q, r) /\ Way(r)
  BY <1>3, <1>4, <1>5, <1>8 DEF InsertCode, FindUser, InsertUser, FindProfile, InsertProfile
<1>9. QED
  BY <1>1, <1>6, <1>7, <1>8 DEF Way

LEMMA RequestMoves ==
  ASSUME TypeInv, NEW q \in Requests, NEW r, Start(q, r) \/ Go(q, r)
  PROVE  req'[q] = r /\ Others(q)
BY DEF TypeInv, ServerTyped, Start, Go, Others

\* The statements about tokens, one by one.
LEMMA BuildMoves ==
  ASSUME TypeInv, NEW q \in Requests, Build(q)
  PROVE  /\ InFlight(q) /\ Others(q) /\ UNCHANGED <<overlaps, deaths>>
         /\ At(q, "build") /\ req[q] \in Opening /\ UNCHANGED data
         /\ \/ ~Active(req[q].s) /\ req'[q] = Idle
            \/ /\ Active(req[q].s)
               /\ req'[q].at = "issue" /\ req'[q].s = req[q].s
               /\ req'[q].password = req[q].password /\ req'[q].login = req[q].login
<1>1. req[q] \in Opening /\ At(q, "build") /\ InFlight(q) /\ UNCHANGED data
  BY Memory DEF Build, At, InFlight
<1> DEFINE r == [req[q] EXCEPT !.at = "issue"]
<1>2. r.at = "issue" /\ r.s = req[q].s /\ r.password = req[q].password /\ r.login = req[q].login
  BY <1>1 DEF Opening
<1>3. IF Active(req[q].s) THEN Go(q, r) ELSE Go(q, Idle)
  BY DEF Build, Answer
<1> HIDE DEF r
<1>4. UNCHANGED <<overlaps, deaths>>
  BY <1>3 DEF Go
<1>5. CASE Active(req[q].s)
  <2>1. req'[q] = r /\ Others(q)
    BY <1>3, <1>5, RequestMoves
  <2>2. QED
    BY <1>1, <1>2, <1>4, <1>5, <2>1
<1>6. CASE ~Active(req[q].s)
  BY <1>1, <1>3, <1>4, <1>6, RequestMoves
<1>7. QED
  BY <1>5, <1>6

LEMMA IssueMoves ==
  ASSUME TypeInv, NEW q \in Requests, IssueSession(q)
  PROVE  /\ InFlight(q) /\ Others(q) /\ UNCHANGED <<overlaps, deaths, accounts>>
         /\ At(q, "issue") /\ req[q] \in Opening /\ req'[q] = Idle
         /\ tokens' = Append(tokens, [owner |-> req[q].s, password |-> req[q].password,
                                      live |-> TRUE])
         /\ logins' = IF req[q].login THEN logins + 1 ELSE logins
<1>1. req[q] \in Opening /\ At(q, "issue") /\ InFlight(q)
  BY Memory DEF IssueSession, At, InFlight
<1>2. Go(q, Idle)
  BY DEF IssueSession, Answer
<1>3. req'[q] = Idle /\ Others(q)
  BY <1>2, RequestMoves
<1>4. QED
  BY <1>1, <1>2, <1>3 DEF IssueSession, Go

LEMMA RetireMoves ==
  ASSUME TypeInv, NEW q \in Requests, Retire(q)
  PROVE  /\ InFlight(q) /\ Others(q) /\ UNCHANGED <<overlaps, deaths, logins, accounts>>
         /\ At(q, "retire") /\ req[q].i \in 1..Len(tokens)
         /\ req'[q] = Session(tokens[req[q].i].owner, tokens[req[q].i].password, FALSE)
         /\ tokens' = [tokens EXCEPT ![req[q].i].live = FALSE]
<1>1. At(q, "retire") /\ InFlight(q) /\ req[q].i \in 1..Len(tokens)
  BY Memory DEF Retire, At, InFlight
<1> DEFINE r == Session(tokens[req[q].i].owner, tokens[req[q].i].password, FALSE)
<1>2. Go(q, r) /\ UNCHANGED <<logins, accounts>>
      /\ tokens' = [tokens EXCEPT ![req[q].i].live = FALSE]
  BY DEF Retire
<1> HIDE DEF r
<1>3. req'[q] = r /\ Others(q)
  BY <1>2, RequestMoves
<1>4. QED
  BY <1>1, <1>2, <1>3 DEF Go, r

\* What revokes tokens without opening a session.
Revokes ==
  /\ UNCHANGED <<logins, accounts>>
  /\ Len(tokens') = Len(tokens)
  /\ \A i \in 1..Len(tokens) : /\ tokens'[i].live => tokens[i].live
                               /\ tokens'[i].owner = tokens[i].owner
                               /\ tokens'[i].password = tokens[i].password

LEMMA OneRevoked ==
  ASSUME TypeInv, NEW i \in 1..Len(tokens), tokens' = [tokens EXCEPT ![i].live = FALSE],
         UNCHANGED <<logins, accounts>>
  PROVE  Revokes /\ ~tokens'[i].live /\ \A j \in 1..Len(tokens) \ {i} : tokens'[j] = tokens[j]
<1>1. \A j \in 1..Len(tokens) : tokens[j] \in Token
  BY DEF TypeInv, RowsTyped
<1> DEFINE row == [tokens[i] EXCEPT !.live = FALSE]
<1>2. /\ row.live = FALSE /\ row.owner = tokens[i].owner /\ row.password = tokens[i].password
      /\ row \in Token /\ tokens \in Seq(Token)
  BY <1>1 DEF Token, TypeInv, RowsTyped
<1>3. tokens' = [tokens EXCEPT ![i] = row]
  OBVIOUS
<1> HIDE DEF row
<1>4. /\ Len(tokens') = Len(tokens)
      /\ \A j \in 1..Len(tokens) : tokens'[j] = IF j = i THEN row ELSE tokens[j]
  <2>1. /\ Len([tokens EXCEPT ![i] = row]) = Len(tokens)
        /\ \A j \in 1..Len(tokens) :
             [tokens EXCEPT ![i] = row][j] = IF j = i THEN row ELSE tokens[j]
    BY <1>2, SeqUpdated
  <2>2. QED
    BY <1>3, <2>1, Zenon
<1>5. QED
  BY <1>2, <1>4 DEF Revokes

LEMMA RevokeMoves ==
  ASSUME TypeInv, NEW q \in Requests, Revoke(q)
  PROVE  /\ InFlight(q) /\ Others(q) /\ UNCHANGED <<overlaps, deaths>>
         /\ At(q, "revoke") /\ req'[q] = Idle /\ Revokes
<1>1. At(q, "revoke") /\ InFlight(q) /\ req[q].i \in 1..Len(tokens)
  BY Memory DEF Revoke, At, InFlight
<1>2. Go(q, Idle) /\ UNCHANGED <<logins, accounts>>
      /\ tokens' = [tokens EXCEPT ![req[q].i].live = FALSE]
  BY DEF Revoke, Answer
<1>3. req'[q] = Idle /\ Others(q)
  BY <1>2, RequestMoves
<1>4. Revokes
  BY <1>1, <1>2, OneRevoked
<1>5. QED
  BY <1>1, <1>2, <1>3, <1>4 DEF Go

LEMMA RevokeAllMoves ==
  ASSUME TypeInv, NEW q \in Requests, RevokeAll(q)
  PROVE  /\ InFlight(q) /\ Others(q) /\ UNCHANGED <<overlaps, deaths>>
         /\ At(q, "revokeAll") /\ req[q].s \in Subject /\ req'[q] = Idle /\ Revokes
         /\ \A i \in 1..Len(tokens) : tokens[i].owner = req[q].s => ~tokens'[i].live
<1>1. At(q, "revokeAll") /\ InFlight(q) /\ req[q].s \in Subject
  BY Memory DEF RevokeAll, At, InFlight, RevokingAll
<1>2. Go(q, Idle) /\ UNCHANGED <<logins, accounts>>
  BY DEF RevokeAll, Answer
<1>3. req'[q] = Idle /\ Others(q)
  BY <1>2, RequestMoves
<1>4. /\ DOMAIN tokens = 1..Len(tokens) /\ Len(tokens) \in Nat
      /\ \A i \in 1..Len(tokens) : tokens[i] \in Token
  BY DEF TypeInv, RowsTyped
<1>5. \A i \in 1..Len(tokens) : /\ [tokens[i] EXCEPT !.live = FALSE].live = FALSE
                                /\ [tokens[i] EXCEPT !.live = FALSE].owner = tokens[i].owner
                                /\ [tokens[i] EXCEPT !.live = FALSE].password = tokens[i].password
  BY <1>4 DEF Token
<1>6. tokens' = [i \in 1..Len(tokens) |->
                   IF tokens[i].owner = req[q].s THEN [tokens[i] EXCEPT !.live = FALSE]
                                                 ELSE tokens[i]]
  BY <1>4 DEF RevokeAll
<1>7. Len(tokens') = Len(tokens)
  <2>1. DOMAIN tokens' = 1..Len(tokens) /\ tokens' \in Seq(Token)
    BY <1>6, RevokeAllInv DEF TypeInv, RowsTyped
  <2>2. QED
    BY <1>4, <2>1
<1>8. QED
  BY <1>1, <1>2, <1>3, <1>5, <1>6, <1>7 DEF Revokes, Go

LEMMA CrashMoves ==
  ASSUME TypeInv, NEW q \in Requests, Crash(q)
  PROVE  /\ InFlight(q) /\ Others(q) /\ UNCHANGED overlaps
         /\ deaths' = deaths + 1 /\ req'[q] = Idle /\ UNCHANGED data
BY DEF Crash, Die, TypeInv, ServerTyped, Others

-----------------------------------------------------------------------------
(* How many requests are in flight.                                        *)

LEMMA BusyStarts == Init => BusyInv
<1> SUFFICES ASSUME Init PROVE BusyInv
  OBVIOUS
<1>1. overlaps = 0 /\ \A q \in Requests : ~InFlight(q)
  BY DEF Init, ServerInit, Idle, InFlight
<1>2. Busy = {}
  BY <1>1 DEF Busy
<1>3. QED
  BY <1>1, <1>2, FS_EmptySet DEF BusyInv

LEMMA StatementMoves ==
  ASSUME TypeInv, NEW q \in Requests, Statement(q) \/ Crash(q)
  PROVE  InFlight(q) /\ Others(q) /\ UNCHANGED overlaps
<1>1. CASE \/ SelectCode(q) \/ UpdateCode(q) \/ InsertCode(q)
           \/ FindUser(q) \/ InsertUser(q) \/ FindProfile(q) \/ InsertProfile(q)
           \/ SelectAccount(q) \/ UpdateAccount(q)
  <2>1. PICK r : Go(q, r)
    BY <1>1, OtherStatements
  <2>2. QED
    BY <1>1, <2>1, OtherStatements, RequestMoves DEF Go
<1>2. CASE Build(q) \/ IssueSession(q) \/ Retire(q)
  BY <1>2, BuildMoves, IssueMoves, RetireMoves
<1>3. CASE Revoke(q) \/ RevokeAll(q) \/ Crash(q)
  BY <1>3, RevokeMoves, RevokeAllMoves, CrashMoves
<1>4. QED
  BY <1>1, <1>2, <1>3 DEF Statement

LEMMA BusyKept ==
  ASSUME TypeInv, BusyInv, [Next]_vars
  PROVE  BusyInv' /\ overlaps' \in Nat /\ overlaps' >= overlaps
<1>0. overlaps \in Nat /\ ServerTyped(Step)
  BY DEF TypeInv, ServerTyped
<1>1. ASSUME NEW q \in Requests, Started(q)
      PROVE  BusyInv' /\ overlaps' \in Nat /\ overlaps' >= overlaps
  BY <1>0, <1>1, StartBusy DEF Started
<1>2. ASSUME NEW q \in Requests, Statement(q) \/ Crash(q)
      PROVE  BusyInv' /\ overlaps' \in Nat /\ overlaps' >= overlaps
  <2>1. InFlight(q) /\ Others(q) /\ overlaps' = overlaps
    BY <1>2, StatementMoves
  <2>2. BusyInv'
    BY <1>0, <2>1, StepBusy DEF Others
  <2>3. QED
    BY <1>0, <2>1, <2>2
<1>3. ASSUME UNCHANGED server
      PROVE  BusyInv' /\ overlaps' \in Nat /\ overlaps' >= overlaps
  BY <1>0, <1>3 DEF server, BusyInv, Busy, InFlight
<1>4. QED
  BY <1>1, <1>2, <1>3, RoutesOpen DEF Next, vars, Age, Expire

-----------------------------------------------------------------------------
(* The sessions.                                                           *)

\* Rotations that will replace a session, or have revoked it already.
Renewing(q) == At(q, "retire") \/ (req[q].at \in {"build", "issue"} /\ ~req[q].login)
Renewals    == {q \in Requests : Renewing(q)}

\* A rotation has started and its token is still valid.
Unretired == \E q \in Requests : At(q, "retire") /\ tokens[req[q].i].live

\* Sessions there are or will be: one more than counted, as long as some
\* rotation and its token are both in the count.
SessionInv ==
  /\ Cardinality(Live) + Cardinality(Renewals) <= 1 + logins + overlaps
  /\ ~Unretired => Cardinality(Live) + Cardinality(Renewals) <= logins + overlaps

LEMMA SessionsFinite ==
  ASSUME TypeInv, BusyInv
  PROVE  /\ IsFiniteSet(Live) /\ Cardinality(Live) \in Nat /\ Live \subseteq 1..Len(tokens)
         /\ IsFiniteSet(Renewals) /\ Cardinality(Renewals) \in Nat
         /\ logins \in Nat /\ overlaps \in Nat
<1>1. Live \in SUBSET (1..Len(tokens)) /\ Len(tokens) \in Nat
  BY DEF TypeInv, RowsTyped, Live
<1>2. IsFiniteSet(1..Len(tokens))
  BY <1>1, FS_Interval
<1>3. Renewals \in SUBSET Busy
  BY DEF Renewals, Renewing, Busy, At, InFlight
<1>4. QED
  BY <1>1, <1>2, <1>3, Fewer DEF BusyInv, TypeInv, RowsTyped, ServerTyped

\* A step spends no more than it has.
LEMMA SessionStep ==
  ASSUME TypeInv, BusyInv, SessionInv,
         NEW ll \in Nat, NEW rr \in Nat, NEW gg \in Nat, NEW oo \in Nat,
         ll = Cardinality(Live'), rr = Cardinality(Renewals'), gg = logins', oo = overlaps',
         \/ /\ ll + rr + logins + overlaps <= Cardinality(Live) + Cardinality(Renewals) + gg + oo
            /\ Unretired =>
                 \/ Unretired'
                 \/ ll + rr + logins + overlaps + 1
                      <= Cardinality(Live) + Cardinality(Renewals) + gg + oo
         \/ /\ Unretired' /\ ~Unretired
            /\ ll + rr + logins + overlaps
                 <= Cardinality(Live) + Cardinality(Renewals) + gg + oo + 1
  PROVE  SessionInv'
<1> DEFINE l == Cardinality(Live)
           r == Cardinality(Renewals)
           e == Unretired
           ee == Unretired'
<1>1. l \in Nat /\ r \in Nat /\ logins \in Nat /\ overlaps \in Nat
      /\ l + r <= 1 + logins + overlaps /\ (~e => l + r <= logins + overlaps)
  BY SessionsFinite DEF SessionInv
<1>2. \/ /\ ll + rr + logins + overlaps <= l + r + gg + oo
         /\ e => ee \/ ll + rr + logins + overlaps + 1 <= l + r + gg + oo
      \/ ee /\ ~e /\ ll + rr + logins + overlaps <= l + r + gg + oo + 1
  OBVIOUS
<1> HIDE DEF l, r, e, ee
<1>3. PICK g \in Nat, o \in Nat : g = logins /\ o = overlaps
  BY <1>1
<1>4. ll + rr <= 1 + gg + oo /\ (~ee => ll + rr <= gg + oo)
  <2>1. /\ l \in Nat /\ r \in Nat /\ l + r <= 1 + g + o /\ (~e => l + r <= g + o)
        /\ \/ /\ ll + rr + g + o <= l + r + gg + oo
              /\ e => ee \/ ll + rr + g + o + 1 <= l + r + gg + oo
           \/ ee /\ ~e /\ ll + rr + g + o <= l + r + gg + oo + 1
    BY <1>1, <1>2, <1>3
  <2>2. CASE ee
    BY <2>1, <2>2
  <2>3. CASE ~ee
    BY <2>1, <2>3
  <2>4. QED
    BY <2>2, <2>3
<1>5. QED
  BY <1>4 DEF SessionInv, ee

\* A step that opens no session, and starts no rotation.
LEMMA SessionCalm ==
  ASSUME TypeInv, BusyInv, SessionInv, Live' \subseteq Live, Renewals' \subseteq Renewals,
         UNCHANGED logins, overlaps' \in Nat, overlaps' >= overlaps,
         Unretired => Unretired' \/ Live' # Live \/ Renewals' # Renewals
  PROVE  SessionInv'
<1>1. /\ IsFiniteSet(Live) /\ Cardinality(Live) \in Nat
      /\ IsFiniteSet(Renewals) /\ Cardinality(Renewals) \in Nat
      /\ logins \in Nat /\ overlaps \in Nat
  BY SessionsFinite
<1>2. Cardinality(Live') \in Nat /\ Cardinality(Live') <= Cardinality(Live)
  BY <1>1, Fewer
<1>3. Cardinality(Renewals') \in Nat /\ Cardinality(Renewals') <= Cardinality(Renewals)
  BY <1>1, Fewer
<1>4. ASSUME Live' # Live PROVE Cardinality(Live') + 1 <= Cardinality(Live)
  <2>1. PICK x \in Live : x \notin Live'
    BY <1>4
  <2>2. Live' \in SUBSET (Live \ {x})
    BY <2>1
  <2>3. QED
    BY <1>1, <2>2, OneLess
<1>5. ASSUME Renewals' # Renewals PROVE Cardinality(Renewals') + 1 <= Cardinality(Renewals)
  <2>1. PICK x \in Renewals : x \notin Renewals'
    BY <1>5
  <2>2. Renewals' \in SUBSET (Renewals \ {x})
    BY <2>1
  <2>3. QED
    BY <1>1, <2>2, OneLess
<1>6. PICK ll \in Nat : ll = Cardinality(Live') /\ ll <= Cardinality(Live)
                        /\ (Live' # Live => ll + 1 <= Cardinality(Live))
  BY <1>2, <1>4
<1>7. PICK rr \in Nat : rr = Cardinality(Renewals') /\ rr <= Cardinality(Renewals)
                        /\ (Renewals' # Renewals => rr + 1 <= Cardinality(Renewals))
  BY <1>3, <1>5
<1>8. PICK oo \in Nat : oo = overlaps' /\ overlaps <= oo
  BY <1>1
<1>9. PICK gg \in Nat : gg = logins' /\ gg = logins
  BY <1>1
<1>10. ll + rr + logins + overlaps <= Cardinality(Live) + Cardinality(Renewals) + gg + oo
  BY <1>1, <1>6, <1>7, <1>8, <1>9
<1>11. Unretired => \/ Unretired'
                    \/ ll + rr + logins + overlaps + 1
                         <= Cardinality(Live) + Cardinality(Renewals) + gg + oo
  BY <1>1, <1>6, <1>7, <1>8, <1>9
<1>12. QED
  BY <1>6, <1>7, <1>8, <1>9, <1>10, <1>11, SessionStep

\* Tokens are left alone, and the request is at no step that counts, nor was.
LEMMA SessionsStay ==
  ASSUME TypeInv, BusyInv, SessionInv, NEW q \in Requests, Others(q),
         UNCHANGED <<tokens, logins>>, overlaps' \in Nat, overlaps' >= overlaps,
         ~At(q, "retire"), ~Renewing(q)' \/ Renewing(q)
  PROVE  SessionInv'
<1>1. Live' = Live
  BY DEF Live
<1>2. Renewals' \subseteq Renewals
  BY DEF Renewals, Renewing, Others, At
<1>3. Unretired => Unretired'
  <2>1. ASSUME NEW p \in Requests, At(p, "retire"), tokens[req[p].i].live
        PROVE  Unretired'
    <3>1. p # q /\ req'[p] = req[p]
      BY <2>1 DEF Others
    <3>2. QED
      BY <2>1, <3>1 DEF Unretired, At
  <2>2. QED
    BY <2>1 DEF Unretired
<1>4. QED
  BY <1>1, <1>2, <1>3, SessionCalm

LEMMA SessionsIdle ==
  ASSUME TypeInv, BusyInv, SessionInv, UNCHANGED <<req, tokens, logins, overlaps>>
  PROVE  SessionInv'
<1>1. Live' = Live /\ Renewals' = Renewals /\ (Unretired => Unretired')
  BY DEF Live, Renewals, Renewing, Unretired, At
<1>2. overlaps' \in Nat /\ overlaps' >= overlaps
  BY DEF TypeInv, ServerTyped
<1>3. QED
  BY <1>1, <1>2, SessionCalm

LEMMA SessionsStart ==
  ASSUME TypeInv, BusyInv, SessionInv, NEW q \in Requests, Started(q)
  PROVE  SessionInv'
<1>1. PICK r : Start(q, r) /\ Opens(q, r)
  BY DEF Started
<1>2. /\ req'[q] = r /\ Others(q) /\ req[q].at = "idle" /\ UNCHANGED <<tokens, logins>>
      /\ overlaps' \in Nat /\ overlaps' >= overlaps /\ (Quiet \/ overlaps' = overlaps + 1)
  <2>1. ServerTyped(Step)
    BY DEF TypeInv
  <2>2. QED
    BY <1>1, <2>1, StartBusy, RequestMoves DEF Started, Start, InFlight
<1>3. CASE r.at # "retire"
  <2>1. ~(r.at = "retire" \/ (r.at \in {"build", "issue"} /\ ~r.login))
    BY <1>1, <1>3 DEF Opens
  <2>2. ~Renewing(q)' /\ ~At(q, "retire")
    BY <1>2, <2>1 DEF Renewing, At
  <2>3. QED
    BY <1>2, <2>2, SessionsStay
<1>4. CASE r.at = "retire"
  <2>1. r.i \in Live
    BY <1>1, <1>4 DEF Opens
  <2>2. Unretired'
    BY <1>2, <1>4, <2>1 DEF Unretired, At, Live
  <2>3. Live' = Live
    BY <1>2 DEF Live
  <2>4. Renewals' \in SUBSET (Renewals \cup {q})
    BY <1>2 DEF Renewals, Renewing, Others, At
  <2>5. /\ Cardinality(Live) \in Nat /\ IsFiniteSet(Renewals)
        /\ logins \in Nat /\ overlaps \in Nat
    BY SessionsFinite
  <2>6. /\ Cardinality(Renewals') \in Nat /\ Cardinality(Renewals) \in Nat
        /\ Cardinality(Renewals') <= Cardinality(Renewals) + 1
    BY <2>4, <2>5, OneMore
  <2>7. Quiet => ~Unretired
    BY DEF Quiet, Unretired, InFlight, At
  <2>8. PICK ll \in Nat : ll = Cardinality(Live') /\ ll = Cardinality(Live)
    BY <2>3, <2>5
  <2>9. PICK rr \in Nat : rr = Cardinality(Renewals') /\ rr <= Cardinality(Renewals) + 1
    BY <2>6
  <2>10. PICK gg \in Nat : gg = logins' /\ gg = logins
    BY <1>2, <2>5
  <2>11. PICK oo \in Nat : oo = overlaps' /\ overlaps <= oo /\ (Quiet \/ oo = overlaps + 1)
    BY <1>2, <2>5
  <2>12. CASE Unretired
    <3>1. oo = overlaps + 1
      BY <2>7, <2>11, <2>12
    <3>2. ll + rr + logins + overlaps <= Cardinality(Live) + Cardinality(Renewals) + gg + oo
      BY <2>5, <2>6, <2>8, <2>9, <2>10, <3>1
    <3>3. QED
      BY <2>2, <2>8, <2>9, <2>10, <2>11, <3>2, SessionStep
  <2>13. CASE ~Unretired
    <3>1. ll + rr + logins + overlaps <= Cardinality(Live) + Cardinality(Renewals) + gg + oo + 1
      BY <2>5, <2>6, <2>8, <2>9, <2>10, <2>11
    <3>2. QED
      BY <2>2, <2>8, <2>9, <2>10, <2>11, <2>13, <3>1, SessionStep
  <2>14. QED
    BY <2>12, <2>13
<1>5. QED
  BY <1>3, <1>4

LEMMA SessionsRevoked ==
  ASSUME TypeInv, BusyInv, SessionInv, Revokes, UNCHANGED overlaps,
         Renewals' \subseteq Renewals,
         Live' # Live \/ Renewals' # Renewals
           \/ \A p \in Requests : At(p, "retire") => req'[p] = req[p]
  PROVE  SessionInv'
<1>1. Live' \subseteq Live
  BY DEF Revokes, Live, TypeInv, RowsTyped
<1>2. ASSUME Live' = Live, \A p \in Requests : At(p, "retire") => req'[p] = req[p]
      PROVE  Unretired => Unretired'
  <2>1. ASSUME NEW p \in Requests, At(p, "retire"), tokens[req[p].i].live
        PROVE  Unretired'
    <3>1. req'[p] = req[p] /\ req[p].i \in 1..Len(tokens)
      BY <1>2, <2>1, Memory DEF At
    <3>2. req[p].i \in Live
      BY <2>1, <3>1 DEF Live, TypeInv, RowsTyped
    <3>3. tokens'[req[p].i].live
      BY <1>2, <3>2 DEF Live
    <3>4. QED
      BY <2>1, <3>1, <3>3 DEF Unretired, At
  <2>2. QED
    BY <2>1 DEF Unretired
<1>3. overlaps' \in Nat /\ overlaps' >= overlaps
  BY DEF TypeInv, ServerTyped
<1>4. QED
  BY <1>1, <1>2, <1>3, SessionCalm DEF Revokes

LEMMA SessionsIssue ==
  ASSUME TypeInv, BusyInv, SessionInv, NEW q \in Requests, IssueSession(q)
  PROVE  SessionInv'
<1>1. /\ Others(q) /\ overlaps' = overlaps /\ At(q, "issue") /\ req'[q].at = "idle"
      /\ tokens' = Append(tokens, [owner |-> req[q].s, password |-> req[q].password,
                                   live |-> TRUE])
      /\ logins' = IF req[q].login THEN logins + 1 ELSE logins
      /\ req[q].login \in BOOLEAN
  BY IssueMoves DEF Idle, Opening
<1>2. /\ IsFiniteSet(Live) /\ Cardinality(Live) \in Nat
      /\ IsFiniteSet(Renewals) /\ Cardinality(Renewals) \in Nat
      /\ logins \in Nat /\ overlaps \in Nat
  BY SessionsFinite
<1>3. /\ tokens \in Seq(Token) /\ Len(tokens) \in Nat /\ DOMAIN tokens = 1..Len(tokens)
      /\ DOMAIN tokens' = 1..(Len(tokens) + 1)
      /\ \A i \in 1..Len(tokens) : tokens'[i] = tokens[i]
  BY <1>1 DEF TypeInv, RowsTyped
<1>4. Live' \in SUBSET (Live \cup {Len(tokens) + 1})
  BY <1>3 DEF Live
<1>5. Cardinality(Live') \in Nat /\ Cardinality(Live') <= Cardinality(Live) + 1
  BY <1>2, <1>4, OneMore
<1>6. Renewals' \in SUBSET Renewals /\ (~req[q].login => Renewals' \in SUBSET (Renewals \ {q}))
  BY <1>1 DEF Renewals, Renewing, Others, At
<1>7. Cardinality(Renewals') \in Nat /\ Cardinality(Renewals') <= Cardinality(Renewals)
  BY <1>2, <1>6, Fewer
<1>8. ASSUME ~req[q].login PROVE Cardinality(Renewals') + 1 <= Cardinality(Renewals)
  <2>1. q \in Renewals
    BY <1>1, <1>8 DEF Renewals, Renewing, At
  <2>2. QED
    BY <1>2, <1>6, <1>8, <2>1, OneLess
<1>9. Unretired => Unretired'
  <2>1. ASSUME NEW p \in Requests, At(p, "retire"), tokens[req[p].i].live
        PROVE  Unretired'
    <3>1. req'[p] = req[p] /\ req[p].i \in 1..Len(tokens)
      BY <1>1, <2>1, Memory DEF At, Others
    <3>2. QED
      BY <1>3, <2>1, <3>1 DEF Unretired, At
  <2>2. QED
    BY <2>1 DEF Unretired
<1>10. PICK ll \in Nat : ll = Cardinality(Live') /\ ll <= Cardinality(Live) + 1
  BY <1>5
<1>11. PICK rr \in Nat : rr = Cardinality(Renewals') /\ rr <= Cardinality(Renewals)
                         /\ (~req[q].login => rr + 1 <= Cardinality(Renewals))
  BY <1>7, <1>8
<1>12. PICK gg \in Nat : gg = logins' /\ gg = IF req[q].login THEN logins + 1 ELSE logins
  BY <1>1, <1>2
<1>13. PICK oo \in Nat : oo = overlaps' /\ oo = overlaps
  BY <1>1, <1>2
<1>14. ll + rr + logins + overlaps <= Cardinality(Live) + Cardinality(Renewals) + gg + oo
  <2>1. /\ ll <= Cardinality(Live) + 1 /\ oo = overlaps
        /\ rr <= Cardinality(Renewals) /\ (~req[q].login => rr + 1 <= Cardinality(Renewals))
        /\ gg = IF req[q].login THEN logins + 1 ELSE logins
    BY <1>10, <1>11, <1>12, <1>13
  <2>2. CASE req[q].login
    BY <1>2, <2>1, <2>2
  <2>3. CASE ~req[q].login
    BY <1>2, <2>1, <2>3
  <2>4. QED
    BY <2>2, <2>3
<1>15. QED
  BY <1>9, <1>10, <1>11, <1>12, <1>13, <1>14, SessionStep

LEMMA SessionsKept ==
  ASSUME TypeInv, BusyInv, SessionInv, [Next]_vars
  PROVE  SessionInv'
<1>0. TypeInv' /\ overlaps' \in Nat /\ overlaps' >= overlaps /\ overlaps \in Nat
  BY AccountsAssumption, NoRowAssumption, NextInv, BusyKept DEF TypeInv, ServerTyped
<1>1. ASSUME NEW q \in Requests,
             \/ SelectCode(q) \/ UpdateCode(q) \/ InsertCode(q)
             \/ FindUser(q) \/ InsertUser(q) \/ FindProfile(q) \/ InsertProfile(q)
             \/ SelectAccount(q) \/ UpdateAccount(q)
      PROVE  SessionInv'
  <2>1. PICK r : /\ Go(q, r)
                 /\ \/ r.at \in {"idle", "insertCode", "updateCode", "findUser", "insertUser",
                                 "findProfile", "insertProfile", "updateAccount", "revokeAll"}
                    \/ r.at = "build" /\ r.login
    BY <1>1, OtherStatements
  <2>2. UNCHANGED <<tokens, logins>> /\ req[q].at \notin {"retire", "build", "issue"}
    BY <1>1, OtherStatements
  <2>3. req'[q] = r /\ Others(q)
    BY <2>1, RequestMoves
  <2>4. ~Renewing(q)' /\ ~At(q, "retire")
    BY <2>1, <2>2, <2>3 DEF Renewing, At
  <2>5. QED
    BY <1>0, <2>2, <2>3, <2>4, SessionsStay
<1>2. ASSUME NEW q \in Requests, Build(q)
      PROVE  SessionInv'
  <2>1. Others(q) /\ At(q, "build") /\ UNCHANGED data
        /\ (req'[q] = Idle \/ (req'[q].at = "issue" /\ req'[q].login = req[q].login))
    BY <1>2, BuildMoves
  <2>2. (~Renewing(q)' \/ Renewing(q)) /\ ~At(q, "retire")
    BY <2>1 DEF Renewing, At, Idle
  <2>3. UNCHANGED <<tokens, logins>>
    BY <2>1 DEF data
  <2>4. QED
    BY <1>0, <2>1, <2>2, <2>3, SessionsStay
<1>3. ASSUME NEW q \in Requests, Retire(q)
      PROVE  SessionInv'
  <2>1. /\ Others(q) /\ overlaps' = overlaps /\ UNCHANGED <<logins, accounts>> /\ At(q, "retire")
        /\ req[q].i \in 1..Len(tokens)
        /\ req'[q] = Session(tokens[req[q].i].owner, tokens[req[q].i].password, FALSE)
        /\ tokens' = [tokens EXCEPT ![req[q].i].live = FALSE]
    BY <1>3, RetireMoves
  <2>2. /\ Revokes /\ ~tokens'[req[q].i].live
        /\ \A j \in 1..Len(tokens) \ {req[q].i} : tokens'[j] = tokens[j]
    BY <2>1, OneRevoked
  <2>3. Renewals' \subseteq Renewals
    BY <2>1 DEF Renewals, Renewing, Others, At, Session
  <2>4. DOMAIN tokens = 1..Len(tokens) /\ DOMAIN tokens' = 1..Len(tokens)
    BY <1>0, <2>2 DEF TypeInv, RowsTyped, Revokes
  <2>5. CASE tokens[req[q].i].live
    <3>1. Live' # Live
      BY <2>1, <2>2, <2>4, <2>5 DEF Live
    <3>2. QED
      BY <2>1, <2>2, <2>3, <3>1, SessionsRevoked
  <2>6. CASE ~tokens[req[q].i].live
    <3>1. Live' \subseteq Live
      BY <2>2, <2>4 DEF Live, Revokes
    <3>2. Unretired => Unretired'
      <4>1. ASSUME NEW p \in Requests, At(p, "retire"), tokens[req[p].i].live
            PROVE  Unretired'
        <5>1. p # q /\ req[p].i # req[q].i
          BY <2>6, <4>1
        <5>2. req'[p] = req[p] /\ req[p].i \in 1..Len(tokens)
          BY <2>1, <4>1, <5>1, Memory DEF At, Others
        <5>3. tokens'[req[p].i].live
          BY <2>2, <4>1, <5>1, <5>2
        <5>4. QED
          BY <4>1, <5>2, <5>3 DEF Unretired, At
      <4>2. QED
        BY <4>1 DEF Unretired
    <3>3. QED
      BY <1>0, <2>1, <2>3, <3>1, <3>2, SessionCalm
  <2>7. QED
    BY <2>5, <2>6
<1>4. ASSUME NEW q \in Requests, Revoke(q) \/ RevokeAll(q)
      PROVE  SessionInv'
  <2>1. /\ Others(q) /\ overlaps' = overlaps /\ Revokes /\ req'[q] = Idle
        /\ ~At(q, "retire")
    BY <1>4, RevokeMoves, RevokeAllMoves DEF At
  <2>2. Renewals' \subseteq Renewals
    BY <2>1 DEF Renewals, Renewing, Others, At, Idle
  <2>3. \A p \in Requests : At(p, "retire") => req'[p] = req[p]
    BY <2>1 DEF Others
  <2>4. QED
    BY <2>1, <2>2, <2>3, SessionsRevoked
<1>5. ASSUME NEW q \in Requests, Crash(q)
      PROVE  SessionInv'
  <2>1. Others(q) /\ overlaps' = overlaps /\ req'[q] = Idle /\ UNCHANGED data
    BY <1>5, CrashMoves
  <2>2. Live' = Live /\ UNCHANGED <<logins, tokens>>
    BY <2>1 DEF data, Live
  <2>3. Renewals' \subseteq Renewals
    BY <2>1 DEF Renewals, Renewing, Others, At, Idle
  <2>4. CASE At(q, "retire")
    <3>1. q \in Renewals /\ q \notin Renewals'
      BY <2>1, <2>4 DEF Renewals, Renewing, At, Idle
    <3>2. QED
      BY <1>0, <2>1, <2>2, <2>3, <3>1, SessionCalm
  <2>5. CASE ~At(q, "retire")
    <3>1. ~Renewing(q)'
      BY <2>1 DEF Renewing, At, Idle
    <3>2. QED
      BY <1>0, <2>1, <2>2, <2>5, <3>1, SessionsStay
  <2>6. QED
    BY <2>4, <2>5
<1>6. ASSUME NEW i \in DOMAIN tokens, Expire(i)
      PROVE  SessionInv'
  <2>1. /\ i \in 1..Len(tokens) /\ tokens' = [tokens EXCEPT ![i].live = FALSE]
        /\ UNCHANGED <<logins, accounts, req, overlaps>>
    BY <1>6 DEF Expire, server, TypeInv, RowsTyped
  <2>2. Revokes
    BY <2>1, OneRevoked
  <2>3. Renewals' \subseteq Renewals /\ \A p \in Requests : req'[p] = req[p]
    BY <2>1 DEF Renewals, Renewing, At
  <2>4. QED
    BY <2>1, <2>2, <2>3, SessionsRevoked
<1>7. ASSUME \/ UNCHANGED vars
             \/ \E i \in DOMAIN codes : Age(i)
      PROVE  SessionInv'
  <2>1. UNCHANGED <<req, tokens, logins, overlaps>>
    BY <1>7 DEF vars, data, server, Age
  <2>2. QED
    BY <2>1, SessionsIdle
<1>8. ASSUME NEW q \in Requests, Statement(q)
      PROVE  SessionInv'
  BY <1>1, <1>2, <1>3, <1>4, <1>8, SessionsIssue DEF Statement
<1>9. QED
  BY <1>5, <1>6, <1>7, <1>8, SessionsStart, RoutesOpen DEF Next

LEMMA SessionsInit == Init => SessionInv
<1> SUFFICES ASSUME Init PROVE SessionInv
  OBVIOUS
<1>1. overlaps = 0 /\ logins = 0 /\ tokens = <<>> /\ \A q \in Requests : req[q].at = "idle"
  BY DEF Init, ServerInit, Idle
<1>2. Live = {} /\ Renewals = {}
  BY <1>1 DEF Live, Renewals, Renewing, At
<1>3. Cardinality(Live) = 0 /\ Cardinality(Renewals) = 0
  BY <1>2, FS_EmptySet
<1>4. QED
  BY <1>1, <1>3 DEF SessionInv

\* Rotation replaces a session and never multiplies it: at most one live
\* session for every login and every overlap, however often, and by how many
\* at once, the tokens are rotated.
THEOREM SessionsAlwaysBounded == Spec => []SessionsBounded
<1> DEFINE Inv == TypeInv /\ BusyInv /\ SessionInv
<1>1. Init => Inv
  BY AccountsAssumption, InitInv, BusyStarts, SessionsInit
<1>2. Inv /\ [Next]_vars => Inv'
  BY AccountsAssumption, NoRowAssumption, NextInv, BusyKept, SessionsKept
<1>3. Inv => SessionsBounded
  <2> SUFFICES ASSUME Inv PROVE SessionsBounded
    OBVIOUS
  <2>1. /\ Cardinality(Live) \in Nat /\ IsFiniteSet(Renewals) /\ Cardinality(Renewals) \in Nat
        /\ logins \in Nat /\ overlaps \in Nat
    BY SessionsFinite
  <2>2. CASE Unretired
    <3>1. PICK q \in Requests : q \in Renewals
      BY <2>2 DEF Unretired, Renewals, Renewing
    <3>2. Cardinality(Renewals) # 0
      BY <2>1, <3>1, FS_EmptySet
    <3>3. QED
      BY <2>1, <3>2 DEF SessionInv, SessionsBounded
  <2>3. CASE ~Unretired
    BY <2>1, <2>3 DEF SessionInv, SessionsBounded
  <2>4. QED
    BY <2>2, <2>3
<1> HIDE DEF Inv
<1>4. QED
  BY <1>1, <1>2, <1>3, PTL DEF Spec

-----------------------------------------------------------------------------
(* The codes.                                                              *)

\* A code that request q is about to save, with a guess or as expired.
SavesCode(q) == At(q, "selectCode") \/ At(q, "updateCode")
Comparing(q) == SavesCode(q) /\ req[q].op # "expire"
Expiring(q)  == SavesCode(q) /\ req[q].op = "expire"

\* Its row had expired when it was compared: the save leaves the age alone.
Blunt(q) == Expiring(q) /\ At(q, "updateCode") /\ "age" \notin req[q].dirty

\* Requests that will insert a code.
Sending == {q \in Requests : At(q, "insertCode") \/ Expiring(q)}

\* Codes that are valid, or may be once a save is over: a verification writes
\* the age it has loaded, and a code may become unverified again.
Usable ==
  Valid \cup {req[q].i : q \in {p \in Requests : Comparing(p)}}
        \cup {i \in DOMAIN codes : /\ codes[i].age # "expired"
                                   /\ \E q \in Requests : Blunt(q) /\ req[q].i = i}

\* A code and the request that will expire it are both in the count.
Retiring ==
  /\ \A q \in Requests : ~Comparing(q)
  /\ \E q \in Requests : Expiring(q) /\ ~Blunt(q) /\ req[q].i \in Valid

ValidInv ==
  /\ \A q \in Requests : Expiring(q) => req[q].mem.age = "expired" /\ ~req[q].mem.verified
  /\ Cardinality(Usable) + Cardinality(Sending) <= 2 + overlaps
  /\ ~Retiring => Cardinality(Usable) + Cardinality(Sending) <= 1 + overlaps

\* A guess at code i that its row does not show yet.
Counting(i) ==
  \E q \in Requests : /\ SavesCode(q) /\ req[q].i = i
                      /\ At(q, "selectCode") \/ "attempts" \in req[q].dirty

\* Guesses that no request remembers and no row shows: one for every overlap
\* and every death.
GuessInv ==
  /\ \A q \in Requests : SavesCode(q) =>
       guesses[req[q].i] <= req[q].mem.attempts + overlaps + deaths
  /\ \A i \in DOMAIN codes :
       /\ guesses[i] <= 1 + codes[i].attempts + overlaps + deaths
       /\ ~Counting(i) => guesses[i] <= codes[i].attempts + overlaps + deaths
       /\ guesses[i] <= MaxAttempts + overlaps + deaths

LEMMA CodeTypes ==
  ASSUME TypeInv
  PROVE  /\ codes \in Seq(Code) /\ Len(codes) \in Nat /\ DOMAIN codes = 1..Len(codes)
         /\ DOMAIN guesses = 1..Len(codes) /\ guesses \in Seq(Nat)
         /\ \A i \in 1..Len(codes) : /\ codes[i] \in Code
                                     /\ codes[i].age \in {"fresh", "live", "expired"}
                                     /\ codes[i].verified \in BOOLEAN
                                     /\ codes[i].attempts \in Nat
                                     /\ guesses[i] \in Nat
         /\ overlaps \in Nat /\ deaths \in Nat /\ MaxAttempts \in Nat
         /\ \A q \in Requests : SavesCode(q) =>
              /\ req[q] \in SavingCode /\ req[q].i \in 1..Len(codes)
              /\ req[q].mem \in Code /\ req[q].mem.attempts \in Nat
              /\ req[q].mem.age \in {"fresh", "live", "expired"}
              /\ req[q].mem.verified \in BOOLEAN
              /\ req[q].op \in {"expire", "wrong", "right"}
<1>1. /\ codes \in Seq(Code) /\ Len(codes) \in Nat /\ DOMAIN codes = 1..Len(codes)
      /\ DOMAIN guesses = 1..Len(codes) /\ guesses \in Seq(Nat)
      /\ \A i \in 1..Len(codes) : codes[i] \in Code /\ guesses[i] \in Nat
      /\ overlaps \in Nat /\ deaths \in Nat /\ MaxAttempts \in Nat
  BY AccountsAssumption DEF TypeInv, RowsTyped, ServerTyped, AccountsAssumption
<1>2. ASSUME NEW row \in Code
      PROVE  /\ row.age \in {"fresh", "live", "expired"}
             /\ row.verified \in BOOLEAN /\ row.attempts \in Nat
  BY DEF Code
<1>3. ASSUME NEW q \in Requests, SavesCode(q)
      PROVE  /\ req[q] \in SavingCode /\ req[q].i \in 1..Len(codes)
             /\ req[q].mem \in Code /\ req[q].op \in {"expire", "wrong", "right"}
  <2>1. req[q] \in SavingCode /\ req[q].i \in 1..Len(codes)
    BY <1>3, Memory DEF SavesCode, At
  <2>2. QED
    BY <2>1 DEF SavingCode
<1>4. QED
  BY <1>1, <1>2, <1>3

\* A save's first half.
LEMMA SelectCodeMoves ==
  ASSUME TypeInv, NEW q \in Requests, SelectCode(q)
  PROVE  /\ Others(q) /\ UNCHANGED <<overlaps, deaths, data>> /\ At(q, "selectCode")
         /\ \/ /\ codes[req[q].i] = req[q].mem /\ ~SavesCode(q)'
               /\ IF req[q].op = "expire" THEN At(q, "insertCode")' ELSE ~At(q, "insertCode")'
            \/ /\ req'[q].at = "updateCode" /\ req'[q].i = req[q].i
               /\ req'[q].mem = req[q].mem /\ req'[q].op = req[q].op
               /\ \A c \in Column :
                    c \in req'[q].dirty <=> codes[req[q].i][c] # req[q].mem[c]
<1> DEFINE diff == Differing(codes[req[q].i], req[q].mem)
           r    == [req[q] EXCEPT !.at = "updateCode", !.dirty = diff]
<1>1. /\ At(q, "selectCode") /\ SavesCode(q) /\ UNCHANGED data
      /\ IF diff = {} THEN CodeSaved(q) ELSE Go(q, r)
  BY DEF SelectCode, At, SavesCode
<1>2. /\ req[q] \in SavingCode /\ codes[req[q].i] \in Code /\ req[q].mem \in Code
      /\ req[q].op \in {"expire", "wrong", "right"}
  BY <1>1, CodeTypes
<1>3. \A c \in Column : c \in diff <=> codes[req[q].i][c] # req[q].mem[c]
  BY <1>2, ColumnIs DEF Differing, Code
<1>4. r.at = "updateCode" /\ r.i = req[q].i /\ r.mem = req[q].mem /\ r.op = req[q].op
      /\ r.dirty = diff
  BY <1>2 DEF SavingCode
<1>5. CASE diff = {}
  <2>1. codes[req[q].i] = req[q].mem
    <3>1. \A c \in Column : codes[req[q].i][c] = req[q].mem[c]
      BY <1>3, <1>5
    <3>2. QED
      BY <1>2, <3>1, ColumnIs DEF Code
  <2>2. CASE req[q].op = "expire"
    <3> DEFINE s == [at |-> "insertCode"]
    <3>1. Go(q, s) /\ s.at = "insertCode"
      BY <1>1, <1>5, <2>2 DEF CodeSaved
    <3> HIDE DEF s
    <3>2. req'[q] = s /\ Others(q) /\ UNCHANGED <<overlaps, deaths>>
      BY <3>1, RequestMoves DEF Go
    <3>3. QED
      BY <1>1, <2>1, <2>2, <3>1, <3>2 DEF SavesCode, At
  <2>3. CASE req[q].op # "expire"
    <3>1. Answer(q) \/ Go(q, [at |-> "findUser"])
      BY <1>1, <1>2, <1>5, <2>3 DEF CodeSaved
    <3>2. PICK s : Go(q, s) /\ s.at \in {"idle", "findUser"}
      BY <3>1 DEF Answer, Idle
    <3>3. req'[q] = s /\ Others(q) /\ UNCHANGED <<overlaps, deaths>>
      BY <3>2, RequestMoves DEF Go
    <3>4. QED
      BY <1>1, <2>1, <2>3, <3>2, <3>3 DEF SavesCode, At
  <2>4. QED
    BY <2>2, <2>3
<1>6. CASE diff # {}
  <2>1. Go(q, r)
    BY <1>1, <1>6
  <2> HIDE DEF r, diff
  <2>2. req'[q] = r /\ Others(q) /\ UNCHANGED <<overlaps, deaths>>
    BY <2>1, RequestMoves DEF Go
  <2>3. QED
    BY <1>1, <1>3, <1>4, <2>2
<1>7. QED
  BY <1>5, <1>6

\* And its second half.
LEMMA UpdateCodeMoves ==
  ASSUME TypeInv, NEW q \in Requests, UpdateCode(q)
  PROVE  /\ Others(q) /\ UNCHANGED <<overlaps, deaths, guesses>> /\ At(q, "updateCode")
         /\ ~SavesCode(q)'
         /\ IF req[q].op = "expire" THEN At(q, "insertCode")' ELSE ~At(q, "insertCode")'
         /\ DOMAIN codes' = DOMAIN codes
         /\ \A i \in DOMAIN codes : i # req[q].i => codes'[i] = codes[i]
         /\ \A c \in Column : codes'[req[q].i][c] =
              IF c \in req[q].dirty THEN req[q].mem[c] ELSE codes[req[q].i][c]
<1> DEFINE row == Overwrite(codes[req[q].i], req[q].mem, req[q].dirty)
<1>1. /\ At(q, "updateCode") /\ SavesCode(q) /\ UNCHANGED guesses /\ CodeSaved(q)
      /\ codes' = [codes EXCEPT ![req[q].i] = row]
  BY DEF UpdateCode, At, SavesCode
<1>2. /\ req[q] \in SavingCode /\ codes[req[q].i] \in Code /\ req[q].mem \in Code
      /\ req[q].op \in {"expire", "wrong", "right"} /\ req[q].i \in 1..Len(codes)
      /\ DOMAIN codes = 1..Len(codes)
  BY <1>1, CodeTypes
<1>3. \A c \in Column : row[c] = IF c \in req[q].dirty THEN req[q].mem[c] ELSE codes[req[q].i][c]
  BY <1>2, ColumnIs DEF Overwrite, Code
<1> HIDE DEF row
<1>4. /\ DOMAIN codes' = DOMAIN codes /\ codes'[req[q].i] = row
      /\ \A i \in DOMAIN codes : i # req[q].i => codes'[i] = codes[i]
  BY <1>1, <1>2
<1>5. CASE req[q].op = "expire"
  <2> DEFINE s == [at |-> "insertCode"]
  <2>1. Go(q, s) /\ s.at = "insertCode"
    BY <1>1, <1>5 DEF CodeSaved
  <2> HIDE DEF s
  <2>2. req'[q] = s /\ Others(q) /\ UNCHANGED <<overlaps, deaths>>
    BY <2>1, RequestMoves DEF Go
  <2>3. QED
    BY <1>1, <1>3, <1>4, <1>5, <2>1, <2>2 DEF SavesCode, At
<1>6. CASE req[q].op # "expire"
  <2>1. Answer(q) \/ Go(q, [at |-> "findUser"])
    BY <1>1, <1>2, <1>6 DEF CodeSaved
  <2>2. PICK s : Go(q, s) /\ s.at \in {"idle", "findUser"}
    BY <2>1 DEF Answer, Idle
  <2>3. req'[q] = s /\ Others(q) /\ UNCHANGED <<overlaps, deaths>>
    BY <2>2, RequestMoves DEF Go
  <2>4. QED
    BY <1>1, <1>3, <1>4, <1>6, <2>2, <2>3 DEF SavesCode, At
<1>7. QED
  BY <1>5, <1>6

LEMMA InsertCodeMoves ==
  ASSUME TypeInv, NEW q \in Requests, InsertCode(q)
  PROVE  /\ Others(q) /\ UNCHANGED <<overlaps, deaths>> /\ At(q, "insertCode")
         /\ req'[q].at = "idle"
         /\ DOMAIN codes' = 1..(Len(codes) + 1)
         /\ \A i \in 1..Len(codes) : codes'[i] = codes[i] /\ guesses'[i] = guesses[i]
         /\ codes'[Len(codes) + 1].attempts = 0 /\ guesses'[Len(codes) + 1] = 0
<1> DEFINE row == [age |-> "fresh", attempts |-> 0, verified |-> FALSE]
<1>1. Go(q, Idle) /\ At(q, "insertCode") /\ codes' = Append(codes, row)
      /\ guesses' = Append(guesses, 0)
  BY DEF InsertCode, Answer
<1>2. row.attempts = 0
  OBVIOUS
<1> HIDE DEF row
<1>3. req'[q] = Idle /\ Others(q) /\ UNCHANGED <<overlaps, deaths>>
  BY <1>1, RequestMoves DEF Go
<1>4. /\ codes \in Seq(Code) /\ Len(codes) \in Nat /\ guesses \in Seq(Nat)
      /\ Len(guesses) = Len(codes)
  BY DEF TypeInv, RowsTyped
<1>5. /\ DOMAIN codes' = 1..(Len(codes) + 1) /\ codes'[Len(codes) + 1] = row
      /\ \A i \in 1..Len(codes) : codes'[i] = codes[i]
  BY <1>1, <1>4
<1>6. /\ guesses'[Len(codes) + 1] = 0
      /\ \A i \in 1..Len(codes) : guesses'[i] = guesses[i]
  BY <1>1, <1>4
<1>7. codes'[Len(codes) + 1].attempts = 0
  BY <1>2, <1>5
<1>8. req'[q].at = "idle" /\ At(q, "insertCode")
  BY <1>1, <1>3 DEF Idle
<1>9. QED
  BY <1>3, <1>5, <1>6, <1>7, <1>8, Zenon

LEMMA CodesFinite ==
  ASSUME TypeInv, BusyInv
  PROVE  /\ IsFiniteSet(Usable) /\ Cardinality(Usable) \in Nat /\ Usable \subseteq 1..Len(codes)
         /\ IsFiniteSet(Sending) /\ Cardinality(Sending) \in Nat
         /\ Valid \subseteq Usable /\ overlaps \in Nat
<1>1. Len(codes) \in Nat /\ DOMAIN codes = 1..Len(codes) /\ overlaps \in Nat
  BY CodeTypes
<1>2. Usable \in SUBSET (1..Len(codes)) /\ Valid \subseteq Usable
  BY <1>1, CodeTypes DEF Usable, Valid, Unverified, Comparing
<1>3. IsFiniteSet(1..Len(codes))
  BY <1>1, FS_Interval
<1>4. Sending \in SUBSET Busy
  BY DEF Sending, Expiring, SavesCode, Busy, At, InFlight
<1>5. QED
  BY <1>1, <1>2, <1>3, <1>4, Fewer DEF BusyInv

\* The count after a step.
CountAfter ==
  /\ Cardinality(Usable)' + Cardinality(Sending)' <= 2 + overlaps'
  /\ ~Retiring' => Cardinality(Usable)' + Cardinality(Sending)' <= 1 + overlaps'

LEMMA CodeCount ==
  ASSUME TypeInv, BusyInv, ValidInv,
         NEW uu \in Nat, NEW ss \in Nat, NEW oo \in Nat,
         uu = Cardinality(Usable'), ss = Cardinality(Sending'), oo = overlaps',
         \/ /\ uu + ss + overlaps <= Cardinality(Usable) + Cardinality(Sending) + oo
            /\ Retiring =>
                 \/ Retiring'
                 \/ uu + ss + overlaps + 1 <= Cardinality(Usable) + Cardinality(Sending) + oo
         \/ /\ Retiring' /\ ~Retiring
            /\ uu + ss + overlaps <= Cardinality(Usable) + Cardinality(Sending) + oo + 1
  PROVE  CountAfter
<1> DEFINE u == Cardinality(Usable)
           s == Cardinality(Sending)
           e == Retiring
           ee == Retiring'
<1>1. u \in Nat /\ s \in Nat /\ overlaps \in Nat
      /\ u + s <= 2 + overlaps /\ (~e => u + s <= 1 + overlaps)
  BY CodesFinite DEF ValidInv
<1>2. \/ /\ uu + ss + overlaps <= u + s + oo
         /\ e => ee \/ uu + ss + overlaps + 1 <= u + s + oo
      \/ ee /\ ~e /\ uu + ss + overlaps <= u + s + oo + 1
  OBVIOUS
<1> HIDE DEF u, s, e, ee
<1>3. PICK o \in Nat : o = overlaps
  BY <1>1
<1>4. uu + ss <= 2 + oo /\ (~ee => uu + ss <= 1 + oo)
  <2>1. /\ u \in Nat /\ s \in Nat /\ u + s <= 2 + o /\ (~e => u + s <= 1 + o)
        /\ \/ /\ uu + ss + o <= u + s + oo
              /\ e => ee \/ uu + ss + o + 1 <= u + s + oo
           \/ ee /\ ~e /\ uu + ss + o <= u + s + oo + 1
    BY <1>1, <1>2, <1>3
  <2>2. CASE ee
    BY <2>1, <2>2
  <2>3. CASE ~ee
    BY <2>1, <2>3
  <2>4. QED
    BY <2>2, <2>3
<1>5. QED
  BY <1>4 DEF CountAfter, ee

\* A step that makes no code usable, and starts to send none.
LEMMA CodesCalm ==
  ASSUME TypeInv, BusyInv, ValidInv, Usable' \subseteq Usable, Sending' \subseteq Sending,
         overlaps' \in Nat, overlaps' >= overlaps,
         \/ Retiring => Retiring' \/ Usable' # Usable \/ Sending' # Sending
         \/ overlaps' = overlaps + 1
  PROVE  CountAfter
<1>1. /\ IsFiniteSet(Usable) /\ Cardinality(Usable) \in Nat
      /\ IsFiniteSet(Sending) /\ Cardinality(Sending) \in Nat /\ overlaps \in Nat
  BY CodesFinite
<1>2. Cardinality(Usable') \in Nat /\ Cardinality(Usable') <= Cardinality(Usable)
  BY <1>1, Fewer
<1>3. Cardinality(Sending') \in Nat /\ Cardinality(Sending') <= Cardinality(Sending)
  BY <1>1, Fewer
<1>4. ASSUME Usable' # Usable PROVE Cardinality(Usable') + 1 <= Cardinality(Usable)
  <2>1. PICK x \in Usable : x \notin Usable'
    BY <1>4
  <2>2. Usable' \in SUBSET (Usable \ {x})
    BY <2>1
  <2>3. QED
    BY <1>1, <2>2, OneLess
<1>5. ASSUME Sending' # Sending PROVE Cardinality(Sending') + 1 <= Cardinality(Sending)
  <2>1. PICK x \in Sending : x \notin Sending'
    BY <1>5
  <2>2. Sending' \in SUBSET (Sending \ {x})
    BY <2>1
  <2>3. QED
    BY <1>1, <2>2, OneLess
<1>6. PICK uu \in Nat : uu = Cardinality(Usable') /\ uu <= Cardinality(Usable)
                        /\ (Usable' # Usable => uu + 1 <= Cardinality(Usable))
  BY <1>2, <1>4
<1>7. PICK ss \in Nat : ss = Cardinality(Sending') /\ ss <= Cardinality(Sending)
                        /\ (Sending' # Sending => ss + 1 <= Cardinality(Sending))
  BY <1>3, <1>5
<1>8. PICK oo \in Nat : /\ oo = overlaps' /\ overlaps <= oo
                        /\ \/ Retiring => Retiring' \/ Usable' # Usable \/ Sending' # Sending
                           \/ oo = overlaps + 1
  BY <1>1
<1>9. uu + ss + overlaps <= Cardinality(Usable) + Cardinality(Sending) + oo
  BY <1>1, <1>6, <1>7, <1>8
<1>10. Retiring => \/ Retiring'
                   \/ uu + ss + overlaps + 1 <= Cardinality(Usable) + Cardinality(Sending) + oo
  BY <1>1, <1>6, <1>7, <1>8
<1>11. QED
  BY <1>6, <1>7, <1>8, <1>9, <1>10, CodeCount

\* A request to send a code starts.
LEMMA CodesMore ==
  ASSUME TypeInv, BusyInv, ValidInv, NEW q, Usable' \subseteq Usable,
         Sending' \subseteq Sending \cup {q},
         overlaps' \in Nat, overlaps' >= overlaps,
         \/ ~Retiring /\ Retiring'
         \/ overlaps' = overlaps + 1 /\ (Retiring => Retiring')
  PROVE  CountAfter
<1>1. /\ IsFiniteSet(Usable) /\ Cardinality(Usable) \in Nat
      /\ IsFiniteSet(Sending) /\ Cardinality(Sending) \in Nat /\ overlaps \in Nat
  BY CodesFinite
<1>2. Cardinality(Usable') \in Nat /\ Cardinality(Usable') <= Cardinality(Usable)
  BY <1>1, Fewer
<1>3. Cardinality(Sending') \in Nat /\ Cardinality(Sending') <= Cardinality(Sending) + 1
  BY <1>1, OneMore
<1>4. PICK uu \in Nat : uu = Cardinality(Usable') /\ uu <= Cardinality(Usable)
  BY <1>2
<1>5. PICK ss \in Nat : ss = Cardinality(Sending') /\ ss <= Cardinality(Sending) + 1
  BY <1>3
<1>6. PICK oo \in Nat : /\ oo = overlaps' /\ overlaps <= oo
                        /\ \/ ~Retiring /\ Retiring'
                           \/ oo = overlaps + 1 /\ (Retiring => Retiring')
  BY <1>1
<1>7. CASE ~Retiring /\ Retiring'
  <2>1. uu + ss + overlaps <= Cardinality(Usable) + Cardinality(Sending) + oo + 1
    BY <1>1, <1>4, <1>5, <1>6
  <2>2. QED
    BY <1>4, <1>5, <1>6, <1>7, <2>1, CodeCount
<1>8. CASE oo = overlaps + 1 /\ (Retiring => Retiring')
  <2>1. uu + ss + overlaps <= Cardinality(Usable) + Cardinality(Sending) + oo
    BY <1>1, <1>4, <1>5, <1>8
  <2>2. QED
    BY <1>4, <1>5, <1>6, <1>8, <2>1, CodeCount
<1>9. QED
  BY <1>6, <1>7, <1>8

\* What a pending expiry has in its memory.
ExpiriesKnown ==
  \A q \in Requests : Expiring(q) => req[q].mem.age = "expired" /\ ~req[q].mem.verified

\* A request goes away from the codes, or had nothing to do with them.
LEMMA CodesLeave ==
  ASSUME TypeInv, BusyInv, ValidInv, NEW q \in Requests, Others(q), UNCHANGED codes,
         ~SavesCode(q)', ~At(q, "insertCode")', overlaps' \in Nat, overlaps' >= overlaps
  PROVE  CountAfter /\ ExpiriesKnown'
<1>1. Valid' = Valid
  BY DEF Valid, Unverified
<1>2. Usable' \subseteq Usable
  BY <1>1 DEF Usable, Comparing, Blunt, Expiring, SavesCode, Others, At
<1>3. Sending' \subseteq Sending
  BY DEF Sending, Expiring, SavesCode, Others, At
<1>4. ASSUME Retiring PROVE Retiring' \/ Sending' # Sending
  <2>1. PICK p \in Requests : Expiring(p) /\ ~Blunt(p) /\ req[p].i \in Valid
    BY <1>4 DEF Retiring
  <2>2. \A o \in Requests : ~Comparing(o)'
    BY <1>4 DEF Retiring, Comparing, SavesCode, Others, At
  <2>3. CASE p = q
    BY <2>1, <2>3 DEF Sending, Expiring, SavesCode, At
  <2>4. CASE p # q
    <3>1. (Expiring(p) /\ ~Blunt(p) /\ req[p].i \in Valid)'
      BY <1>1, <2>1, <2>4 DEF Expiring, Blunt, SavesCode, Others, At
    <3>2. QED
      BY <2>2, <3>1 DEF Retiring
  <2>5. QED
    BY <2>3, <2>4
<1>5. ExpiriesKnown'
  BY DEF ExpiriesKnown, ValidInv, Expiring, SavesCode, Others, At
<1>6. QED
  BY <1>2, <1>3, <1>4, <1>5, CodesCalm

LEMMA CodesIdle ==
  ASSUME TypeInv, BusyInv, ValidInv, UNCHANGED <<req, codes, overlaps>>
  PROVE  CountAfter /\ ExpiriesKnown'
<1>1. Valid' = Valid
  BY DEF Valid, Unverified
<1>2. Usable' = Usable /\ Sending' = Sending /\ Retiring' = Retiring
  BY <1>1 DEF Usable, Sending, Retiring, Comparing, Blunt, Expiring, SavesCode, At
<1>3. ExpiriesKnown'
  BY DEF ExpiriesKnown, ValidInv, Expiring, SavesCode, At
<1>4. overlaps' \in Nat /\ overlaps' >= overlaps
  BY DEF TypeInv, ServerTyped
<1>5. QED
  BY <1>2, <1>3, <1>4, CodesCalm

LEMMA CodesStart ==
  ASSUME TypeInv, BusyInv, ValidInv, NEW q \in Requests, Started(q)
  PROVE  CountAfter /\ ExpiriesKnown'
<1>1. PICK r : Start(q, r) /\ Opens(q, r)
  BY DEF Started
<1>2. /\ req'[q] = r /\ Others(q) /\ req[q].at = "idle" /\ UNCHANGED codes
      /\ overlaps' \in Nat /\ overlaps' >= overlaps /\ (Quiet \/ overlaps' = overlaps + 1)
  <2>1. ServerTyped(Step)
    BY DEF TypeInv
  <2>2. QED
    BY <1>1, <2>1, StartBusy, RequestMoves DEF Started, Start, InFlight
<1>3. Valid' = Valid
  BY <1>2 DEF Valid, Unverified
<1>4. Quiet => Sending = {} /\ ~Retiring /\ Usable = Valid /\ \A p \in Requests : ~Comparing(p)
  BY DEF Quiet, InFlight, Sending, Retiring, Usable, Blunt, Comparing, Expiring, SavesCode, At
<1>5. CASE r.at \notin {"insertCode", "selectCode"}
  <2>1. r.at # "updateCode"
    BY <1>1, <1>5 DEF Opens
  <2>2. ~SavesCode(q)' /\ ~At(q, "insertCode")'
    BY <1>2, <1>5, <2>1 DEF SavesCode, At
  <2>3. QED
    BY <1>2, <2>2, CodesLeave
<1>6. CASE r.at = "insertCode"
  <2>1. Valid = {}
    BY <1>1, <1>6 DEF Opens
  <2>2. Usable' \subseteq Usable
    BY <1>2, <1>3, <1>6 DEF Usable, Comparing, Blunt, Expiring, SavesCode, Others, At
  <2>3. Sending' \subseteq Sending \cup {q}
    BY <1>2 DEF Sending, Expiring, SavesCode, Others, At
  <2>4. ExpiriesKnown'
    BY <1>2, <1>6 DEF ExpiriesKnown, ValidInv, Expiring, SavesCode, Others, At
  <2>5. CASE Quiet
    <3>1. Usable' = {} /\ Sending' \subseteq {q}
      BY <1>4, <2>1, <2>2, <2>3, <2>5
    <3>2. Cardinality(Usable') = 0 /\ Cardinality({}) = 0 /\ IsFiniteSet({})
      BY <3>1, FS_EmptySet
    <3>3. Cardinality(Sending') \in Nat /\ Cardinality(Sending') <= 1
      BY <3>1, <3>2, OneMore
    <3>4. PICK uu \in Nat, ss \in Nat, oo \in Nat :
            uu = Cardinality(Usable') /\ ss = Cardinality(Sending') /\ oo = overlaps'
            /\ uu = 0 /\ ss <= 1
      BY <1>2, <3>2, <3>3
    <3>5. uu + ss <= 1 + oo /\ uu + ss <= 2 + oo
      BY <3>4
    <3>6. QED
      BY <2>4, <3>4, <3>5 DEF CountAfter
  <2>6. CASE ~Quiet
    <3>1. ~Retiring
      BY <2>1 DEF Retiring
    <3>2. QED
      BY <1>2, <2>2, <2>3, <2>4, <2>6, <3>1, CodesMore
  <2>7. QED
    BY <2>5, <2>6
<1>7. CASE r.at = "selectCode" /\ r.op = "expire"
  <2>1. r.i \in Newest(Valid) /\ r.mem = [codes[r.i] EXCEPT !.age = "expired"]
    BY <1>1, <1>7 DEF Opens
  <2>2. r.i \in Valid /\ codes[r.i] \in Code
    BY <2>1, CodeTypes DEF Newest, Valid, Unverified
  <2>3. r.mem.age = "expired" /\ ~r.mem.verified
    BY <2>1, <2>2 DEF Valid, Unverified, Code
  <2>4. Usable' \subseteq Usable
    BY <1>2, <1>3, <1>7 DEF Usable, Comparing, Blunt, Expiring, SavesCode, Others, At
  <2>5. Sending' \subseteq Sending \cup {q}
    BY <1>2 DEF Sending, Expiring, SavesCode, Others, At
  <2>6. ExpiriesKnown'
    BY <1>2, <2>3 DEF ExpiriesKnown, ValidInv, Expiring, SavesCode, Others, At
  <2>7. ASSUME \A p \in Requests : ~Comparing(p)
        PROVE  Retiring'
    <3>1. \A p \in Requests : ~Comparing(p)'
      BY <1>2, <1>7, <2>7 DEF Comparing, SavesCode, Others, At
    <3>2. (Expiring(q) /\ ~Blunt(q) /\ req[q].i \in Valid)'
      BY <1>2, <1>3, <1>7, <2>2 DEF Expiring, Blunt, SavesCode, At
    <3>3. QED
      BY <3>1, <3>2 DEF Retiring
  <2>8. CASE Quiet
    BY <1>2, <1>4, <2>4, <2>5, <2>6, <2>7, <2>8, CodesMore
  <2>9. CASE ~Quiet
    <3>1. Retiring => Retiring'
      BY <2>7 DEF Retiring
    <3>2. QED
      BY <1>2, <2>4, <2>5, <2>6, <2>9, <3>1, CodesMore
  <2>10. QED
    BY <2>8, <2>9
<1>8. CASE r.at = "selectCode" /\ r.op # "expire"
  <2>1. r.i \in Newest(Unverified) /\ codes[r.i].age # "expired"
    BY <1>1, <1>8 DEF Opens
  <2>2. r.i \in Valid
    BY <2>1 DEF Newest, Valid
  <2>3. Usable' \subseteq Usable
    BY <1>2, <1>3, <1>8, <2>2 DEF Usable, Comparing, Blunt, Expiring, SavesCode, Others, At
  <2>4. Sending' \subseteq Sending
    BY <1>2, <1>8 DEF Sending, Expiring, SavesCode, Others, At
  <2>5. ExpiriesKnown'
    BY <1>2, <1>8 DEF ExpiriesKnown, ValidInv, Expiring, SavesCode, Others, At
  <2>6. QED
    BY <1>2, <1>4, <2>3, <2>4, <2>5, CodesCalm
<1>9. QED
  BY <1>5, <1>6, <1>7, <1>8

LEMMA CodesInsert ==
  ASSUME TypeInv, BusyInv, ValidInv, NEW q \in Requests, InsertCode(q)
  PROVE  CountAfter /\ ExpiriesKnown'
<1>1. /\ Others(q) /\ overlaps' = overlaps /\ At(q, "insertCode") /\ req'[q].at = "idle"
      /\ DOMAIN codes' = 1..(Len(codes) + 1)
      /\ \A i \in 1..Len(codes) : codes'[i] = codes[i]
  BY InsertCodeMoves
<1>2. /\ DOMAIN codes = 1..Len(codes) /\ Len(codes) \in Nat
      /\ \A p \in Requests : SavesCode(p) => req[p].i \in 1..Len(codes)
  BY CodeTypes
<1> DEFINE new == Len(codes) + 1
<1>3. 1..new = 1..Len(codes) \cup {new}
  BY <1>2
<1>4. /\ DOMAIN codes' = 1..Len(codes) \cup {new}
  BY <1>1, <1>3
<1> HIDE DEF new
<1>5. Usable' \subseteq Usable \cup {new}
  <2>1. \A p \in Requests : /\ Comparing(p)' => Comparing(p) /\ req'[p] = req[p]
                            /\ Blunt(p)' => Blunt(p) /\ req'[p] = req[p]
    BY <1>1 DEF Comparing, Blunt, Expiring, SavesCode, Others, At
  <2>2. \A j \in DOMAIN codes : codes'[j] = codes[j]
    BY <1>1, <1>2
  <2>3. DOMAIN codes' = DOMAIN codes \cup {new}
    BY <1>2, <1>4
  <2>4. Valid' \subseteq Valid \cup {new}
    BY <2>2, <2>3 DEF Valid, Unverified
  <2>5. QED
    BY <2>1, <2>2, <2>3, <2>4 DEF Usable
<1>6. Sending' \subseteq Sending \ {q} /\ q \in Sending
  BY <1>1 DEF Sending, Expiring, SavesCode, Others, At
<1>7. Valid \subseteq Valid'
  BY <1>1, <1>2, <1>4 DEF Valid, Unverified
<1>8. Retiring => Retiring'
  BY <1>1, <1>7 DEF Retiring, Comparing, Blunt, Expiring, SavesCode, Others, At
<1>9. ExpiriesKnown'
  BY <1>1 DEF ExpiriesKnown, ValidInv, Expiring, SavesCode, Others, At
<1>10. /\ IsFiniteSet(Usable) /\ Cardinality(Usable) \in Nat
       /\ IsFiniteSet(Sending) /\ Cardinality(Sending) \in Nat /\ overlaps \in Nat
  BY CodesFinite
<1>11. Cardinality(Usable') \in Nat /\ Cardinality(Usable') <= Cardinality(Usable) + 1
  BY <1>5, <1>10, OneMore
<1>12. Cardinality(Sending') \in Nat /\ Cardinality(Sending') + 1 <= Cardinality(Sending)
  BY <1>6, <1>10, OneLess
<1>13. PICK uu \in Nat : uu = Cardinality(Usable') /\ uu <= Cardinality(Usable) + 1
  BY <1>11
<1>14. PICK ss \in Nat : ss = Cardinality(Sending') /\ ss + 1 <= Cardinality(Sending)
  BY <1>12
<1>15. PICK oo \in Nat : oo = overlaps' /\ oo = overlaps
  BY <1>1, <1>10
<1>16. uu + ss + overlaps <= Cardinality(Usable) + Cardinality(Sending) + oo
  <2>1. uu <= Cardinality(Usable) + 1 /\ ss + 1 <= Cardinality(Sending) /\ oo = overlaps
    BY <1>13, <1>14, <1>15
  <2>2. QED
    BY <1>10, <2>1
<1>17. QED
  BY <1>8, <1>9, <1>13, <1>14, <1>15, <1>16, CodeCount

LEMMA CodesSelect ==
  ASSUME TypeInv, BusyInv, ValidInv, NEW q \in Requests, SelectCode(q)
  PROVE  CountAfter /\ ExpiriesKnown'
<1>1. /\ Others(q) /\ overlaps' = overlaps /\ UNCHANGED codes /\ At(q, "selectCode")
      /\ \/ /\ codes[req[q].i] = req[q].mem /\ ~SavesCode(q)'
            /\ IF req[q].op = "expire" THEN At(q, "insertCode")' ELSE ~At(q, "insertCode")'
         \/ /\ req'[q].at = "updateCode" /\ req'[q].i = req[q].i
            /\ req'[q].mem = req[q].mem /\ req'[q].op = req[q].op
            /\ \A c \in Column : c \in req'[q].dirty <=> codes[req[q].i][c] # req[q].mem[c]
  BY SelectCodeMoves DEF data
<1>2. SavesCode(q) /\ ~Blunt(q) /\ overlaps' \in Nat /\ overlaps' >= overlaps /\ "age" \in Column
  BY <1>1, CodeTypes, ColumnIs DEF SavesCode, Blunt, At
<1>3. Valid' = Valid /\ DOMAIN codes' = DOMAIN codes
  BY <1>1 DEF Valid, Unverified
<1>4. CASE req[q].op # "expire"
  <2>1. ~Retiring /\ Comparing(q) /\ ~Expiring(q)
    BY <1>2, <1>4 DEF Retiring, Comparing, Expiring
  <2>2. ~Expiring(q)' /\ ~At(q, "insertCode")'
    BY <1>1, <1>4 DEF Expiring, SavesCode, At
  <2>3. Comparing(q)' => req'[q].i = req[q].i
    BY <1>1 DEF Comparing
  <2>4. \A p \in Requests : p # q => (Comparing(p)' <=> Comparing(p)) /\ (Blunt(p)' <=> Blunt(p))
                                     /\ req'[p] = req[p]
    BY <1>1 DEF Comparing, Blunt, Expiring, SavesCode, Others, At
  <2>5. ~Blunt(q)'
    BY <2>2 DEF Blunt
  <2>6. Usable' \subseteq Usable
    BY <1>1, <1>3, <2>1, <2>3, <2>4, <2>5 DEF Usable
  <2>7. Sending' \subseteq Sending
    BY <1>1, <2>2 DEF Sending, Expiring, SavesCode, Others, At
  <2>8. ExpiriesKnown'
    BY <1>1, <2>2 DEF ExpiriesKnown, ValidInv, Expiring, SavesCode, Others, At
  <2>9. QED
    BY <1>2, <2>1, <2>6, <2>7, <2>8, CodesCalm
<1>5. CASE req[q].op = "expire"
  <2>1. /\ req[q].mem.age = "expired" /\ ~req[q].mem.verified /\ Expiring(q)
        /\ req[q].mem["age"] = "expired"
    BY <1>2, <1>5 DEF ValidInv, Expiring
  <2>2. ~Comparing(q)' /\ ~Comparing(q)
    BY <1>1, <1>5 DEF Comparing
  <2>3. \A p \in Requests : p # q => (Comparing(p)' <=> Comparing(p)) /\ (Blunt(p)' <=> Blunt(p))
                                     /\ (Expiring(p)' <=> Expiring(p)) /\ req'[p] = req[p]
    BY <1>1 DEF Comparing, Blunt, Expiring, SavesCode, Others, At
  <2>4. codes[req[q].i].age = codes[req[q].i]["age"]
    OBVIOUS
  <2>5. Blunt(q)' => req'[q].i = req[q].i /\ codes[req[q].i].age = "expired"
    BY <1>1, <1>2, <2>1 DEF Blunt, Expiring
  <2>6. Usable' \subseteq Usable
    BY <1>1, <1>3, <2>2, <2>3, <2>5 DEF Usable
  <2>7. Sending' \subseteq Sending
    BY <1>1, <2>1 DEF Sending, Expiring, SavesCode, Others, At
  <2>8. ExpiriesKnown'
    BY <1>1, <2>1 DEF ExpiriesKnown, ValidInv, Expiring, SavesCode, Others, At
  <2>9. Retiring => Retiring'
    <3> SUFFICES ASSUME Retiring PROVE Retiring'
      OBVIOUS
    <3>1. PICK p \in Requests : Expiring(p) /\ ~Blunt(p) /\ req[p].i \in Valid
      BY DEF Retiring
    <3>2. \A o \in Requests : ~Comparing(o)'
      BY <2>2, <2>3 DEF Retiring
    <3>3. (Expiring(p) /\ ~Blunt(p) /\ req[p].i \in Valid)'
      <4>1. CASE p # q
        BY <1>3, <2>3, <3>1, <4>1
      <4>2. CASE p = q
        <5>1. codes[req[q].i].age # "expired"
          BY <3>1, <4>2 DEF Valid
        <5>2. /\ req'[q].at = "updateCode" /\ req'[q].i = req[q].i /\ req'[q].op = "expire"
              /\ "age" \in req'[q].dirty
          BY <1>1, <1>2, <1>5, <2>1, <5>1
        <5>3. QED
          BY <1>3, <3>1, <4>2, <5>2 DEF Expiring, Blunt, SavesCode, At
      <4>3. QED
        BY <4>1, <4>2
    <3>4. QED
      BY <3>2, <3>3 DEF Retiring
  <2>10. QED
    BY <1>2, <2>6, <2>7, <2>8, <2>9, CodesCalm
<1>6. QED
  BY <1>4, <1>5

LEMMA CodesUpdate ==
  ASSUME TypeInv, BusyInv, ValidInv, NEW q \in Requests, UpdateCode(q)
  PROVE  CountAfter /\ ExpiriesKnown'
<1> DEFINE i == req[q].i
<1>1. /\ Others(q) /\ overlaps' = overlaps /\ At(q, "updateCode") /\ ~SavesCode(q)'
      /\ IF req[q].op = "expire" THEN At(q, "insertCode")' ELSE ~At(q, "insertCode")'
      /\ DOMAIN codes' = DOMAIN codes
      /\ \A j \in DOMAIN codes : j # i => codes'[j] = codes[j]
      /\ \A c \in Column : codes'[i][c] =
           IF c \in req[q].dirty THEN req[q].mem[c] ELSE codes[i][c]
  BY UpdateCodeMoves
<1>2. /\ SavesCode(q) /\ overlaps' \in Nat /\ overlaps' >= overlaps
      /\ "age" \in Column /\ "verified" \in Column
      /\ i \in DOMAIN codes /\ codes[i].verified \in BOOLEAN
  BY <1>1, CodeTypes, ColumnIs DEF SavesCode, At
<1>3. \A p \in Requests : p # q => (Comparing(p)' <=> Comparing(p)) /\ (Blunt(p)' <=> Blunt(p))
                                   /\ (Expiring(p)' <=> Expiring(p)) /\ req'[p] = req[p]
  BY <1>1 DEF Comparing, Blunt, Expiring, SavesCode, Others, At
<1>4. ~Comparing(q)' /\ ~Blunt(q)' /\ ~Expiring(q)'
  BY <1>1 DEF Comparing, Blunt, Expiring
<1> HIDE DEF i
<1>5. \A j \in DOMAIN codes : j # i => (j \in Valid' <=> j \in Valid)
  BY <1>1 DEF Valid, Unverified
<1>6. \A j : j # i /\ j \in Usable' => j \in Usable
  BY <1>1, <1>3, <1>4, <1>5 DEF Usable, Valid, Unverified
<1>7. ExpiriesKnown'
  BY <1>3, <1>4 DEF ExpiriesKnown, ValidInv
<1>8. CASE req[q].op # "expire"
  <2>1. ~Retiring /\ Comparing(q)
    BY <1>2, <1>8 DEF Retiring, Comparing
  <2>2. i \in Usable
    BY <2>1 DEF Usable, i
  <2>3. Usable' \subseteq Usable
    BY <1>6, <2>2
  <2>4. Sending' \subseteq Sending
    BY <1>1, <1>4, <1>8 DEF Sending, Expiring, SavesCode, Others, At
  <2>5. QED
    BY <1>2, <1>7, <2>1, <2>3, <2>4, CodesCalm
<1>9. CASE req[q].op = "expire"
  <2>1. /\ req[q].mem["age"] = "expired" /\ ~req[q].mem["verified"] /\ Expiring(q)
    BY <1>2, <1>9 DEF ValidInv, Expiring
  <2>2. codes'[i].age = IF "age" \in req[q].dirty THEN "expired" ELSE codes[i].age
    BY <1>1, <1>2, <2>1
  <2>3. ~codes[i].verified => ~codes'[i].verified
    BY <1>1, <1>2, <2>1
  <2>4. i \in Usable' => i \in Usable
    <3>1. CASE "age" \in req[q].dirty
      <4>1. i \in Usable' => \E p \in Requests : Comparing(p)' /\ req'[p].i = i
        BY <2>2, <3>1 DEF Usable, Valid
      <4>2. QED
        BY <1>3, <1>4, <4>1 DEF Usable
    <3>2. CASE "age" \notin req[q].dirty
      <4>1. Blunt(q)
        BY <1>1, <2>1, <3>2 DEF Blunt
      <4>2. codes[i].age # "expired" => i \in Usable
        BY <1>2, <4>1 DEF Usable, i
      <4>3. codes'[i].age = codes[i].age
        BY <2>2, <3>2
      <4>4. i \in Usable' => codes[i].age # "expired" \/ \E p \in Requests : Comparing(p)' /\ req'[p].i = i
        BY <4>3 DEF Usable, Valid
      <4>5. QED
        BY <1>3, <1>4, <4>2, <4>4 DEF Usable
    <3>3. QED
      BY <3>1, <3>2
  <2>5. Usable' \subseteq Usable
    BY <1>6, <2>4
  <2>6. Sending' \subseteq Sending
    BY <1>1, <1>3, <2>1 DEF Sending, Others, At
  <2>7. Retiring => Retiring' \/ Usable' # Usable
    <3> SUFFICES ASSUME Retiring PROVE Retiring' \/ Usable' # Usable
      OBVIOUS
    <3>1. PICK p \in Requests : Expiring(p) /\ ~Blunt(p) /\ req[p].i \in Valid
      BY DEF Retiring
    <3>2. \A o \in Requests : ~Comparing(o)'
      BY <1>3, <1>4 DEF Retiring
    <3>3. CASE "age" \in req[q].dirty /\ i \in Valid
      <4>1. i \in Usable
        BY <3>3 DEF Usable
      <4>2. i \notin Usable'
        BY <2>2, <3>2, <3>3 DEF Usable, Valid
      <4>3. QED
        BY <4>1, <4>2
    <3>4. CASE ~("age" \in req[q].dirty /\ i \in Valid)
      <4>1. p # q
        BY <1>1, <2>1, <3>1, <3>4 DEF Blunt, i
      <4>2. Valid \subseteq Valid'
        <5>1. i \in Valid => i \in Valid'
          BY <1>1, <1>2, <2>2, <2>3, <3>4 DEF Valid, Unverified
        <5>2. QED
          BY <1>5, <5>1 DEF Valid, Unverified
      <4>3. (Expiring(p) /\ ~Blunt(p) /\ req[p].i \in Valid)'
        BY <1>3, <3>1, <4>1, <4>2
      <4>4. QED
        BY <3>2, <4>3 DEF Retiring
    <3>5. QED
      BY <3>3, <3>4
  <2>8. QED
    BY <1>2, <1>7, <2>5, <2>6, <2>7, CodesCalm
<1>10. QED
  BY <1>8, <1>9

LEMMA CodesAge ==
  ASSUME TypeInv, BusyInv, ValidInv, NEW i \in DOMAIN codes, Age(i)
  PROVE  CountAfter /\ ExpiriesKnown'
<1> DEFINE row == [codes[i] EXCEPT !.age = IF @ = "fresh" THEN "live" ELSE "expired"]
<1>1. codes[i] \in Code /\ codes[i].age # "expired" /\ UNCHANGED <<req, overlaps>>
      /\ codes' = [codes EXCEPT ![i] = row]
  <2>1. codes[i].age # "expired" /\ UNCHANGED server /\ codes' = [codes EXCEPT ![i] = row]
    BY DEF Age
  <2>2. codes[i] \in Code
    BY CodeTypes
  <2>3. QED
    BY <2>1, <2>2 DEF server
<1>2. row.verified = codes[i].verified /\ row.age \in {"live", "expired"}
  BY <1>1 DEF Code
<1> HIDE DEF row
<1>3. /\ DOMAIN codes' = DOMAIN codes /\ codes'[i] = row
      /\ \A j \in DOMAIN codes : j # i => codes'[j] = codes[j]
  BY <1>1, CodeTypes
<1>4. Usable' \subseteq Usable
  BY <1>1, <1>2, <1>3 DEF Usable, Valid, Unverified, Comparing, Blunt, Expiring, SavesCode, At
<1>5. Sending' = Sending /\ ExpiriesKnown'
  BY <1>1 DEF Sending, ExpiriesKnown, ValidInv, Expiring, SavesCode, At
<1>6. Retiring => Retiring' \/ Usable' # Usable
  <2> SUFFICES ASSUME Retiring PROVE Retiring' \/ Usable' # Usable
    OBVIOUS
  <2>1. PICK p \in Requests : Expiring(p) /\ ~Blunt(p) /\ req[p].i \in Valid
    BY DEF Retiring
  <2>2. \A o \in Requests : ~Comparing(o)'
    BY <1>1 DEF Retiring, Comparing, SavesCode, At
  <2>3. CASE req[p].i \in Valid'
    BY <1>1, <2>1, <2>2, <2>3 DEF Retiring, Expiring, Blunt, SavesCode, At
  <2>4. CASE req[p].i \notin Valid'
    <3>1. req[p].i = i /\ codes'[i].age = "expired"
      BY <1>2, <1>3, <2>1, <2>4 DEF Valid, Unverified
    <3>2. i \in Usable /\ i \notin Usable'
      BY <2>1, <2>2, <3>1 DEF Usable, Valid
    <3>3. QED
      BY <3>2
  <2>5. QED
    BY <2>3, <2>4
<1>7. overlaps' \in Nat /\ overlaps' >= overlaps
  BY <1>1 DEF TypeInv, ServerTyped
<1>8. QED
  BY <1>4, <1>5, <1>6, <1>7, CodesCalm

\* No step raises the number of guesses that nothing shows.
LEMMA GuessStay ==
  ASSUME TypeInv, GuessInv, UNCHANGED guesses, DOMAIN codes' = DOMAIN codes,
         \A j \in DOMAIN codes : codes'[j].attempts = codes[j].attempts,
         overlaps' \in Nat, overlaps' >= overlaps, deaths' \in Nat, deaths' >= deaths,
         \A p \in Requests : SavesCode(p)' =>
           SavesCode(p) /\ req'[p].i = req[p].i /\ req'[p].mem = req[p].mem,
         \A j \in DOMAIN codes : Counting(j) =>
           \/ Counting(j)' \/ deaths' = deaths + 1
           \/ guesses[j] <= codes[j].attempts + overlaps + deaths
  PROVE  GuessInv'
<1>1. PICK oo \in Nat : oo = overlaps' /\ overlaps <= oo
  BY CodeTypes
<1>2. PICK dd \in Nat : /\ dd = deaths' /\ deaths <= dd
                        /\ \A j \in DOMAIN codes : Counting(j) =>
                             \/ Counting(j)' \/ dd = deaths + 1
                             \/ guesses[j] <= codes[j].attempts + overlaps + deaths
  BY CodeTypes
<1>3. ASSUME NEW p \in Requests, SavesCode(p)'
      PROVE  guesses'[req'[p].i] <= req'[p].mem.attempts + overlaps' + deaths'
  <2>1. /\ SavesCode(p) /\ guesses[req[p].i] <= req[p].mem.attempts + overlaps + deaths
        /\ guesses[req[p].i] \in Nat /\ req[p].mem.attempts \in Nat
        /\ overlaps \in Nat /\ deaths \in Nat /\ overlaps <= oo /\ deaths <= dd
    BY <1>1, <1>2, <1>3, CodeTypes DEF GuessInv
  <2>2. guesses[req[p].i] <= req[p].mem.attempts + oo + dd
    BY <2>1
  <2>3. QED
    BY <1>1, <1>2, <1>3, <2>2
<1>4. ASSUME NEW j \in DOMAIN codes
      PROVE  /\ guesses'[j] <= 1 + codes'[j].attempts + overlaps' + deaths'
             /\ ~Counting(j)' => guesses'[j] <= codes'[j].attempts + overlaps' + deaths'
             /\ guesses'[j] <= MaxAttempts + overlaps' + deaths'
  <2>1. /\ guesses[j] <= 1 + codes[j].attempts + overlaps + deaths
        /\ ~Counting(j) => guesses[j] <= codes[j].attempts + overlaps + deaths
        /\ guesses[j] <= MaxAttempts + overlaps + deaths
        /\ guesses[j] \in Nat /\ codes[j].attempts \in Nat /\ MaxAttempts \in Nat
        /\ overlaps \in Nat /\ deaths \in Nat /\ overlaps <= oo /\ deaths <= dd
    BY <1>1, <1>2, CodeTypes DEF GuessInv
  <2>2. guesses[j] <= 1 + codes[j].attempts + oo + dd
    BY <2>1
  <2>3. guesses[j] <= MaxAttempts + oo + dd
    BY <2>1
  <2>4. ASSUME ~Counting(j)' PROVE guesses[j] <= codes[j].attempts + oo + dd
    <3>1. dd = deaths + 1 \/ guesses[j] <= codes[j].attempts + overlaps + deaths
      BY <1>2, <2>1, <2>4
    <3>2. QED
      BY <2>1, <3>1
  <2>5. guesses'[j] = guesses[j] /\ codes'[j].attempts = codes[j].attempts
    OBVIOUS
  <2>6. QED
    BY <1>1, <1>2, <2>2, <2>3, <2>4, <2>5
<1>5. QED
  BY <1>3, <1>4 DEF GuessInv

\* A code's expiry or verification starts.
LEMMA GuessStart ==
  ASSUME TypeInv, BusyInv, GuessInv, NEW q \in Requests, NEW r, Start(q, r),
         r.at = "selectCode", r.i \in DOMAIN codes, NEW k \in {0, 1},
         r.mem.attempts = codes[r.i].attempts + k, k = 1 => codes[r.i].attempts < MaxAttempts,
         \A j \in DOMAIN codes : guesses'[j] = IF j = r.i THEN guesses[j] + k ELSE guesses[j],
         UNCHANGED codes
  PROVE  GuessInv'
<1>1. /\ req'[q] = r /\ Others(q) /\ req[q].at = "idle" /\ deaths' = deaths
      /\ overlaps' \in Nat /\ overlaps' >= overlaps /\ (Quiet \/ overlaps' = overlaps + 1)
  <2>1. ServerTyped(Step)
    BY DEF TypeInv
  <2>2. QED
    BY <2>1, StartBusy, RequestMoves DEF Start, InFlight
<1>2. Quiet => /\ \A p \in Requests : ~SavesCode(p)
               /\ \A j : ~Counting(j)
  BY DEF Quiet, InFlight, Counting, SavesCode, At
<1>3. PICK oo \in Nat : oo = overlaps' /\ overlaps <= oo /\ (Quiet \/ oo = overlaps + 1)
  BY <1>1, CodeTypes
<1>4. /\ overlaps \in Nat /\ deaths \in Nat /\ MaxAttempts \in Nat
      /\ \A j \in DOMAIN codes : guesses[j] \in Nat /\ codes[j].attempts \in Nat
  BY CodeTypes
<1>5. ASSUME NEW p \in Requests, SavesCode(p)'
      PROVE  guesses'[req'[p].i] <= req'[p].mem.attempts + overlaps' + deaths'
  <2>1. CASE p = q
    <3>1. guesses[r.i] + k <= codes[r.i].attempts + k + oo + deaths
      <4>1. CASE Quiet
        <5>1. guesses[r.i] <= codes[r.i].attempts + overlaps + deaths
          BY <1>2, <4>1 DEF GuessInv
        <5>2. overlaps <= oo
          BY <1>3
        <5>3. QED
          BY <1>4, <5>1, <5>2
      <4>2. CASE oo = overlaps + 1
        <5>1. guesses[r.i] <= 1 + codes[r.i].attempts + overlaps + deaths
          BY DEF GuessInv
        <5>2. QED
          BY <1>4, <4>2, <5>1
      <4>3. QED
        BY <1>3, <4>1, <4>2
    <3>2. guesses'[r.i] = guesses[r.i] + k
      OBVIOUS
    <3>3. QED
      BY <1>1, <1>3, <2>1, <3>1, <3>2
  <2>2. CASE p # q
    <3>1. SavesCode(p) /\ req'[p] = req[p]
      BY <1>1, <1>5, <2>2 DEF SavesCode, Others, At
    <3>2. oo = overlaps + 1
      BY <1>2, <1>3, <3>1
    <3>3. /\ guesses[req[p].i] <= req[p].mem.attempts + overlaps + deaths
          /\ req[p].i \in DOMAIN codes /\ req[p].mem.attempts \in Nat
      BY <3>1, CodeTypes DEF GuessInv
    <3>4. PICK g \in Nat : g = guesses'[req[p].i] /\ g <= guesses[req[p].i] + 1
      BY <1>4, <3>3
    <3>5. g <= req[p].mem.attempts + oo + deaths
      BY <1>4, <3>2, <3>3, <3>4
    <3>6. QED
      BY <1>1, <1>3, <3>1, <3>4, <3>5
  <2>3. QED
    BY <2>1, <2>2
<1>6. ASSUME NEW j \in DOMAIN codes
      PROVE  /\ guesses'[j] <= 1 + codes[j].attempts + oo + deaths
             /\ ~Counting(j)' => guesses'[j] <= codes[j].attempts + oo + deaths
             /\ guesses'[j] <= MaxAttempts + oo + deaths
  <2>1. /\ guesses[j] <= 1 + codes[j].attempts + overlaps + deaths
        /\ ~Counting(j) => guesses[j] <= codes[j].attempts + overlaps + deaths
        /\ guesses[j] <= MaxAttempts + overlaps + deaths
        /\ Quiet => guesses[j] <= codes[j].attempts + overlaps + deaths
    BY <1>2 DEF GuessInv
  <2>2. overlaps <= oo /\ (Quiet \/ oo = overlaps + 1)
    BY <1>3
  <2>3. CASE j = r.i
    <3>1. Counting(j)'
      BY <1>1, <2>3 DEF Counting, SavesCode, At
    <3>2. /\ guesses[j] + k <= 1 + codes[j].attempts + oo + deaths
          /\ guesses[j] + k <= MaxAttempts + oo + deaths
      <4>1. CASE Quiet
        BY <1>4, <2>1, <2>2, <2>3, <4>1
      <4>2. CASE oo = overlaps + 1
        BY <1>4, <2>1, <2>3, <4>2
      <4>3. QED
        BY <2>2, <4>1, <4>2
    <3>3. QED
      BY <2>3, <3>1, <3>2
  <2>4. CASE j # r.i
    <3>1. guesses'[j] = guesses[j]
      BY <2>4
    <3>2. Counting(j) => Counting(j)'
      BY <1>1 DEF Counting, SavesCode, Others, At
    <3>3. /\ guesses[j] <= 1 + codes[j].attempts + oo + deaths
          /\ guesses[j] <= MaxAttempts + oo + deaths
          /\ ~Counting(j) => guesses[j] <= codes[j].attempts + oo + deaths
      BY <1>4, <2>1, <2>2
    <3>4. QED
      BY <3>1, <3>2, <3>3
  <2>5. QED
    BY <2>3, <2>4
<1>7. QED
  BY <1>1, <1>3, <1>5, <1>6 DEF GuessInv

\* The statements that are about no code.
LEMMA NoCodeMoves ==
  ASSUME TypeInv, NEW q \in Requests,
         \/ FindUser(q) \/ InsertUser(q) \/ FindProfile(q) \/ InsertProfile(q)
         \/ SelectAccount(q) \/ UpdateAccount(q)
         \/ Build(q) \/ IssueSession(q) \/ Retire(q) \/ Revoke(q) \/ RevokeAll(q)
  PROVE  /\ Others(q) /\ UNCHANGED <<codes, guesses, overlaps, deaths>>
         /\ ~SavesCode(q) /\ ~SavesCode(q)' /\ ~At(q, "insertCode")'
<1> DEFINE Away(r) == r.at \notin {"selectCode", "updateCode", "insertCode"}
<1>1. /\ UNCHANGED <<codes, guesses>> /\ ~SavesCode(q)
  BY DEF FindUser, InsertUser, FindProfile, InsertProfile, SelectAccount, UpdateAccount,
         Build, IssueSession, Retire, Revoke, RevokeAll, SavesCode, At, data
<1>2. ASSUME Answer(q) PROVE \E r : Go(q, r) /\ Away(r)
  BY <1>2 DEF Answer, Idle
<1>3. ASSUME NEW at \in {"insertUser", "findProfile", "insertProfile"}, Go(q, [at |-> at])
      PROVE  \E r : Go(q, r) /\ Away(r)
  <2> DEFINE r == [at |-> at]
  <2>1. Go(q, r) /\ Away(r)
    BY <1>3
  <2> HIDE DEF r, Away
  <2>2. QED
    BY <2>1
<1>4. ASSUME NEW s, NEW p, NEW l \in BOOLEAN, Go(q, Session(s, p, l))
      PROVE  \E r : Go(q, r) /\ Away(r)
  <2> DEFINE r == Session(s, p, l)
  <2>1. Go(q, r) /\ Away(r)
    BY <1>4 DEF Session
  <2> HIDE DEF r, Away
  <2>2. QED
    BY <2>1
<1>5. ASSUME Build(q) PROVE \E r : Go(q, r) /\ Away(r)
  <2> DEFINE r == [req[q] EXCEPT !.at = "issue"]
  <2>1. r.at = "issue"
    BY <1>5, Memory DEF Build, At, Opening
  <2>2. Answer(q) \/ Go(q, r)
    BY <1>5 DEF Build
  <2> HIDE DEF r
  <2>3. QED
    BY <1>2, <2>1, <2>2
<1>6. ASSUME SelectAccount(q) \/ UpdateAccount(q) PROVE \E r : Go(q, r) /\ Away(r)
  <2> DEFINE r == [at |-> "revokeAll", s |-> req[q].s]
             d == [req[q] EXCEPT !.at = "updateAccount",
                                 !.dirty = Differing(accounts[req[q].s], req[q].mem)]
  <2>1. r.at = "revokeAll" /\ d.at = "updateAccount"
    BY <1>6, Memory DEF SelectAccount, UpdateAccount, At, SavingAccount
  <2>2. Answer(q) \/ Go(q, r) \/ Go(q, d)
    BY <1>6 DEF SelectAccount, UpdateAccount, AccountSaved
  <2> HIDE DEF r, d
  <2>3. QED
    BY <1>2, <2>1, <2>2
<1> HIDE DEF Away
<1>7. ASSUME Retire(q) PROVE \E r : Go(q, r) /\ Away(r)
  BY <1>4, <1>7 DEF Retire
<1>8. ASSUME \/ FindUser(q) \/ InsertUser(q) \/ FindProfile(q) \/ InsertProfile(q)
             \/ IssueSession(q) \/ Revoke(q) \/ RevokeAll(q)
      PROVE  \E r : Go(q, r) /\ Away(r)
  BY <1>2, <1>3, <1>4, <1>8
     DEF FindUser, InsertUser, FindProfile, InsertProfile, IssueSession, Revoke, RevokeAll
<1>9. PICK r : Go(q, r) /\ Away(r)
  BY <1>5, <1>6, <1>7, <1>8
<1>10. req'[q] = r /\ Others(q) /\ UNCHANGED <<overlaps, deaths>>
  BY <1>9, RequestMoves DEF Go
<1>11. QED
  BY <1>1, <1>9, <1>10 DEF Away, SavesCode, At

LEMMA CrashLeaves ==
  ASSUME TypeInv, NEW q \in Requests, Crash(q)
  PROVE  /\ Others(q) /\ UNCHANGED <<codes, guesses, overlaps>> /\ deaths' = deaths + 1
         /\ ~SavesCode(q)' /\ ~At(q, "insertCode")'
BY CrashMoves DEF data, Idle, SavesCode, At

LEMMA ValidKept ==
  ASSUME TypeInv, BusyInv, ValidInv, [Next]_vars
  PROVE  ValidInv'
<1>0. overlaps' \in Nat /\ overlaps' >= overlaps
  BY BusyKept
<1>1. ASSUME CountAfter /\ ExpiriesKnown' PROVE ValidInv'
  BY <1>1 DEF CountAfter, ExpiriesKnown, ValidInv
<1>2. ASSUME NEW q \in Requests,
             \/ OtpRoutes(q) \/ SessionRoutes(q) \/ AdminAuthRoutes(q)
             \/ ProfileRoutes(q) \/ CustomerRoutes(q) \/ AdminRoutes(q)
      PROVE  CountAfter /\ ExpiriesKnown'
  BY <1>2, RoutesOpen, CodesStart
<1>3. ASSUME NEW q \in Requests, SelectCode(q) \/ UpdateCode(q) \/ InsertCode(q)
      PROVE  CountAfter /\ ExpiriesKnown'
  BY <1>3, CodesSelect, CodesUpdate, CodesInsert
<1>4. ASSUME NEW q \in Requests,
             \/ FindUser(q) \/ InsertUser(q) \/ FindProfile(q) \/ InsertProfile(q)
             \/ SelectAccount(q) \/ UpdateAccount(q)
             \/ Build(q) \/ IssueSession(q) \/ Retire(q) \/ Revoke(q) \/ RevokeAll(q)
      PROVE  CountAfter /\ ExpiriesKnown'
  BY <1>0, <1>4, NoCodeMoves, CodesLeave
<1>5. ASSUME NEW q \in Requests, Crash(q)
      PROVE  CountAfter /\ ExpiriesKnown'
  BY <1>0, <1>5, CrashLeaves, CodesLeave
<1>6. ASSUME \/ UNCHANGED vars
             \/ \E i \in DOMAIN tokens : Expire(i)
      PROVE  CountAfter /\ ExpiriesKnown'
  <2>1. UNCHANGED <<req, codes, overlaps>>
    BY <1>6 DEF vars, data, server, Expire
  <2>2. QED
    BY <2>1, CodesIdle
<1>7. CountAfter /\ ExpiriesKnown'
  BY <1>2, <1>3, <1>4, <1>5, <1>6, CodesAge DEF Next, Statement
<1>8. QED
  BY <1>1, <1>7

LEMMA GuessInsert ==
  ASSUME TypeInv, GuessInv, NEW q \in Requests, InsertCode(q)
  PROVE  GuessInv'
<1> DEFINE new == Len(codes) + 1
<1>1. /\ Others(q) /\ UNCHANGED <<overlaps, deaths>> /\ At(q, "insertCode")
      /\ req'[q].at = "idle" /\ DOMAIN codes' = 1..new
      /\ \A i \in 1..Len(codes) : codes'[i] = codes[i] /\ guesses'[i] = guesses[i]
      /\ codes'[new].attempts = 0 /\ guesses'[new] = 0
  BY InsertCodeMoves
<1>2. /\ DOMAIN codes = 1..Len(codes) /\ Len(codes) \in Nat
      /\ overlaps \in Nat /\ deaths \in Nat /\ MaxAttempts \in Nat
      /\ \A p \in Requests : SavesCode(p) => req[p].i \in 1..Len(codes)
  BY CodeTypes
<1>3. 1..new = 1..Len(codes) \cup {new}
  BY <1>2
<1> HIDE DEF new
<1>4. ASSUME NEW p \in Requests, SavesCode(p)'
      PROVE  guesses'[req'[p].i] <= req'[p].mem.attempts + overlaps' + deaths'
  <2>1. SavesCode(p) /\ req'[p] = req[p]
    BY <1>1, <1>4 DEF SavesCode, Others, At
  <2>2. guesses'[req[p].i] = guesses[req[p].i]
    BY <1>1, <1>2, <2>1
  <2>3. guesses[req[p].i] <= req[p].mem.attempts + overlaps + deaths
    BY <2>1 DEF GuessInv
  <2>4. QED
    BY <1>1, <2>1, <2>2, <2>3
<1>5. \A j : Counting(j) => Counting(j)'
  BY <1>1 DEF Counting, SavesCode, Others, At
<1>6. ASSUME NEW j \in 1..Len(codes)
      PROVE  /\ guesses'[j] <= 1 + codes'[j].attempts + overlaps' + deaths'
             /\ ~Counting(j)' => guesses'[j] <= codes'[j].attempts + overlaps' + deaths'
             /\ guesses'[j] <= MaxAttempts + overlaps' + deaths'
  <2>1. /\ guesses[j] <= 1 + codes[j].attempts + overlaps + deaths
        /\ ~Counting(j) => guesses[j] <= codes[j].attempts + overlaps + deaths
        /\ guesses[j] <= MaxAttempts + overlaps + deaths
    BY <1>2 DEF GuessInv
  <2>2. guesses'[j] = guesses[j] /\ codes'[j].attempts = codes[j].attempts
    BY <1>1
  <2>3. QED
    BY <1>1, <1>5, <2>1, <2>2
<1>7. /\ 0 <= 1 + 0 + overlaps + deaths /\ 0 <= 0 + overlaps + deaths
      /\ 0 <= MaxAttempts + overlaps + deaths
  BY <1>2
<1>8. /\ guesses'[new] <= 1 + codes'[new].attempts + overlaps' + deaths'
      /\ guesses'[new] <= codes'[new].attempts + overlaps' + deaths'
      /\ guesses'[new] <= MaxAttempts + overlaps' + deaths'
  BY <1>1, <1>7
<1>9. QED
  BY <1>1, <1>3, <1>4, <1>6, <1>8 DEF GuessInv

LEMMA GuessUpdate ==
  ASSUME TypeInv, GuessInv, NEW q \in Requests, UpdateCode(q)
  PROVE  GuessInv'
<1> DEFINE i == req[q].i
<1>1. /\ Others(q) /\ UNCHANGED <<overlaps, deaths, guesses>> /\ At(q, "updateCode")
      /\ ~SavesCode(q)' /\ DOMAIN codes' = DOMAIN codes
      /\ \A j \in DOMAIN codes : j # i => codes'[j] = codes[j]
      /\ \A c \in Column : codes'[i][c] =
           IF c \in req[q].dirty THEN req[q].mem[c] ELSE codes[i][c]
  BY UpdateCodeMoves
<1>2. /\ SavesCode(q) /\ "attempts" \in Column /\ i \in DOMAIN codes
      /\ overlaps \in Nat /\ deaths \in Nat
      /\ codes[i].attempts \in Nat /\ req[q].mem.attempts \in Nat /\ guesses[i] \in Nat
  BY <1>1, CodeTypes, ColumnIs DEF SavesCode, At
<1>3. codes'[i].attempts =
        IF "attempts" \in req[q].dirty THEN req[q].mem.attempts ELSE codes[i].attempts
  BY <1>1, <1>2
<1>4. ASSUME NEW p \in Requests, SavesCode(p)'
      PROVE  guesses'[req'[p].i] <= req'[p].mem.attempts + overlaps' + deaths'
  <2>1. SavesCode(p) /\ req'[p] = req[p]
    BY <1>1, <1>4 DEF SavesCode, Others, At
  <2>2. guesses[req[p].i] <= req[p].mem.attempts + overlaps + deaths
    BY <2>1 DEF GuessInv
  <2>3. QED
    BY <1>1, <2>1, <2>2
<1>5. \A j : j # i \/ "attempts" \notin req[q].dirty => (Counting(j) => Counting(j)')
  BY <1>1 DEF Counting, SavesCode, Others, At
<1>6. guesses[i] <= req[q].mem.attempts + overlaps + deaths
  BY <1>2 DEF GuessInv
<1> HIDE DEF i
<1>7. ASSUME NEW j \in DOMAIN codes
      PROVE  /\ guesses[j] <= 1 + codes'[j].attempts + overlaps + deaths
             /\ ~Counting(j)' => guesses[j] <= codes'[j].attempts + overlaps + deaths
             /\ guesses[j] <= MaxAttempts + overlaps + deaths
  <2>1. /\ guesses[j] <= 1 + codes[j].attempts + overlaps + deaths
        /\ ~Counting(j) => guesses[j] <= codes[j].attempts + overlaps + deaths
        /\ guesses[j] <= MaxAttempts + overlaps + deaths
    BY DEF GuessInv
  <2>2. CASE j = i /\ "attempts" \in req[q].dirty
    <3>1. /\ guesses[i] <= 1 + req[q].mem.attempts + overlaps + deaths
          /\ guesses[i] <= req[q].mem.attempts + overlaps + deaths
      BY <1>2, <1>6
    <3>2. codes'[j].attempts = req[q].mem.attempts
      BY <1>3, <2>2
    <3>3. QED
      BY <2>1, <2>2, <3>1, <3>2
  <2>3. CASE j # i \/ "attempts" \notin req[q].dirty
    <3>1. codes'[j].attempts = codes[j].attempts
      BY <1>1, <1>3, <2>3
    <3>2. QED
      BY <1>5, <2>1, <2>3, <3>1
  <2>4. QED
    BY <2>2, <2>3
<1>8. QED
  BY <1>1, <1>4, <1>7 DEF GuessInv

LEMMA GuessSelect ==
  ASSUME TypeInv, GuessInv, NEW q \in Requests, SelectCode(q)
  PROVE  GuessInv'
<1>1. /\ Others(q) /\ UNCHANGED <<overlaps, deaths, data>> /\ At(q, "selectCode")
      /\ \/ /\ codes[req[q].i] = req[q].mem /\ ~SavesCode(q)'
         \/ /\ req'[q].at = "updateCode" /\ req'[q].i = req[q].i
            /\ req'[q].mem = req[q].mem
            /\ \A c \in Column : c \in req'[q].dirty <=> codes[req[q].i][c] # req[q].mem[c]
  BY SelectCodeMoves
<1>2. /\ SavesCode(q) /\ "attempts" \in Column /\ UNCHANGED <<codes, guesses>>
      /\ overlaps' \in Nat /\ overlaps' >= overlaps /\ deaths' \in Nat /\ deaths' >= deaths
  BY <1>1, CodeTypes, ColumnIs DEF SavesCode, At, data
<1>3. \A p \in Requests : SavesCode(p)' =>
        SavesCode(p) /\ req'[p].i = req[p].i /\ req'[p].mem = req[p].mem
  BY <1>1, <1>2 DEF SavesCode, Others, At
<1>4. guesses[req[q].i] <= req[q].mem.attempts + overlaps + deaths
  BY <1>2 DEF GuessInv
<1>5. ASSUME NEW j \in DOMAIN codes, Counting(j)
      PROVE  Counting(j)' \/ guesses[j] <= codes[j].attempts + overlaps + deaths
  <2>1. PICK p \in Requests : /\ SavesCode(p) /\ req[p].i = j
                              /\ At(p, "selectCode") \/ "attempts" \in req[p].dirty
    BY <1>5 DEF Counting
  <2>2. CASE p # q
    BY <1>1, <2>1, <2>2 DEF Counting, SavesCode, Others, At
  <2>3. CASE p = q
    <3>1. CASE codes[j].attempts = req[q].mem.attempts
      BY <1>4, <2>1, <2>3, <3>1
    <3>2. CASE codes[j].attempts # req[q].mem.attempts
      <4>1. req'[q].at = "updateCode" /\ req'[q].i = j /\ "attempts" \in req'[q].dirty
        BY <1>1, <1>2, <2>1, <2>3, <3>2
      <4>2. QED
        BY <4>1 DEF Counting, SavesCode, At
    <3>3. QED
      BY <3>1, <3>2
  <2>4. QED
    BY <2>2, <2>3
<1>6. QED
  BY <1>2, <1>3, <1>5, GuessStay

\* A step that leaves the codes and their saves alone.
LEMMA GuessIdle ==
  ASSUME TypeInv, GuessInv, UNCHANGED guesses, DOMAIN codes' = DOMAIN codes,
         \A j \in DOMAIN codes : codes'[j].attempts = codes[j].attempts,
         overlaps' \in Nat, overlaps' >= overlaps, UNCHANGED deaths,
         \A p \in Requests : SavesCode(p)' \/ SavesCode(p) => req'[p] = req[p]
  PROVE  GuessInv'
<1>1. /\ \A p \in Requests : SavesCode(p)' =>
           SavesCode(p) /\ req'[p].i = req[p].i /\ req'[p].mem = req[p].mem
      /\ \A j : Counting(j) => Counting(j)'
  BY DEF SavesCode, Counting, At
<1>2. deaths' \in Nat /\ deaths' >= deaths
  BY CodeTypes
<1>3. QED
  BY <1>1, <1>2, GuessStay

LEMMA GuessRoutes ==
  ASSUME TypeInv, BusyInv, GuessInv, NEW q \in Requests, Started(q)
  PROVE  GuessInv'
<1>1. PICK r : Start(q, r) /\ Opens(q, r)
  BY DEF Started
<1>2. /\ req'[q] = r /\ Others(q) /\ req[q].at = "idle" /\ UNCHANGED <<codes, deaths>>
      /\ overlaps' \in Nat /\ overlaps' >= overlaps
  <2>1. ServerTyped(Step)
    BY DEF TypeInv
  <2>2. QED
    BY <1>1, <2>1, StartBusy, RequestMoves DEF Started, Start, InFlight
<1>3. DOMAIN codes = 1..Len(codes) /\ DOMAIN guesses = 1..Len(codes)
      /\ \A j \in 1..Len(codes) : codes[j] \in Code /\ codes[j].attempts \in Nat /\ guesses[j] \in Nat
  BY CodeTypes
<1>4. CASE r.at = "selectCode" /\ r.op = "expire"
  <2>1. r.i \in Newest(Valid) /\ r.mem = [codes[r.i] EXCEPT !.age = "expired"]
        /\ UNCHANGED guesses
    BY <1>1, <1>4 DEF Opens
  <2>2. r.i \in DOMAIN codes
    BY <2>1 DEF Newest, Valid, Unverified
  <2>3. [codes[r.i] EXCEPT !.age = "expired"].attempts = codes[r.i].attempts + 0
    BY <1>3, <2>2 DEF Code
  <2>4. \A j \in DOMAIN codes : guesses'[j] = IF j = r.i THEN guesses[j] + 0 ELSE guesses[j]
    BY <1>3, <2>1
  <2>5. r.mem.attempts = codes[r.i].attempts + 0
    BY <2>1, <2>3
  <2>6. QED
    BY <1>1, <1>2, <1>4, <2>2, <2>4, <2>5, GuessStart
<1>5. CASE r.at = "selectCode" /\ r.op # "expire"
  <2>1. /\ r.i \in Newest(Unverified) /\ codes[r.i].attempts < MaxAttempts
        /\ r.mem = [codes[r.i] EXCEPT !.attempts = @ + 1, !.verified = r.op = "right"]
        /\ guesses' = [guesses EXCEPT ![r.i] = @ + 1]
    BY <1>1, <1>5 DEF Opens
  <2>2. r.i \in DOMAIN codes
    BY <2>1 DEF Newest, Unverified
  <2>3. r.mem.attempts = codes[r.i].attempts + 1
    <3>1. [codes[r.i] EXCEPT !.attempts = @ + 1, !.verified = r.op = "right"].attempts
            = codes[r.i].attempts + 1
      BY <1>3, <2>2 DEF Code
    <3>2. QED
      BY <2>1, <3>1, Zenon
  <2>4. \A j \in DOMAIN codes : guesses'[j] = IF j = r.i THEN guesses[j] + 1 ELSE guesses[j]
    BY <1>3, <2>1, <2>2
  <2>5. 1 \in {0, 1} /\ (1 = 1 => codes[r.i].attempts < MaxAttempts)
    BY <2>1
  <2>6. QED
    BY <1>1, <1>2, <1>5, <2>2, <2>3, <2>4, <2>5, GuessStart
<1>6. CASE r.at # "selectCode"
  <2>1. UNCHANGED guesses /\ r.at # "updateCode"
    BY <1>1, <1>6 DEF Opens
  <2>2. \A p \in Requests : SavesCode(p)' \/ SavesCode(p) => req'[p] = req[p]
    BY <1>2, <1>6, <2>1 DEF SavesCode, Others, At
  <2>3. QED
    BY <1>2, <2>1, <2>2, GuessIdle
<1>7. QED
  BY <1>4, <1>5, <1>6

LEMMA GuessCrash ==
  ASSUME TypeInv, GuessInv, NEW q \in Requests, Crash(q)
  PROVE  GuessInv'
<1>1. /\ Others(q) /\ UNCHANGED <<codes, guesses, overlaps>> /\ deaths' = deaths + 1
      /\ ~SavesCode(q)'
  BY CrashLeaves
<1>2. deaths' \in Nat /\ deaths' >= deaths /\ overlaps' \in Nat /\ overlaps' >= overlaps
  BY <1>1, CodeTypes
<1>3. \A p \in Requests : SavesCode(p)' => SavesCode(p) /\ req'[p] = req[p]
  BY <1>1 DEF SavesCode, Others, At
<1>4. QED
  BY <1>1, <1>2, <1>3, GuessStay

LEMMA GuessKept ==
  ASSUME TypeInv, BusyInv, GuessInv, [Next]_vars
  PROVE  GuessInv'
<1>0. overlaps' \in Nat /\ overlaps' >= overlaps
  BY BusyKept
<1>1. ASSUME NEW q \in Requests,
             \/ FindUser(q) \/ InsertUser(q) \/ FindProfile(q) \/ InsertProfile(q)
             \/ SelectAccount(q) \/ UpdateAccount(q)
             \/ Build(q) \/ IssueSession(q) \/ Retire(q) \/ Revoke(q) \/ RevokeAll(q)
      PROVE  GuessInv'
  <2>1. /\ Others(q) /\ UNCHANGED <<codes, guesses, overlaps, deaths>>
        /\ ~SavesCode(q) /\ ~SavesCode(q)'
    BY <1>1, NoCodeMoves
  <2>2. \A p \in Requests : SavesCode(p)' \/ SavesCode(p) => req'[p] = req[p]
    BY <2>1 DEF Others
  <2>3. QED
    BY <1>0, <2>1, <2>2, GuessIdle
<1>2. ASSUME NEW i \in DOMAIN codes, Age(i)
      PROVE  GuessInv'
  <2> DEFINE row == [codes[i] EXCEPT !.age = IF @ = "fresh" THEN "live" ELSE "expired"]
  <2>1. codes[i] \in Code /\ DOMAIN codes = 1..Len(codes)
    BY CodeTypes
  <2>2. row.attempts = codes[i].attempts
    BY <2>1 DEF Code
  <2>3. codes' = [codes EXCEPT ![i] = row] /\ UNCHANGED <<guesses, req, deaths>>
    BY <1>2 DEF Age, server
  <2> HIDE DEF row
  <2>4. DOMAIN codes' = DOMAIN codes
        /\ \A j \in DOMAIN codes : codes'[j].attempts = codes[j].attempts
    BY <2>1, <2>2, <2>3
  <2>5. \A p \in Requests : SavesCode(p)' \/ SavesCode(p) => req'[p] = req[p]
    BY <2>3
  <2>6. QED
    BY <1>0, <2>3, <2>4, <2>5, GuessIdle
<1>3. ASSUME \/ UNCHANGED vars
             \/ \E i \in DOMAIN tokens : Expire(i)
      PROVE  GuessInv'
  <2>1. UNCHANGED <<req, codes, guesses, deaths>>
    BY <1>3 DEF vars, data, server, Expire
  <2>2. QED
    BY <1>0, <2>1, GuessIdle
<1>4. ASSUME NEW q \in Requests, Statement(q)
      PROVE  GuessInv'
  BY <1>1, <1>4, GuessSelect, GuessUpdate, GuessInsert DEF Statement
<1>5. QED
  BY <1>2, <1>3, <1>4, GuessCrash, GuessRoutes, RoutesOpen DEF Next

LEMMA CodesInit == Init => ValidInv /\ GuessInv
<1> SUFFICES ASSUME Init PROVE ValidInv /\ GuessInv
  OBVIOUS
<1>1. overlaps = 0 /\ codes = <<>> /\ \A q \in Requests : req[q].at = "idle"
  BY DEF Init, ServerInit, Idle
<1>2. \A q \in Requests : ~SavesCode(q) /\ ~At(q, "insertCode") /\ ~Expiring(q)
  BY <1>1 DEF SavesCode, Expiring, At
<1>3. DOMAIN codes = {}
  BY <1>1
<1>4. Usable = {} /\ Sending = {}
  BY <1>2, <1>3 DEF Usable, Valid, Unverified, Comparing, Blunt, Sending
<1>5. Cardinality(Usable) = 0 /\ Cardinality(Sending) = 0
  BY <1>4, FS_EmptySet
<1>6. ValidInv
  BY <1>1, <1>2, <1>5 DEF ValidInv
<1>7. GuessInv
  BY <1>2, <1>3 DEF GuessInv
<1>8. QED
  BY <1>6, <1>7

\* "A fresh code invalidates the previous one", and the attempts at a code are
\* limited: one valid code at a time and MaxAttempts guesses at it, and at
\* most one more for every overlap, of the guesses for every death, too.
THEOREM CodesAlwaysBounded == Spec => []CodesBounded
<1> DEFINE Inv == TypeInv /\ BusyInv /\ ValidInv /\ GuessInv
<1>1. Init => Inv
  BY AccountsAssumption, InitInv, BusyStarts, CodesInit
<1>2. Inv /\ [Next]_vars => Inv'
  BY AccountsAssumption, NoRowAssumption, NextInv, BusyKept, ValidKept, GuessKept
<1>3. Inv => CodesBounded
  <2> SUFFICES ASSUME Inv PROVE CodesBounded
    OBVIOUS
  <2>1. /\ IsFiniteSet(Usable) /\ Cardinality(Usable) \in Nat /\ Valid \in SUBSET Usable
        /\ IsFiniteSet(Sending) /\ Cardinality(Sending) \in Nat /\ overlaps \in Nat
    BY CodesFinite
  <2>2. Cardinality(Valid) \in Nat /\ Cardinality(Valid) <= Cardinality(Usable)
    BY <2>1, Fewer
  <2>3. Cardinality(Usable) <= 1 + overlaps
    <3>1. CASE Retiring
      <4>1. PICK q \in Requests : q \in Sending
        BY <3>1 DEF Retiring, Sending
      <4>2. Cardinality(Sending) # 0
        BY <2>1, <4>1, FS_EmptySet
      <4>3. QED
        BY <2>1, <4>2 DEF ValidInv
    <3>2. CASE ~Retiring
      BY <2>1, <3>2 DEF ValidInv
    <3>3. QED
      BY <3>1, <3>2
  <2>4. \A i \in DOMAIN codes : guesses[i] <= MaxAttempts + overlaps + deaths
    BY DEF GuessInv
  <2>5. QED
    BY <2>1, <2>2, <2>3, <2>4 DEF CodesBounded
<1> HIDE DEF Inv
<1>4. QED
  BY <1>1, <1>2, <1>3, PTL DEF Spec

-----------------------------------------------------------------------------
(* The sessions a changed password leaves.                                 *)

\* Users have no password, nor have their sessions.
PlainUser ==
  /\ Exists(User) => accounts[User].password = Unused
  /\ \A i \in DOMAIN tokens : tokens[i].owner = User => tokens[i].password = Unused
  /\ \A q \in Requests :
       /\ req[q].at \in {"build", "issue"} /\ req[q].s = User => req[q].password = Unused
       /\ Saving(req[q]) /\ req[q].s = User => req[q].mem.password = Unused

\* Request q will revoke every session of s.
Covers(q, s) ==
  /\ At(q, "revokeAll") \/ (Saving(req[q]) /\ req[q].op \in {"password", "remove"})
  /\ req[q].s = s

Covered(s) == \E q \in Requests : Covers(q, s)

\* Password p is not the one s has, or not the one a save may give it back.
Outdated(s, p) ==
  \/ p # accounts[s].password
  \/ \E q \in Requests : Saving(req[q]) /\ req[q].s = s /\ req[q].mem.password # p

\* Sessions of admins that no request in flight will revoke.
Stale ==
  {i \in Live : /\ tokens[i].owner # User /\ ~Covered(tokens[i].owner)
                /\ Outdated(tokens[i].owner, tokens[i].password)}

\* Requests that will open a session, whose it is, and with which password.
Owner(q)   == IF At(q, "retire") THEN tokens[req[q].i].owner ELSE req[q].s
Secret(q)  == IF At(q, "retire") THEN tokens[req[q].i].password ELSE req[q].password
Issuing(q) == req[q].at \in {"retire", "build", "issue"} /\ Owner(q) # User
Issuers    == {q \in Requests : Issuing(q)}
Current(q) == Issuing(q) /\ Secret(q) = accounts[Owner(q)].password

\* One of the requests counted will open no stale session, or retires one.
Slack ==
  \/ /\ \A q \in Requests : ~Saving(req[q])
     /\ \E q \in Requests : Current(q)
  \/ \E q \in Requests : At(q, "retire") /\ req[q].i \in Stale

Room == IF Slack THEN 1 ELSE 0

\* A stale session, there already or still to be opened, for every overlap.
OldInv ==
  deaths = 0 => Cardinality(Stale) + Cardinality(Issuers) <= overlaps + Room

LEMMA StaleFinite ==
  ASSUME TypeInv, BusyInv
  PROVE  /\ IsFiniteSet(Stale) /\ IsFiniteSet(Issuers) /\ overlaps \in Nat
         /\ DOMAIN tokens = 1..Len(tokens) /\ Len(tokens) \in Nat
         /\ \A i \in 1..Len(tokens) : tokens[i] \in Token
<1>1. /\ DOMAIN tokens = 1..Len(tokens) /\ Len(tokens) \in Nat /\ overlaps \in Nat
      /\ \A i \in 1..Len(tokens) : tokens[i] \in Token
  BY DEF TypeInv, RowsTyped, ServerTyped
<1>2. Stale \in SUBSET (1..Len(tokens)) /\ IsFiniteSet(1..Len(tokens))
  BY <1>1, FS_Interval DEF Stale, Live
<1>3. Issuers \in SUBSET Busy
  BY DEF Issuers, Issuing, Busy, InFlight
<1>4. QED
  BY <1>1, <1>2, <1>3, Fewer DEF BusyInv

\* What may become of the two sets.
LEMMA OldStep ==
  ASSUME TypeInv, BusyInv, OldInv, overlaps' \in Nat, overlaps' >= overlaps, deaths' = deaths,
         \/ /\ Stale' \subseteq Stale /\ Issuers' \subseteq Issuers
            /\ Slack => \/ Slack' \/ Stale' # Stale \/ Issuers' # Issuers
                        \/ overlaps' = overlaps + 1
         \/ /\ Stale' \subseteq Stale /\ \E x : Issuers' \subseteq Issuers \cup {x}
            /\ \/ ~Slack /\ Slack'
               \/ overlaps' = overlaps + 1 /\ (Slack => Slack')
         \/ /\ \E x : Stale' \subseteq Stale \cup {x}
            /\ \E x \in Issuers : Issuers' \subseteq Issuers \ {x}
            /\ Slack => Slack'
  PROVE  OldInv'
<1> SUFFICES ASSUME deaths = 0
             PROVE  Cardinality(Stale') + Cardinality(Issuers') <= overlaps' + Room'
  BY DEF OldInv
<1>1. IsFiniteSet(Stale) /\ IsFiniteSet(Issuers) /\ overlaps \in Nat
  BY StaleFinite
<1>2. PICK oo \in Nat : /\ oo = overlaps' /\ overlaps <= oo
                        /\ overlaps' = overlaps + 1 => oo = overlaps + 1
  BY <1>1
<1>3. PICK e \in {0, 1} : e = Room /\ (Slack => e = 1) /\ (~Slack => e = 0)
  BY DEF Room
<1>4. PICK ee \in {0, 1} : ee = Room' /\ (Slack' => ee = 1) /\ (~Slack' => ee = 0)
  BY DEF Room
<1>5. Cardinality(Stale) + Cardinality(Issuers) <= overlaps + e
  BY <1>3 DEF OldInv
<1>6. PICK n \in Nat : n = overlaps + e
  BY <1>1
<1>7. PICK nn \in Nat : nn = oo + ee
  OBVIOUS
<1>8. \/ Stale' \subseteq Stale /\ Issuers' \subseteq Issuers /\ n <= nn
      \/ Stale' \subseteq Stale /\ Issuers' \subseteq Issuers /\ n <= nn + 1
         /\ (Stale' # Stale \/ Issuers' # Issuers)
      \/ Stale' \subseteq Stale /\ (\E x : Issuers' \subseteq Issuers \cup {x}) /\ n + 1 <= nn
      \/ /\ \E x : Stale' \subseteq Stale \cup {x}
         /\ \E x \in Issuers : Issuers' \subseteq Issuers \ {x}
         /\ n <= nn
  <2>1. overlaps <= oo /\ overlaps \in Nat /\ oo \in Nat
    BY <1>1, <1>2
  <2>2. CASE /\ Stale' \subseteq Stale /\ Issuers' \subseteq Issuers
             /\ Slack => \/ Slack' \/ Stale' # Stale \/ Issuers' # Issuers
                         \/ overlaps' = overlaps + 1
    <3>1. e <= ee \/ oo = overlaps + 1 \/ Stale' # Stale \/ Issuers' # Issuers
      BY <1>2, <1>3, <1>4, <2>2
    <3>2. n <= nn \/ (n <= nn + 1 /\ (Stale' # Stale \/ Issuers' # Issuers))
      BY <1>6, <1>7, <2>1, <3>1
    <3>3. QED
      BY <2>2, <3>2
  <2>3. CASE /\ Stale' \subseteq Stale /\ \E x : Issuers' \subseteq Issuers \cup {x}
             /\ \/ ~Slack /\ Slack'
                \/ overlaps' = overlaps + 1 /\ (Slack => Slack')
    <3>1. (e = 0 /\ ee = 1) \/ (oo = overlaps + 1 /\ e <= ee)
      BY <1>2, <1>3, <1>4, <2>3
    <3>2. n + 1 <= nn
      BY <1>6, <1>7, <2>1, <3>1
    <3>3. QED
      BY <2>3, <3>2
  <2>4. CASE /\ \E x : Stale' \subseteq Stale \cup {x}
             /\ \E x \in Issuers : Issuers' \subseteq Issuers \ {x}
             /\ Slack => Slack'
    <3>1. e <= ee
      BY <1>3, <1>4, <2>4
    <3>2. n <= nn
      BY <1>6, <1>7, <2>1, <3>1
    <3>3. QED
      BY <2>4, <3>2
  <2>5. QED
    BY <2>2, <2>3, <2>4
<1>9. Cardinality(Stale) + Cardinality(Issuers) <= n
  BY <1>5, <1>6
<1>10. Affords(Stale, Issuers, n, Stale', Issuers', nn)
  BY <1>8 DEF Affords
<1>11. Cardinality(Stale') + Cardinality(Issuers') <= nn
  BY <1>1, <1>9, <1>10, Afforded
<1>12. QED
  BY <1>2, <1>4, <1>7, <1>11

\* An account is saved: its password is the one it has or the one loaded.
LEMMA SaveMoves ==
  ASSUME TypeInv, NoRowAssumption, NEW q \in Requests, SelectAccount(q) \/ UpdateAccount(q)
  PROVE  /\ Others(q) /\ UNCHANGED <<overlaps, deaths, tokens, logins>>
         /\ Saving(req[q]) /\ req[q].s \in Subject /\ accounts[req[q].s] # NoRow
         /\ \A s \in Subject : s # req[q].s => accounts'[s] = accounts[s]
         /\ accounts'[req[q].s].password \in {accounts[req[q].s].password, req[q].mem.password}
         /\ \/ /\ Saving(req'[q]) /\ req'[q].s = req[q].s /\ UNCHANGED accounts
               /\ req'[q].mem = req[q].mem /\ req'[q].op = req[q].op
            \/ /\ req'[q].at \in {"idle", "revokeAll"}
               /\ req'[q].at = "revokeAll" => req'[q].s = req[q].s
               /\ req[q].op = "password" \/ (req[q].op = "remove" /\ req[q].s # User) =>
                    req'[q].at = "revokeAll"
<1>1. /\ Saving(req[q]) /\ req[q] \in SavingAccount /\ accounts[req[q].s] \in Account
      /\ accounts[req[q].s] # NoRow /\ req[q].s \in Subject
  BY Memory DEF SelectAccount, UpdateAccount, At, Saving, TypeInv, There, SavingAccount
<1>2. UNCHANGED <<tokens, logins>>
  BY DEF SelectAccount, UpdateAccount, data
<1>3. ASSUME AccountSaved(q)
      PROVE  /\ Others(q) /\ UNCHANGED <<overlaps, deaths>>
             /\ req'[q].at \in {"idle", "revokeAll"}
             /\ req'[q].at = "revokeAll" => req'[q].s = req[q].s
             /\ req[q].op = "password" \/ (req[q].op = "remove" /\ req[q].s # User) =>
                  req'[q].at = "revokeAll"
  <2> DEFINE r == [at |-> "revokeAll", s |-> req[q].s]
             R == req[q].op = "password" \/ (req[q].op = "remove" /\ req[q].s # User)
  <2>1. r.at = "revokeAll" /\ r.s = req[q].s /\ Idle.at = "idle"
    BY DEF Idle
  <2>2. IF R THEN Go(q, r) ELSE Go(q, Idle)
    BY <1>3 DEF AccountSaved, Answer
  <2> HIDE DEF r, R
  <2>3. IF R THEN req'[q] = r ELSE req'[q] = Idle
    BY <2>2, RequestMoves
  <2>4. Others(q) /\ UNCHANGED <<overlaps, deaths>>
    BY <2>2, RequestMoves DEF Go
  <2>5. QED
    BY <2>1, <2>3, <2>4 DEF R
<1>4. CASE SelectAccount(q)
  <2> DEFINE r == [req[q] EXCEPT !.at = "updateAccount",
                                 !.dirty = Differing(accounts[req[q].s], req[q].mem)]
  <2>1. UNCHANGED accounts /\ (AccountSaved(q) \/ Go(q, r))
    BY <1>4 DEF SelectAccount, data
  <2>2. r.at = "updateAccount" /\ r.s = req[q].s /\ r.mem = req[q].mem /\ r.op = req[q].op
    BY <1>1 DEF SavingAccount
  <2> HIDE DEF r
  <2>3. CASE AccountSaved(q)
    BY <1>1, <1>2, <1>3, <2>1, <2>3
  <2>4. CASE Go(q, r)
    <3>1. req'[q] = r /\ Others(q) /\ UNCHANGED <<overlaps, deaths>>
      BY <2>4, RequestMoves DEF Go
    <3>2. Saving(req'[q]) /\ req'[q].s = req[q].s /\ req'[q].mem = req[q].mem
          /\ req'[q].op = req[q].op
      BY <2>2, <3>1 DEF Saving
    <3>3. QED
      BY <1>1, <1>2, <2>1, <3>1, <3>2
  <2>5. QED
    BY <2>1, <2>3, <2>4
<1>5. CASE UpdateAccount(q)
  <2> DEFINE row == Overwrite(accounts[req[q].s], req[q].mem, req[q].dirty)
  <2>1. accounts' = [accounts EXCEPT ![req[q].s] = row] /\ AccountSaved(q)
    BY <1>5 DEF UpdateAccount
  <2>2. row.password \in {accounts[req[q].s].password, req[q].mem.password}
    BY <1>1 DEF Overwrite, Account
  <2> HIDE DEF row
  <2>3. DOMAIN accounts = Subject
    BY DEF TypeInv, RowsTyped
  <2>4. accounts'[req[q].s] = row /\ \A s \in Subject : s # req[q].s => accounts'[s] = accounts[s]
    BY <1>1, <2>1, <2>3
  <2>5. QED
    BY <1>1, <1>2, <1>3, <2>1, <2>2, <2>4
<1>6. QED
  BY <1>4, <1>5

\* The statements that change no account, and go on to save none.
LEMMA NoSaveMoves ==
  ASSUME TypeInv, AccountsAssumption, NEW q \in Requests,
         \/ SelectCode(q) \/ UpdateCode(q) \/ InsertCode(q)
         \/ FindUser(q) \/ InsertUser(q) \/ FindProfile(q) \/ InsertProfile(q)
  PROVE  /\ Others(q) /\ UNCHANGED <<overlaps, deaths, tokens, logins>>
         /\ \A s \in Admins : accounts'[s] = accounts[s]
         /\ accounts'[User] = accounts[User] \/ accounts'[User].password = Unused
         /\ req[q].at \notin {"retire", "build", "issue", "revokeAll"} /\ ~Saving(req[q])
         /\ req'[q].at \notin {"retire", "issue", "revokeAll"} /\ ~Saving(req'[q])
         /\ req'[q].at = "build" => req'[q].s = User /\ req'[q].password = Unused
<1>1. /\ UNCHANGED <<tokens, logins>> /\ req[q].at \notin {"retire", "build", "issue", "revokeAll"}
      /\ ~Saving(req[q])
  BY OtherStatements
     DEF SelectCode, UpdateCode, InsertCode, FindUser, InsertUser, FindProfile, InsertProfile,
         At, Saving
<1>2. /\ \A s \in Admins : accounts'[s] = accounts[s]
      /\ accounts'[User] = accounts[User] \/ accounts'[User].password = Unused
  <2>1. CASE InsertUser(q) /\ ~Exists(User)
    <3> DEFINE row == [active |-> TRUE, password |-> Unused]
    <3>1. accounts' = [accounts EXCEPT ![User] = row] /\ row.password = Unused
      BY <2>1 DEF InsertUser
    <3> HIDE DEF row
    <3>2. DOMAIN accounts = Admins \cup {User} /\ User \notin Admins
      BY AccountsAssumption DEF TypeInv, RowsTyped, Subject, AccountsAssumption
    <3>3. QED
      BY <3>1, <3>2
  <2>2. CASE ~(InsertUser(q) /\ ~Exists(User))
    BY <2>2 DEF SelectCode, UpdateCode, InsertCode, FindUser, InsertUser, FindProfile,
                InsertProfile, data
  <2>3. QED
    BY <2>1, <2>2
<1>3. PICK r : /\ Go(q, r)
               /\ r.at \notin {"retire", "issue", "revokeAll"} /\ ~Saving(r)
               /\ r.at = "build" => r.s = User /\ r.password = Unused
  <2> DEFINE Way(r) == /\ r.at \notin {"retire", "issue", "revokeAll"} /\ ~Saving(r)
                       /\ r.at = "build" => r.s = User /\ r.password = Unused
  <2>1. ASSUME NEW at \in {"insertCode", "findUser", "insertUser", "findProfile",
                           "insertProfile"}, Go(q, [at |-> at])
        PROVE  \E r : Go(q, r) /\ Way(r)
    <3> DEFINE r == [at |-> at]
    <3>1. Go(q, r) /\ Way(r)
      BY <2>1 DEF Saving
    <3> HIDE DEF r, Way
    <3>2. QED
      BY <3>1
  <2>2. ASSUME Go(q, Session(User, Unused, TRUE))
        PROVE  \E r : Go(q, r) /\ Way(r)
    <3> DEFINE r == Session(User, Unused, TRUE)
    <3>1. Go(q, r) /\ Way(r)
      BY <2>2 DEF Session, Saving
    <3> HIDE DEF r, Way
    <3>2. QED
      BY <3>1
  <2>3. ASSUME Answer(q) PROVE \E r : Go(q, r) /\ Way(r)
    BY <2>3 DEF Answer, Idle, Saving
  <2>4. ASSUME SelectCode(q) \/ UpdateCode(q) PROVE \E r : Go(q, r) /\ Way(r)
    <3>1. req[q] \in SavingCode
      BY <2>4, Memory DEF SelectCode, UpdateCode, At
    <3>2. CASE CodeSaved(q)
      BY <2>1, <2>3, <3>1, <3>2 DEF CodeSaved, SavingCode
    <3>3. CASE ~CodeSaved(q)
      <4> DEFINE r == [req[q] EXCEPT !.at = "updateCode",
                                     !.dirty = Differing(codes[req[q].i], req[q].mem)]
      <4>1. Go(q, r)
        BY <2>4, <3>3 DEF SelectCode, UpdateCode
      <4>2. r.at = "updateCode"
        BY <3>1 DEF SavingCode
      <4> HIDE DEF r
      <4>3. QED
        BY <4>1, <4>2 DEF Saving
    <3>4. QED
      BY <3>2, <3>3
  <2> HIDE DEF Way
  <2>5. \E r : Go(q, r) /\ Way(r)
    BY <2>1, <2>2, <2>3, <2>4
       DEF InsertCode, FindUser, InsertUser, FindProfile, InsertProfile
  <2>6. QED
    BY <2>5 DEF Way
<1>4. req'[q] = r /\ Others(q) /\ UNCHANGED <<overlaps, deaths>>
  BY <1>3, RequestMoves DEF Go
<1>5. QED
  BY <1>1, <1>2, <1>3, <1>4

\* The tokens issued so far stay what they are, but for being live.
LEMMA PlainStep ==
  ASSUME TypeInv, PlainUser, NEW q \in Requests, Others(q),
         \A i \in DOMAIN tokens' :
           \/ i \in DOMAIN tokens /\ tokens'[i].owner = tokens[i].owner
                                  /\ tokens'[i].password = tokens[i].password
           \/ tokens'[i].owner = User => tokens'[i].password = Unused,
         Exists(User)' => \/ Exists(User) /\ accounts'[User].password = accounts[User].password
                          \/ accounts'[User].password = Unused,
         /\ req'[q].at \in {"build", "issue"} /\ req'[q].s = User => req'[q].password = Unused
         /\ Saving(req'[q]) /\ req'[q].s = User => req'[q].mem.password = Unused
  PROVE  PlainUser'
BY DEF PlainUser, Others, Saving

LEMMA PlainKept ==
  ASSUME TypeInv, PlainUser, AccountsAssumption, NoRowAssumption, [Next]_vars
  PROVE  PlainUser'
<1>1. ASSUME NEW q \in Requests, Started(q)
      PROVE  PlainUser'
  <2>1. PICK r : Start(q, r) /\ Opens(q, r)
    BY <1>1 DEF Started
  <2>2. req'[q] = r /\ Others(q) /\ UNCHANGED <<tokens, accounts>>
    BY <1>1, <2>1, RequestMoves DEF Started
  <2>3. /\ r.at \notin {"issue", "updateAccount"} /\ (r.at = "build" => r.s \in Admins)
        /\ r.at = "selectAccount" => \/ r.s \in Admins
                                     \/ Exists(r.s) /\ r.mem.password = accounts[r.s].password
    BY <2>1 DEF Opens
  <2>4. User \notin Admins
    BY AccountsAssumption DEF AccountsAssumption
  <2>5. /\ r.at \in {"build", "issue"} /\ r.s = User => r.password = Unused
        /\ Saving(r) /\ r.s = User => r.mem.password = Unused
    BY <2>3, <2>4 DEF Saving, PlainUser
  <2>6. Exists(User)' => Exists(User) /\ accounts'[User].password = accounts[User].password
    BY <2>2 DEF Exists
  <2>7. QED
    BY <2>2, <2>5, <2>6, PlainStep
<1>2. ASSUME NEW q \in Requests,
             \/ SelectCode(q) \/ UpdateCode(q) \/ InsertCode(q)
             \/ FindUser(q) \/ InsertUser(q) \/ FindProfile(q) \/ InsertProfile(q)
      PROVE  PlainUser'
  <2>1. /\ Others(q) /\ UNCHANGED tokens
        /\ accounts'[User] = accounts[User] \/ accounts'[User].password = Unused
        /\ req'[q].at # "issue" /\ ~Saving(req'[q])
        /\ req'[q].at = "build" => req'[q].s = User /\ req'[q].password = Unused
    BY <1>2, NoSaveMoves
  <2>2. Exists(User)' => \/ Exists(User) /\ accounts'[User].password = accounts[User].password
                         \/ accounts'[User].password = Unused
    BY <2>1 DEF Exists
  <2>3. QED
    BY <2>1, <2>2, PlainStep
<1>3. ASSUME NEW q \in Requests, SelectAccount(q) \/ UpdateAccount(q)
      PROVE  PlainUser'
  <2>1. /\ Others(q) /\ UNCHANGED tokens /\ Saving(req[q])
        /\ req[q].s \in Subject /\ accounts[req[q].s] # NoRow
        /\ \A s \in Subject : s # req[q].s => accounts'[s] = accounts[s]
        /\ accounts'[req[q].s].password \in {accounts[req[q].s].password, req[q].mem.password}
        /\ \/ Saving(req'[q]) /\ req'[q].s = req[q].s /\ req'[q].mem = req[q].mem
           \/ req'[q].at \in {"idle", "revokeAll"}
    BY <1>3, SaveMoves
  <2>2. User \in Subject
    BY DEF Subject
  <2>3. Exists(User)' => \/ Exists(User) /\ accounts'[User].password = accounts[User].password
                         \/ accounts'[User].password = Unused
    <3>1. CASE req[q].s = User
      BY <2>1, <3>1 DEF PlainUser, Exists
    <3>2. CASE req[q].s # User
      BY <2>1, <2>2, <3>2 DEF Exists
    <3>3. QED
      BY <3>1, <3>2
  <2>4. /\ req'[q].at \in {"build", "issue"} /\ req'[q].s = User => req'[q].password = Unused
        /\ Saving(req'[q]) /\ req'[q].s = User => req'[q].mem.password = Unused
    BY <2>1 DEF PlainUser, Saving
  <2>5. QED
    BY <2>1, <2>3, <2>4, PlainStep
<1>4. ASSUME NEW q \in Requests, Build(q)
      PROVE  PlainUser'
  <2>1. /\ Others(q) /\ At(q, "build") /\ UNCHANGED <<tokens, accounts>>
        /\ \/ req'[q].at = "idle"
           \/ /\ req'[q].at = "issue" /\ req'[q].s = req[q].s
              /\ req'[q].password = req[q].password
    BY <1>4, BuildMoves DEF data, Idle
  <2>2. /\ req'[q].at \in {"build", "issue"} /\ req'[q].s = User => req'[q].password = Unused
        /\ ~Saving(req'[q])
    BY <2>1 DEF PlainUser, Saving, At
  <2>3. Exists(User)' => Exists(User) /\ accounts'[User].password = accounts[User].password
    BY <2>1 DEF Exists
  <2>4. QED
    BY <2>1, <2>2, <2>3, PlainStep
<1>5. ASSUME NEW q \in Requests, IssueSession(q)
      PROVE  PlainUser'
  <2> DEFINE row == [owner |-> req[q].s, password |-> req[q].password, live |-> TRUE]
  <2>1. /\ Others(q) /\ At(q, "issue") /\ UNCHANGED accounts /\ req'[q].at = "idle"
        /\ tokens' = Append(tokens, row)
    BY <1>5, IssueMoves DEF Idle
  <2>2. row.owner = User => row.password = Unused
    BY <2>1 DEF PlainUser, At
  <2> HIDE DEF row
  <2>3. tokens \in Seq(Token)
    BY DEF TypeInv, RowsTyped
  <2>4. \A i \in DOMAIN tokens' : (i \in DOMAIN tokens /\ tokens'[i] = tokens[i]) \/ tokens'[i] = row
    BY <2>1, <2>3
  <2>5. Exists(User)' => Exists(User) /\ accounts'[User].password = accounts[User].password
    BY <2>1 DEF Exists
  <2>6. \A i \in DOMAIN tokens' :
          \/ i \in DOMAIN tokens /\ tokens'[i].owner = tokens[i].owner
                                 /\ tokens'[i].password = tokens[i].password
          \/ tokens'[i].owner = User => tokens'[i].password = Unused
    BY <2>2, <2>4
  <2>7. req'[q].at \notin {"build", "issue"} /\ ~Saving(req'[q])
    BY <2>1 DEF Saving
  <2>8. QED
    BY <2>1, <2>5, <2>6, <2>7, PlainStep
<1>6. ASSUME NEW q \in Requests, Retire(q)
      PROVE  PlainUser'
  <2>1. /\ Others(q) /\ UNCHANGED <<logins, accounts>> /\ req[q].i \in 1..Len(tokens)
        /\ req'[q] = Session(tokens[req[q].i].owner, tokens[req[q].i].password, FALSE)
        /\ tokens' = [tokens EXCEPT ![req[q].i].live = FALSE]
    BY <1>6, RetireMoves
  <2>2. Revokes
    BY <2>1, OneRevoked
  <2>3. DOMAIN tokens = 1..Len(tokens) /\ DOMAIN tokens' = DOMAIN tokens
    BY <2>1 DEF TypeInv, RowsTyped
  <2>4. /\ req'[q].at = "build" /\ req'[q].s = tokens[req[q].i].owner
        /\ req'[q].password = tokens[req[q].i].password
    BY <2>1 DEF Session
  <2>5. /\ req'[q].s = User => req'[q].password = Unused
        /\ ~Saving(req'[q])
    BY <2>1, <2>3, <2>4 DEF PlainUser, Saving
  <2>6. Exists(User)' => Exists(User) /\ accounts'[User].password = accounts[User].password
    BY <2>1 DEF Exists
  <2>7. \A i \in DOMAIN tokens' : i \in DOMAIN tokens /\ tokens'[i].owner = tokens[i].owner
                                  /\ tokens'[i].password = tokens[i].password
    BY <2>2, <2>3 DEF Revokes
  <2>8. QED
    BY <2>1, <2>5, <2>6, <2>7, PlainStep
<1>7. ASSUME NEW q \in Requests, Revoke(q) \/ RevokeAll(q) \/ Crash(q)
      PROVE  PlainUser'
  <2>1. Others(q) /\ req'[q].at = "idle"
    BY <1>7, RevokeMoves, RevokeAllMoves, CrashMoves DEF Idle
  <2>2. UNCHANGED accounts /\ (UNCHANGED tokens \/ Revokes)
    BY <1>7, RevokeMoves, RevokeAllMoves, CrashMoves DEF data, Revokes
  <2>3. tokens \in Seq(Token) /\ (UNCHANGED tokens \/ tokens' \in Seq(Token))
    BY <1>7, NextInv, AccountsAssumption, NoRowAssumption DEF TypeInv, RowsTyped
  <2>4. \A i \in DOMAIN tokens' : i \in DOMAIN tokens /\ tokens'[i].owner = tokens[i].owner
                                  /\ tokens'[i].password = tokens[i].password
    BY <2>2, <2>3 DEF Revokes
  <2>5. Exists(User)' => Exists(User) /\ accounts'[User].password = accounts[User].password
    BY <2>2 DEF Exists
  <2>6. req'[q].at \notin {"build", "issue"} /\ ~Saving(req'[q])
    BY <2>1 DEF Saving
  <2>7. QED
    BY <2>1, <2>4, <2>5, <2>6, PlainStep
<1>8. ASSUME NEW i \in DOMAIN tokens, Expire(i)
      PROVE  PlainUser'
  <2>1. /\ i \in 1..Len(tokens) /\ tokens' = [tokens EXCEPT ![i].live = FALSE]
        /\ UNCHANGED <<logins, accounts, req>>
    BY <1>8 DEF Expire, server, TypeInv, RowsTyped
  <2>2. Revokes
    BY <2>1, OneRevoked
  <2>3. DOMAIN tokens = 1..Len(tokens) /\ DOMAIN tokens' = DOMAIN tokens
    BY <2>1 DEF TypeInv, RowsTyped
  <2>4. \A j \in DOMAIN tokens' : j \in DOMAIN tokens /\ tokens'[j].owner = tokens[j].owner
                                  /\ tokens'[j].password = tokens[j].password
    BY <2>2, <2>3 DEF Revokes
  <2>5. QED
    BY <2>1, <2>4 DEF PlainUser, Exists, Saving
<1>9. ASSUME UNCHANGED vars \/ \E i \in DOMAIN codes : Age(i)
      PROVE  PlainUser'
  <2>1. UNCHANGED <<tokens, accounts, req>>
    BY <1>9 DEF vars, data, server, Age
  <2>2. QED
    BY <2>1 DEF PlainUser, Exists, Saving
<1>10. ASSUME NEW q \in Requests, Statement(q)
       PROVE  PlainUser'
  BY <1>2, <1>3, <1>4, <1>5, <1>6, <1>7, <1>10 DEF Statement
<1>11. QED
  BY <1>1, <1>7, <1>8, <1>9, <1>10, RoutesOpen DEF Next

\* The tokens are the same ones; some may be live no longer.
Withdrawn ==
  /\ DOMAIN tokens' = DOMAIN tokens
  /\ \A i \in DOMAIN tokens : /\ tokens'[i].live => tokens[i].live
                              /\ tokens'[i].owner = tokens[i].owner
                              /\ tokens'[i].password = tokens[i].password

LEMMA OwnerKnown ==
  ASSUME TypeInv
  PROVE  /\ \A i \in DOMAIN tokens : tokens[i].owner \in Admins \cup {User}
         /\ \A q \in Requests : At(q, "retire") => req[q].i \in DOMAIN tokens
         /\ \A q \in Requests : Issuing(q) => Owner(q) \in Admins
<1>1. \A i \in DOMAIN tokens : tokens[i].owner \in Admins \cup {User}
  <2>1. \A i \in DOMAIN tokens : tokens[i] \in Token
    BY DEF TypeInv, RowsTyped
  <2>2. QED
    BY <2>1 DEF Token, Subject
<1>2. \A q \in Requests : At(q, "retire") => req[q].i \in DOMAIN tokens
  BY Memory DEF At, TypeInv, RowsTyped
<1>3. \A q \in Requests : req[q].at \in {"build", "issue"} => req[q].s \in Admins \cup {User}
  BY Memory DEF Opening, Subject
<1>4. QED
  BY <1>1, <1>2, <1>3 DEF Issuing, Owner, At

LEMMA StaleWithin ==
  ASSUME TypeInv, Withdrawn,
         \A s \in Admins : Covered(s) =>
           \/ Covered(s)'
           \/ \A i \in DOMAIN tokens : tokens[i].owner = s => ~tokens'[i].live,
         \A s \in Admins : \A p : Outdated(s, p)' => Outdated(s, p) \/ Covered(s)'
  PROVE  Stale' \subseteq Stale
<1> SUFFICES ASSUME NEW i \in Stale' PROVE i \in Stale
  OBVIOUS
<1>1. i \in DOMAIN tokens' /\ tokens'[i].live /\ tokens'[i].owner # User
      /\ ~Covered(tokens[i].owner)' /\ Outdated(tokens[i].owner, tokens[i].password)'
  BY DEF Stale, Live
<1>2. PICK s, p : s = tokens[i].owner /\ p = tokens[i].password
  OBVIOUS
<1>3. i \in DOMAIN tokens /\ tokens[i].live /\ tokens'[i].owner = s /\ tokens'[i].password = p
  BY <1>1, <1>2 DEF Withdrawn
<1>4. s \in Admins /\ s # User
  BY <1>1, <1>2, <1>3, OwnerKnown
<1>5. ~Covered(s)' /\ Outdated(s, p)'
  BY <1>1, <1>3 DEF Covered, Covers, Outdated
<1>6. ~Covered(s) /\ Outdated(s, p)
  BY <1>1, <1>2, <1>3, <1>4, <1>5
<1>7. QED
  BY <1>2, <1>3, <1>4, <1>6 DEF Stale, Live

\* A step that starts no request and issues no token.
LEMMA OldCalm ==
  ASSUME TypeInv, BusyInv, OldInv, UNCHANGED <<overlaps, deaths>>, Withdrawn,
         Stale' \subseteq Stale,
         \/ \A s \in Admins : accounts'[s] = accounts[s]
         \/ \E q \in Requests : Saving(req[q]),
         \A p \in Requests :
           \/ req'[p] = req[p]
           \/ /\ Saving(req'[p]) => Saving(req[p])
              /\ Issuing(p)' => Issuing(p) /\ Owner(p)' = Owner(p) /\ Secret(p)' = Secret(p)
              /\ At(p, "retire") => ~tokens'[req[p].i].live
  PROVE  OldInv'
<1>1. \A p \in Requests : Issuing(p)' =>
        Issuing(p) /\ Owner(p)' = Owner(p) /\ Secret(p)' = Secret(p)
  <2> SUFFICES ASSUME NEW p \in Requests, Issuing(p)', req'[p] = req[p]
               PROVE  Issuing(p) /\ Owner(p)' = Owner(p) /\ Secret(p)' = Secret(p)
    OBVIOUS
  <2>1. At(p, "retire") => /\ tokens'[req[p].i].owner = tokens[req[p].i].owner
                           /\ tokens'[req[p].i].password = tokens[req[p].i].password
    BY OwnerKnown DEF Withdrawn
  <2>2. Owner(p)' = Owner(p) /\ Secret(p)' = Secret(p)
    BY <2>1 DEF Owner, Secret, At
  <2>3. QED
    BY <2>2 DEF Issuing
<1>2. Issuers' \subseteq Issuers
  BY <1>1 DEF Issuers
<1>3. ASSUME Slack PROVE Slack' \/ Stale' # Stale \/ Issuers' # Issuers
  <2>1. ASSUME \A p \in Requests : ~Saving(req[p]), NEW p \in Requests, Current(p)
        PROVE  Slack' \/ Issuers' # Issuers
    <3>1. \A o \in Requests : ~Saving(req'[o])
      BY <2>1 DEF Saving
    <3>2. CASE Issuing(p)'
      <4>1. Owner(p) \in Admins
        BY <2>1, OwnerKnown DEF Current
      <4>2. accounts'[Owner(p)] = accounts[Owner(p)]
        BY <2>1, <4>1
      <4>3. Current(p)'
        BY <1>1, <2>1, <3>2, <4>2 DEF Current
      <4>4. QED
        BY <3>1, <4>3 DEF Slack
    <3>3. CASE ~Issuing(p)'
      BY <2>1, <3>3 DEF Issuers, Current
    <3>4. QED
      BY <3>2, <3>3
  <2>2. ASSUME NEW p \in Requests, At(p, "retire"), req[p].i \in Stale
        PROVE  Slack' \/ Stale' # Stale
    <3>1. CASE req'[p] = req[p]
      <4>1. At(p, "retire")' /\ req'[p].i = req[p].i
        BY <2>2, <3>1 DEF At
      <4>2. QED
        BY <2>2, <4>1 DEF Slack
    <3>2. CASE ~tokens'[req[p].i].live
      <4>1. req[p].i \notin Stale'
        BY <3>2 DEF Stale, Live
      <4>2. QED
        BY <2>2, <4>1
    <3>3. QED
      BY <2>2, <3>1, <3>2
  <2>3. QED
    BY <1>3, <2>1, <2>2 DEF Slack
<1>4. overlaps' \in Nat /\ overlaps' >= overlaps
  BY StaleFinite
<1>5. QED
  BY <1>2, <1>3, <1>4, OldStep

\* A request that neither saves an account nor revokes them all moves on.
LEMMA OldAside ==
  ASSUME TypeInv, BusyInv, OldInv, UNCHANGED <<overlaps, deaths>>, Withdrawn,
         NEW q \in Requests, Others(q), ~Saving(req[q]), ~Saving(req'[q]),
         req[q].at # "revokeAll", \A s \in Admins : accounts'[s] = accounts[s],
         Issuing(q)' => Issuing(q) /\ Owner(q)' = Owner(q) /\ Secret(q)' = Secret(q),
         At(q, "retire") => ~tokens'[req[q].i].live
  PROVE  OldInv'
<1>1. ASSUME NEW s, Covered(s) PROVE Covered(s)'
  <2>1. PICK p \in Requests : Covers(p, s)
    BY <1>1 DEF Covered
  <2>2. p # q
    BY <2>1 DEF Covers, At
  <2>3. Covers(p, s)'
    BY <2>1, <2>2 DEF Covers, Others, At
  <2>4. QED
    BY <2>3 DEF Covered
<1>2. ASSUME NEW s \in Admins, NEW p, Outdated(s, p)'
      PROVE  Outdated(s, p)
  BY <1>2 DEF Outdated, Others
<1>3. Stale' \subseteq Stale
  BY <1>1, <1>2, StaleWithin
<1>4. \A p \in Requests :
        \/ req'[p] = req[p]
        \/ /\ Saving(req'[p]) => Saving(req[p])
           /\ Issuing(p)' => Issuing(p) /\ Owner(p)' = Owner(p) /\ Secret(p)' = Secret(p)
           /\ At(p, "retire") => ~tokens'[req[p].i].live
  BY DEF Others
<1>5. QED
  BY <1>3, <1>4, OldCalm

LEMMA OldIdle ==
  ASSUME TypeInv, BusyInv, OldInv, UNCHANGED <<req, accounts, overlaps, deaths>>, Withdrawn
  PROVE  OldInv'
<1>1. \A s : Covered(s)' <=> Covered(s)
  BY DEF Covered, Covers, At
<1>2. \A s, p : Outdated(s, p)' <=> Outdated(s, p)
  BY DEF Outdated
<1>3. Stale' \subseteq Stale
  BY <1>1, <1>2, StaleWithin
<1>4. QED
  BY <1>3, OldCalm

LEMMA OldRevokeAll ==
  ASSUME TypeInv, BusyInv, OldInv, NEW q \in Requests, RevokeAll(q), Withdrawn
  PROVE  OldInv'
<1>1. /\ Others(q) /\ UNCHANGED <<overlaps, deaths, accounts>> /\ req'[q].at = "idle"
      /\ At(q, "revokeAll")
      /\ \A i \in DOMAIN tokens : tokens[i].owner = req[q].s => ~tokens'[i].live
  BY RevokeAllMoves DEF Revokes, Idle, TypeInv, RowsTyped
<1>2. ASSUME NEW s \in Admins, Covered(s)
      PROVE  \/ Covered(s)'
             \/ \A i \in DOMAIN tokens : tokens[i].owner = s => ~tokens'[i].live
  <2>1. PICK p \in Requests : Covers(p, s)
    BY <1>2 DEF Covered
  <2>2. CASE p # q
    <3>1. Covers(p, s)'
      BY <1>1, <2>1, <2>2 DEF Covers, Others, At
    <3>2. QED
      BY <3>1 DEF Covered
  <2>3. CASE p = q
    BY <1>1, <2>1, <2>3 DEF Covers
  <2>4. QED
    BY <2>2, <2>3
<1>3. ASSUME NEW s \in Admins, NEW p, Outdated(s, p)'
      PROVE  Outdated(s, p)
  BY <1>1, <1>3 DEF Outdated, Others, Saving
<1>4. Stale' \subseteq Stale
  BY <1>2, <1>3, StaleWithin
<1>5. \A p \in Requests :
        \/ req'[p] = req[p]
        \/ /\ Saving(req'[p]) => Saving(req[p])
           /\ Issuing(p)' => Issuing(p) /\ Owner(p)' = Owner(p) /\ Secret(p)' = Secret(p)
           /\ At(p, "retire") => ~tokens'[req[p].i].live
  BY <1>1 DEF Others, Saving, Issuing, At
<1>6. QED
  BY <1>1, <1>4, <1>5, OldCalm

LEMMA OldSave ==
  ASSUME TypeInv, BusyInv, OldInv, NoRowAssumption, AccountsAssumption, NEW q \in Requests,
         SelectAccount(q) \/ UpdateAccount(q)
  PROVE  OldInv'
<1> DEFINE t == req[q].s
<1>1. /\ Others(q) /\ UNCHANGED <<overlaps, deaths, tokens>> /\ Saving(req[q])
      /\ \A s \in Subject : s # t => accounts'[s] = accounts[s]
      /\ accounts'[t].password \in {accounts[t].password, req[q].mem.password}
      /\ \/ /\ Saving(req'[q]) /\ req'[q].s = t /\ UNCHANGED accounts
            /\ req'[q].mem = req[q].mem /\ req'[q].op = req[q].op
         \/ /\ req'[q].at \in {"idle", "revokeAll"}
            /\ req'[q].at = "revokeAll" => req'[q].s = t
            /\ req[q].op = "password" \/ (req[q].op = "remove" /\ t # User) =>
                 req'[q].at = "revokeAll"
  BY SaveMoves
<1>2. Withdrawn
  BY <1>1 DEF Withdrawn
<1>3. Admins \subseteq Subject /\ User \notin Admins
  BY AccountsAssumption DEF Subject, AccountsAssumption
<1>4. ASSUME NEW s \in Admins, Covered(s) PROVE Covered(s)'
  <2>1. PICK p \in Requests : Covers(p, s)
    BY <1>4 DEF Covered
  <2>2. CASE p # q
    <3>1. Covers(p, s)'
      BY <1>1, <2>1, <2>2 DEF Covers, Others, At
    <3>2. QED
      BY <3>1 DEF Covered
  <2>3. CASE p = q
    <3>1. t = s /\ req[q].op \in {"password", "remove"} /\ t # User
      BY <1>1, <1>3, <2>1, <2>3 DEF Covers, Saving, At
    <3>2. Covers(q, s)'
      BY <1>1, <3>1 DEF Covers, At
    <3>3. QED
      BY <3>2 DEF Covered
  <2>4. QED
    BY <2>2, <2>3
<1>5. ASSUME NEW s \in Admins, NEW p, Outdated(s, p)'
      PROVE  Outdated(s, p)
  <2>1. CASE p # accounts'[s].password
    <3>1. accounts'[s].password = accounts[s].password
          \/ (t = s /\ accounts'[s].password = req[q].mem.password)
      BY <1>1, <1>3
    <3>2. QED
      BY <1>1, <2>1, <3>1 DEF Outdated
  <2>2. CASE \E o \in Requests : Saving(req'[o]) /\ req'[o].s = s /\ req'[o].mem.password # p
    <3>1. PICK o \in Requests : Saving(req'[o]) /\ req'[o].s = s /\ req'[o].mem.password # p
      BY <2>2
    <3>2. Saving(req[o]) /\ req[o].s = s /\ req[o].mem.password # p
      BY <1>1, <3>1 DEF Others, Saving
    <3>3. QED
      BY <3>2 DEF Outdated
  <2>3. QED
    BY <1>5, <2>1, <2>2 DEF Outdated
<1>6. Stale' \subseteq Stale
  BY <1>2, <1>4, <1>5, StaleWithin
<1>7. \A p \in Requests :
        \/ req'[p] = req[p]
        \/ /\ Saving(req'[p]) => Saving(req[p])
           /\ Issuing(p)' => Issuing(p) /\ Owner(p)' = Owner(p) /\ Secret(p)' = Secret(p)
           /\ At(p, "retire") => ~tokens'[req[p].i].live
  BY <1>1 DEF Others, Saving, Issuing, At
<1>8. QED
  BY <1>1, <1>2, <1>6, <1>7, OldCalm

LEMMA OldStart ==
  ASSUME TypeInv, BusyInv, OldInv, NEW q \in Requests, Started(q)
  PROVE  OldInv'
<1>1. PICK r : Start(q, r) /\ Opens(q, r)
  BY DEF Started
<1>2. /\ req'[q] = r /\ Others(q) /\ req[q].at = "idle" /\ UNCHANGED <<tokens, accounts, deaths>>
      /\ overlaps' \in Nat /\ overlaps' >= overlaps /\ (Quiet \/ overlaps' = overlaps + 1)
  <2>1. ServerTyped(Step)
    BY DEF TypeInv
  <2>2. QED
    BY <1>1, <2>1, StartBusy, RequestMoves DEF Started, Start, InFlight
<1>3. Withdrawn
  BY <1>2 DEF Withdrawn
<1>4. ASSUME NEW s, Covered(s) PROVE Covered(s)'
  <2>1. PICK p \in Requests : Covers(p, s)
    BY <1>4 DEF Covered
  <2>2. p # q
    BY <1>2, <2>1 DEF Covers, At, Saving
  <2>3. Covers(p, s)'
    BY <1>2, <2>1, <2>2 DEF Covers, Others, At
  <2>4. QED
    BY <2>3 DEF Covered
<1>5. ASSUME NEW s \in Admins, NEW p, Outdated(s, p)'
      PROVE  Outdated(s, p) \/ Covered(s)'
  <2>1. CASE p # accounts'[s].password
    BY <1>2, <2>1 DEF Outdated
  <2>2. CASE Saving(r) /\ r.s = s /\ r.mem.password # p
    <3>1. r.op = "password" \/ r.mem.password = accounts[s].password
      BY <1>1, <2>2 DEF Opens, Saving
    <3>2. CASE r.op = "password"
      <4>1. Covers(q, s)'
        BY <1>2, <2>2, <3>2 DEF Covers
      <4>2. QED
        BY <4>1 DEF Covered
    <3>3. CASE r.mem.password = accounts[s].password
      BY <2>2, <3>3 DEF Outdated
    <3>4. QED
      BY <3>1, <3>2, <3>3
  <2>3. CASE \E o \in Requests \ {q} : /\ Saving(req'[o]) /\ req'[o].s = s
                                       /\ req'[o].mem.password # p
    BY <1>2, <2>3 DEF Outdated, Others
  <2>4. QED
    BY <1>2, <1>5, <2>1, <2>2, <2>3 DEF Outdated
<1>6. Stale' \subseteq Stale
  BY <1>3, <1>4, <1>5, StaleWithin
<1>7. ASSUME NEW p \in Requests, p # q
      PROVE  /\ (Issuing(p)' <=> Issuing(p)) /\ (Saving(req'[p]) <=> Saving(req[p]))
             /\ Owner(p)' = Owner(p) /\ Secret(p)' = Secret(p) /\ (Current(p)' <=> Current(p))
  <2>1. req'[p] = req[p]
    BY <1>2, <1>7 DEF Others
  <2>2. Owner(p)' = Owner(p) /\ Secret(p)' = Secret(p) /\ (Issuing(p)' <=> Issuing(p))
    BY <1>2, <2>1 DEF Owner, Secret, Issuing, At
  <2>3. Current(p)' <=> Current(p)
    BY <1>2, <2>2 DEF Current
  <2>4. QED
    BY <2>1, <2>2, <2>3
<1>8. ~Issuing(q) /\ ~Saving(req[q]) /\ ~Current(q) /\ ~At(q, "retire")
  BY <1>2 DEF Issuing, Saving, Current, At
<1>9. Quiet => ~Slack
  BY DEF Quiet, InFlight, Slack, Current, Issuing, At
<1>10. CASE ~Issuing(q)'
  <2>1. Issuers' \subseteq Issuers
    BY <1>7, <1>10 DEF Issuers
  <2>2. QED
    BY <1>2, <1>6, <1>9, <2>1, OldStep
<1>11. CASE Issuing(q)'
  <2>1. r.at \in {"retire", "build"} /\ r.at # "revokeAll" /\ ~Saving(r)
    BY <1>1, <1>2, <1>11 DEF Issuing, Opens, Saving
  <2>2. Issuers' \subseteq Issuers \cup {q}
    BY <1>7 DEF Issuers
  <2>3. ASSUME NEW s, Covered(s)' PROVE Covered(s)
    <3>1. PICK p \in Requests : Covers(p, s)'
      BY <2>3 DEF Covered
    <3>2. p # q
      BY <1>2, <2>1, <3>1 DEF Covers, At
    <3>3. Covers(p, s)
      BY <1>2, <3>1, <3>2 DEF Covers, Others, At
    <3>4. QED
      BY <3>3 DEF Covered
  <2>4. ASSUME NEW s, NEW p, Outdated(s, p) PROVE Outdated(s, p)'
    BY <1>2, <1>8, <2>4 DEF Outdated, Others
  <2>5. Stale \subseteq Stale'
    <3> SUFFICES ASSUME NEW i \in Stale PROVE i \in Stale'
      OBVIOUS
    <3>1. i \in DOMAIN tokens /\ tokens[i].live /\ tokens[i].owner # User
          /\ ~Covered(tokens[i].owner) /\ Outdated(tokens[i].owner, tokens[i].password)
      BY DEF Stale, Live
    <3>2. PICK s, p : s = tokens[i].owner /\ p = tokens[i].password
      OBVIOUS
    <3>3. ~Covered(s)' /\ Outdated(s, p)'
      BY <2>3, <2>4, <3>1, <3>2
    <3>4. ~Covered(tokens[i].owner)' /\ Outdated(tokens[i].owner, tokens[i].password)'
      BY <1>2, <3>2, <3>3 DEF Covered, Covers, Outdated
    <3>5. QED
      BY <1>2, <3>1, <3>4 DEF Stale, Live
  <2>6. CASE overlaps' = overlaps + 1
    <3>1. ASSUME \A p \in Requests : ~Saving(req[p]), NEW p \in Requests, Current(p)
          PROVE  Slack'
      <4>1. \A o \in Requests : ~Saving(req'[o])
        BY <1>2, <1>7, <2>1, <3>1
      <4>2. Current(p)'
        BY <1>7, <1>8, <3>1
      <4>3. QED
        BY <4>1, <4>2 DEF Slack
    <3>2. ASSUME NEW p \in Requests, At(p, "retire"), req[p].i \in Stale
          PROVE  Slack'
      <4>1. At(p, "retire")' /\ req'[p].i \in Stale'
        BY <1>2, <1>8, <2>5, <3>2 DEF Others, At
      <4>2. QED
        BY <4>1 DEF Slack
    <3>3. Slack => Slack'
      BY <3>1, <3>2 DEF Slack
    <3>4. QED
      BY <1>2, <1>6, <2>2, <2>6, <3>3, OldStep
  <2>7. CASE Quiet
    <3>1. \A o \in Requests : ~Saving(req'[o])
      BY <1>2, <1>7, <2>1, <2>7 DEF Quiet, InFlight, Saving
    <3>2. ASSUME Current(q)' PROVE Slack'
      BY <3>1, <3>2 DEF Slack, Saving
    <3>3. ASSUME ~Current(q)' PROVE Slack'
      <4>1. r.at = "retire" /\ r.i \in Live
        <5>1. CASE r.at = "build"
          <6>1. r.password = accounts[r.s].password
            BY <1>1, <5>1 DEF Opens
          <6>2. Current(q)'
            BY <1>2, <1>11, <5>1, <6>1 DEF Current, Owner, Secret, At
          <6>3. QED
            BY <3>3, <6>2
        <5>2. CASE r.at = "retire"
          BY <1>1, <5>2 DEF Opens
        <5>3. QED
          BY <2>1, <5>1, <5>2
      <4>2. /\ tokens[r.i].owner # User
            /\ tokens[r.i].password # accounts[tokens[r.i].owner].password
        BY <1>2, <1>11, <3>3, <4>1 DEF Current, Issuing, Owner, Secret, At
      <4>3. \A s : ~Covered(s)
        BY <2>7 DEF Covered, Covers, Quiet, InFlight, At, Saving
      <4>4. r.i \in Stale
        BY <4>1, <4>2, <4>3 DEF Stale, Outdated
      <4>5. At(q, "retire")' /\ req'[q].i \in Stale'
        BY <1>2, <2>5, <4>1, <4>4 DEF At
      <4>6. QED
        BY <4>5 DEF Slack, At
    <3>4. Slack'
      BY <3>2, <3>3
    <3>5. QED
      BY <1>2, <1>6, <1>9, <2>2, <2>7, <3>4, OldStep
  <2>8. QED
    BY <1>2, <2>6, <2>7
<1>12. QED
  BY <1>10, <1>11

LEMMA OldIssue ==
  ASSUME TypeInv, BusyInv, OldInv, NEW q \in Requests, IssueSession(q)
  PROVE  OldInv'
<1> DEFINE row == [owner |-> req[q].s, password |-> req[q].password, live |-> TRUE]
           new == Len(tokens) + 1
<1>1. /\ Others(q) /\ UNCHANGED <<overlaps, deaths, accounts>> /\ req'[q].at = "idle"
      /\ At(q, "issue") /\ tokens' = Append(tokens, row)
  BY IssueMoves DEF Idle
<1>2. row.owner = req[q].s /\ row.password = req[q].password
  OBVIOUS
<1>3. tokens \in Seq(Token) /\ DOMAIN tokens = 1..Len(tokens) /\ Len(tokens) \in Nat
  BY DEF TypeInv, RowsTyped
<1> HIDE DEF row
<1>4. /\ DOMAIN tokens' = 1..new /\ tokens'[new] = row
      /\ \A i \in 1..Len(tokens) : tokens'[i] = tokens[i]
  BY <1>1, <1>3
<1>5. 1..new = 1..Len(tokens) \cup {new} /\ new \notin 1..Len(tokens)
  BY <1>3
<1> HIDE DEF new
<1>6. DOMAIN tokens' = DOMAIN tokens \cup {new} /\ tokens'[new] = row /\ new \notin DOMAIN tokens
      /\ \A i \in DOMAIN tokens : tokens'[i] = tokens[i]
  BY <1>3, <1>4, <1>5
<1>7. \A s : Covered(s)' <=> Covered(s)
  <2>1. \A p \in Requests : \A s : Covers(p, s)' <=> Covers(p, s)
    BY <1>1 DEF Covers, Others, At, Saving
  <2>2. QED
    BY <2>1 DEF Covered
<1>8. \A s, p : Outdated(s, p)' <=> Outdated(s, p)
  BY <1>1 DEF Outdated, Others, Saving, At
<1>9. ASSUME NEW i \in DOMAIN tokens
      PROVE  i \in Stale' <=> i \in Stale
  <2>1. PICK s, p : s = tokens[i].owner /\ p = tokens[i].password
    OBVIOUS
  <2>2. tokens'[i] = tokens[i]
    BY <1>6
  <2>3. /\ Covered(tokens[i].owner)' <=> Covered(s)'
        /\ Outdated(tokens[i].owner, tokens[i].password)' <=> Outdated(s, p)'
    BY <2>1, <2>2 DEF Covered, Covers, Outdated
  <2>4. /\ Covered(tokens[i].owner)' <=> Covered(tokens[i].owner)
        /\ Outdated(tokens[i].owner, tokens[i].password)'
             <=> Outdated(tokens[i].owner, tokens[i].password)
    BY <1>7, <1>8, <2>1, <2>3
  <2>5. QED
    BY <1>6, <2>2, <2>4 DEF Stale, Live
<1>10. Stale \subseteq DOMAIN tokens /\ Stale' \subseteq DOMAIN tokens \cup {new}
  BY <1>6 DEF Stale, Live
<1>11. Stale \subseteq Stale' /\ Stale' \subseteq Stale \cup {new}
  BY <1>9, <1>10
<1>12. new \in Stale' => req[q].s # User /\ Outdated(req[q].s, req[q].password)
  <2> SUFFICES ASSUME new \in Stale' PROVE req[q].s # User /\ Outdated(req[q].s, req[q].password)
    OBVIOUS
  <2>1. PICK s, p : s = req[q].s /\ p = req[q].password
    OBVIOUS
  <2>2. tokens'[new].owner = s /\ tokens'[new].password = p
    BY <1>2, <1>6, <2>1
  <2>3. PICK i : i = new
    OBVIOUS
  <2>4. tokens'[i].owner = s /\ tokens'[i].password = p /\ i \in Stale'
    BY <2>2, <2>3
  <2>5. s # User /\ Outdated(s, p)'
    BY <2>4 DEF Stale, Outdated
  <2>6. QED
    BY <1>8, <2>1, <2>5
<1>13. ASSUME NEW p \in Requests, p # q
       PROVE  /\ Issuing(p)' <=> Issuing(p)
              /\ Saving(req'[p]) <=> Saving(req[p])
              /\ Current(p)' <=> Current(p)
  <2>1. req'[p] = req[p]
    BY <1>1, <1>13 DEF Others
  <2>2. At(p, "retire") => tokens'[req[p].i] = tokens[req[p].i]
    BY <1>6, OwnerKnown
  <2>3. Owner(p)' = Owner(p) /\ Secret(p)' = Secret(p) /\ (Issuing(p)' <=> Issuing(p))
    BY <2>1, <2>2 DEF Owner, Secret, Issuing, At
  <2>4. Current(p)' <=> Current(p)
    BY <1>1, <2>3 DEF Current
  <2>5. QED
    BY <2>1, <2>3, <2>4
<1>14. ~Issuing(q)' /\ ~Saving(req'[q]) /\ (Issuing(q) <=> req[q].s # User)
       /\ Owner(q) = req[q].s /\ Secret(q) = req[q].password /\ ~At(q, "retire")
  BY <1>1 DEF Issuing, Saving, Owner, Secret, At
<1>15. Issuers' \subseteq Issuers /\ q \notin Issuers'
  BY <1>13, <1>14 DEF Issuers
<1>16. ASSUME Slack, ~(new \notin Stale' /\ q \in Issuers)
       PROVE  Slack'
  <2>1. ASSUME \A p \in Requests : ~Saving(req[p]), NEW p \in Requests, Current(p)
        PROVE  Slack'
    <3>1. \A o \in Requests : ~Saving(req'[o])
      BY <1>13, <1>14, <2>1
    <3>2. p # q
      <4>1. Current(q) => q \in Issuers /\ req[q].password = accounts[req[q].s].password
        BY <1>14 DEF Current, Issuers
      <4>2. req[q].password = accounts[req[q].s].password =>
              ~Outdated(req[q].s, req[q].password)
        BY <2>1 DEF Outdated
      <4>3. QED
        BY <1>12, <1>16, <2>1, <4>1, <4>2
    <3>3. Current(p)'
      BY <1>13, <2>1, <3>2
    <3>4. QED
      BY <3>1, <3>3 DEF Slack, Saving
  <2>2. ASSUME NEW p \in Requests, At(p, "retire"), req[p].i \in Stale
        PROVE  Slack'
    <3>1. At(p, "retire")' /\ req'[p].i \in Stale'
      BY <1>1, <1>11, <1>14, <2>2 DEF Others, At
    <3>2. QED
      BY <3>1 DEF Slack, At
  <2>3. QED
    BY <1>16, <2>1, <2>2 DEF Slack
<1>17. overlaps' \in Nat /\ overlaps' >= overlaps
  BY <1>1, StaleFinite
<1>18. CASE new \notin Stale'
  <2>1. Stale' \subseteq Stale
    BY <1>11, <1>18
  <2>2. Slack => Slack' \/ Issuers' # Issuers
    BY <1>15, <1>16
  <2>3. QED
    BY <1>1, <1>15, <1>17, <2>1, <2>2, OldStep
<1>19. CASE new \in Stale'
  <2>1. q \in Issuers
    BY <1>12, <1>14, <1>19 DEF Issuers
  <2>2. Issuers' \subseteq Issuers \ {q}
    BY <1>15
  <2>3. Slack => Slack'
    BY <1>16, <1>19
  <2>4. QED
    BY <1>1, <1>11, <1>17, <2>1, <2>2, <2>3, OldStep
<1>20. QED
  BY <1>18, <1>19

\* Tokens that are revoked are withdrawn, and so are tokens left alone.
LEMMA RevokedWithdrawn ==
  ASSUME TypeInv, Revokes, DOMAIN tokens' = DOMAIN tokens
  PROVE  Withdrawn
BY DEF Revokes, Withdrawn, TypeInv, RowsTyped

LEMMA OldKept ==
  ASSUME TypeInv, BusyInv, OldInv, AccountsAssumption, NoRowAssumption, [Next]_vars
  PROVE  OldInv'
<1>1. ASSUME NEW q \in Requests,
             \/ SelectCode(q) \/ UpdateCode(q) \/ InsertCode(q)
             \/ FindUser(q) \/ InsertUser(q) \/ FindProfile(q) \/ InsertProfile(q)
      PROVE  OldInv'
  <2>1. /\ Others(q) /\ UNCHANGED <<overlaps, deaths, tokens>>
        /\ \A s \in Admins : accounts'[s] = accounts[s]
        /\ req[q].at \notin {"retire", "revokeAll"} /\ ~Saving(req[q])
        /\ req'[q].at \notin {"retire", "issue"} /\ ~Saving(req'[q])
        /\ req'[q].at = "build" => req'[q].s = User
    BY <1>1, NoSaveMoves
  <2>2. Withdrawn /\ ~Issuing(q)' /\ ~At(q, "retire")
    BY <2>1 DEF Withdrawn, Issuing, Owner, At
  <2>3. QED
    BY <2>1, <2>2, OldAside
<1>2. ASSUME NEW q \in Requests, Build(q)
      PROVE  OldInv'
  <2>1. /\ Others(q) /\ UNCHANGED <<overlaps, deaths>> /\ At(q, "build")
        /\ UNCHANGED <<tokens, accounts>>
        /\ \/ req'[q].at = "idle"
           \/ /\ req'[q].at = "issue" /\ req'[q].s = req[q].s
              /\ req'[q].password = req[q].password
    BY <1>2, BuildMoves DEF data, Idle
  <2>2. /\ Withdrawn /\ ~At(q, "retire") /\ ~Saving(req[q]) /\ ~Saving(req'[q])
        /\ Issuing(q)' => Issuing(q) /\ Owner(q)' = Owner(q) /\ Secret(q)' = Secret(q)
    BY <2>1 DEF Withdrawn, Issuing, Owner, Secret, At, Saving
  <2>3. req[q].at # "revokeAll"
    BY <2>1 DEF At
  <2>4. QED
    BY <2>1, <2>2, <2>3, OldAside
<1>3. ASSUME NEW q \in Requests, Retire(q)
      PROVE  OldInv'
  <2>1. /\ Others(q) /\ UNCHANGED <<overlaps, deaths, logins, accounts>>
        /\ At(q, "retire") /\ req[q].i \in 1..Len(tokens)
        /\ req'[q] = Session(tokens[req[q].i].owner, tokens[req[q].i].password, FALSE)
        /\ tokens' = [tokens EXCEPT ![req[q].i].live = FALSE]
    BY <1>3, RetireMoves
  <2>2. Revokes /\ ~tokens'[req[q].i].live /\ DOMAIN tokens' = DOMAIN tokens
    BY <2>1, OneRevoked
  <2>3. Withdrawn
    BY <2>2, RevokedWithdrawn
  <2>4. /\ req'[q].at = "build" /\ req'[q].s = tokens[req[q].i].owner
        /\ req'[q].password = tokens[req[q].i].password
    BY <2>1 DEF Session
  <2>5. /\ ~Saving(req[q]) /\ ~Saving(req'[q]) /\ req[q].at # "revokeAll"
        /\ Issuing(q)' => Issuing(q) /\ Owner(q)' = Owner(q) /\ Secret(q)' = Secret(q)
    BY <2>1, <2>4 DEF Issuing, Owner, Secret, At, Saving
  <2>6. QED
    BY <2>1, <2>2, <2>3, <2>5, OldAside
<1>4. ASSUME NEW q \in Requests, Revoke(q)
      PROVE  OldInv'
  <2>1. /\ Others(q) /\ UNCHANGED <<overlaps, deaths>> /\ At(q, "revoke")
        /\ req'[q].at = "idle" /\ Revokes
    BY <1>4, RevokeMoves DEF Idle
  <2>2. DOMAIN tokens' = DOMAIN tokens
    BY <1>4 DEF Revoke
  <2>3. Withdrawn /\ UNCHANGED accounts
    BY <2>1, <2>2, RevokedWithdrawn DEF Revokes
  <2>4. /\ ~Saving(req[q]) /\ ~Saving(req'[q]) /\ req[q].at # "revokeAll"
        /\ ~Issuing(q)' /\ ~At(q, "retire")
    BY <2>1 DEF Issuing, At, Saving
  <2>5. QED
    BY <2>1, <2>3, <2>4, OldAside
<1>5. ASSUME NEW q \in Requests, RevokeAll(q)
      PROVE  OldInv'
  <2>1. Revokes
    BY <1>5, RevokeAllMoves
  <2>2. DOMAIN tokens' = DOMAIN tokens
    BY <1>5 DEF RevokeAll
  <2>3. Withdrawn
    BY <2>1, <2>2, RevokedWithdrawn
  <2>4. QED
    BY <1>5, <2>3, OldRevokeAll
<1>6. ASSUME NEW q \in Requests, Crash(q)
      PROVE  OldInv'
  <2>1. deaths' = deaths + 1 /\ deaths \in Nat
    BY <1>6, CrashMoves DEF TypeInv, ServerTyped
  <2>2. deaths' # 0
    BY <2>1
  <2>3. QED
    BY <2>2 DEF OldInv
<1>7. ASSUME NEW i \in DOMAIN tokens, Expire(i)
      PROVE  OldInv'
  <2>1. /\ i \in 1..Len(tokens) /\ tokens' = [tokens EXCEPT ![i].live = FALSE]
        /\ UNCHANGED <<logins, accounts, req, overlaps, deaths>>
    BY <1>7 DEF Expire, server, TypeInv, RowsTyped
  <2>2. Revokes /\ DOMAIN tokens' = DOMAIN tokens
    BY <2>1, OneRevoked
  <2>3. QED
    BY <2>1, <2>2, RevokedWithdrawn, OldIdle
<1>8. ASSUME UNCHANGED vars \/ \E i \in DOMAIN codes : Age(i)
      PROVE  OldInv'
  <2>1. UNCHANGED <<tokens, accounts, req, overlaps, deaths>>
    BY <1>8 DEF vars, data, server, Age
  <2>2. Withdrawn
    BY <2>1 DEF Withdrawn
  <2>3. QED
    BY <2>1, <2>2, OldIdle
<1>9. ASSUME NEW q \in Requests, Statement(q)
      PROVE  OldInv'
  BY <1>1, <1>2, <1>3, <1>4, <1>5, <1>9, OldIssue, OldSave DEF Statement
<1>10. QED
  BY <1>6, <1>7, <1>8, <1>9, OldStart, RoutesOpen DEF Next

LEMMA OldInit == AccountsAssumption /\ Init => PlainUser /\ OldInv
<1> SUFFICES ASSUME AccountsAssumption, Init PROVE PlainUser /\ OldInv
  OBVIOUS
<1>1. /\ overlaps = 0 /\ tokens = <<>> /\ (\A q \in Requests : req[q].at = "idle")
      /\ accounts[User] = NoRow
  BY DEF Init, ServerInit, Idle, Subject, AccountsAssumption
<1>2. PlainUser
  BY <1>1 DEF PlainUser, Exists, Saving
<1>3. Stale = {} /\ Issuers = {}
  BY <1>1 DEF Stale, Live, Issuers, Issuing
<1>4. Cardinality(Stale) = 0 /\ Cardinality(Issuers) = 0
  BY <1>3, FS_EmptySet
<1>5. Room \in {0, 1}
  BY DEF Room
<1>6. OldInv
  BY <1>1, <1>4, <1>5 DEF OldInv
<1>7. QED
  BY <1>2, <1>6

\* "Every refresh token is dropped": with nothing in flight and no request
\* lost half way, at most one session for every overlap was opened with
\* another password than its admin has now.
THEOREM OldPasswordAlwaysDropped == Spec => []OldPasswordDropped
<1> DEFINE Inv == TypeInv /\ BusyInv /\ PlainUser /\ OldInv
<1>1. Init => Inv
  BY AccountsAssumption, InitInv, BusyStarts, OldInit
<1>2. Inv /\ [Next]_vars => Inv'
  BY AccountsAssumption, NoRowAssumption, NextInv, BusyKept, PlainKept, OldKept
<1>3. Inv => OldPasswordDropped
  <2> DEFINE Other == {i \in Live : LET t == tokens[i] IN
                         Exists(t.owner) /\ t.password # accounts[t.owner].password}
  <2> SUFFICES ASSUME Inv, Quiet, deaths = 0 PROVE Cardinality(Other) <= overlaps
    BY DEF OldPasswordDropped
  <2>1. \A q \in Requests : req[q].at = "idle"
    BY DEF Quiet, InFlight
  <2>2. /\ IsFiniteSet(Stale) /\ IsFiniteSet(Issuers) /\ overlaps \in Nat
    BY StaleFinite
  <2>3. Issuers = {} /\ ~Slack /\ \A s : ~Covered(s)
    BY <2>1 DEF Issuers, Issuing, Slack, Current, Covered, Covers, At, Saving
  <2>4. Cardinality(Issuers) = 0 /\ Room = 0
    BY <2>3, FS_EmptySet DEF Room
  <2>5. Cardinality(Stale) <= overlaps
    BY <2>2, <2>4, FS_CardinalityType DEF OldInv
  <2>6. Other \in SUBSET Stale
    <3> SUFFICES ASSUME NEW i \in Other PROVE i \in Stale
      OBVIOUS
    <3>1. /\ i \in Live /\ Exists(tokens[i].owner)
          /\ tokens[i].password # accounts[tokens[i].owner].password
      OBVIOUS
    <3>2. tokens[i].owner # User
      BY <3>1 DEF PlainUser, Live
    <3>3. QED
      BY <2>3, <3>1, <3>2 DEF Stale, Outdated
  <2> HIDE DEF Other
  <2>7. Cardinality(Other) <= Cardinality(Stale) /\ Cardinality(Other) \in Nat
        /\ Cardinality(Stale) \in Nat
    BY <2>2, <2>6, Fewer
  <2>8. QED
    BY <2>2, <2>5, <2>7
<1> HIDE DEF Inv
<1>4. QED
  BY <1>1, <1>2, <1>3, PTL DEF Spec
=============================================================================
