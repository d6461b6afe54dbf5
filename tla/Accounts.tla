------------------------------ MODULE Accounts ------------------------------
(***************************************************************************)
(* Who may log in, and for how long.  Users of the apps log in with a code *)
(* sent to their mobile, admins with a password; both then hold refresh    *)
(* tokens, which are rotated, revoked by logging out, and revoked together *)
(* when a password changes or an admin is deactivated.                     *)
(*                                                                         *)
(* No row of a user's account is shared with an admin's, so a behaviour is *)
(* about one of the two.  Every save is TypeORM's: SELECT and compare the  *)
(* entity loaded earlier, then UPDATE of the columns that differ.          *)
(***************************************************************************)
EXTENDS Server, Sequences, FiniteSets

CONSTANTS
  Admins,       \* the admins
  User,         \* the user with the mobile number the codes are sent to
  Passwords,    \* passwords an admin may have
  Unused,       \* users have no password
  MaxAttempts,  \* OTP_MAX_ATTEMPTS
  MaxCodes,     \* bound: codes sent
  MaxTokens,    \* bound: refresh tokens issued
  NoRow

ASSUME AccountsAssumption ==
  /\ IsFiniteSet(Admins) /\ Admins # {} /\ User \notin Admins
  /\ Unused \notin Passwords
  /\ MaxAttempts \in Nat /\ MaxCodes \in Nat /\ MaxTokens \in Nat

Subject == Admins \cup {User}
Account == [active: BOOLEAN, password: Passwords \cup {Unused}]
Code    == [age: {"fresh", "live", "expired"}, attempts: Nat, verified: BOOLEAN]
Token   == [owner: Subject, password: Passwords \cup {Unused}, live: BOOLEAN]

ASSUME NoRowAssumption == NoRow \notin Account

VARIABLES
  app,       \* whose accounts the behaviour is about
  accounts,  \* admins, or users
  profile,   \* is there a customers (or agents) row for the user?
  codes,     \* otp_verifications, oldest first
  tokens,    \* refresh_tokens; password is the one its login was made with
  guesses,   \* how often each code has been compared with a guess
  logins     \* how many sessions were opened with a code or a password

data == <<app, accounts, profile, codes, tokens, guesses, logins>>
vars == <<server, data>>

\* A request's step and memory.
Step ==
  {Idle}
    \cup [at: {"selectCode", "updateCode"}, i: Nat \ {0}, mem: Code,
          dirty: SUBSET DOMAIN [age |-> 0, attempts |-> 0, verified |-> 0],
          op: {"expire", "wrong", "right"}]
    \cup [at: {"insertCode", "findUser", "insertUser", "findProfile",
               "insertProfile"}]
    \cup [at: {"build", "issue"}, s: Subject, password: Passwords \cup {Unused},
          login: BOOLEAN]
    \cup [at: {"retire", "revoke"}, i: Nat \ {0}]
    \cup [at: {"revokeAll"}, s: Subject]
    \cup [at: {"selectAccount", "updateAccount"}, s: Subject, mem: Account,
          dirty: SUBSET {"active", "password"},
          op: {"edit", "password", "restore", "remove"}]

TypeOK ==
  /\ app \in {"user", "admin"}
  /\ accounts \in [Subject -> Account \cup {NoRow}]
  /\ profile \in BOOLEAN
  /\ codes \in Seq(Code) /\ Len(codes) <= MaxCodes
  /\ tokens \in Seq(Token)
  /\ guesses \in Seq(Nat) /\ Len(guesses) = Len(codes)
  /\ logins \in Nat
  /\ req \in [Requests -> Step] /\ overlaps \in Nat /\ deaths \in Nat

\* No user yet and nobody logged in; every admin is active.
Init ==
  /\ ServerInit
  /\ app \in {"user", "admin"}
  /\ \E password \in [Admins -> Passwords] :
       accounts = [s \in Subject |->
         IF s \in Admins /\ app = "admin"
         THEN [active |-> TRUE, password |-> password[s]] ELSE NoRow]
  /\ profile = FALSE
  /\ codes = <<>> /\ tokens = <<>> /\ guesses = <<>>
  /\ logins = 0

Exists(s) == accounts[s] # NoRow
Active(s) == Exists(s) /\ accounts[s].active
Live      == {i \in DOMAIN tokens : tokens[i].live}

\* JwtAuthGuard: an access token, which outlives its refresh token, and an
\* account that is not blocked or deactivated.
Acting(s) == Active(s) /\ \E i \in DOMAIN tokens : tokens[i].owner = s

Overwrite(row, mem, cols) ==
  [c \in DOMAIN row |-> IF c \in cols THEN mem[c] ELSE row[c]]
Differing(row, mem) == {c \in DOMAIN row : row[c] # mem[c]}

-----------------------------------------------------------------------------
(* Codes.                                                                  *)

Unverified == {i \in DOMAIN codes : ~codes[i].verified}
Valid      == {i \in Unverified : codes[i].age # "expired"}
Newest(S)  == {i \in S : \A j \in S : j <= i}

\* Mutant: a new code leaves the previous one valid.
SendAnother(q) ==
  /\ app = "user" /\ Len(codes) < MaxCodes
  /\ \A i \in Newest(Valid) : codes[i].age = "live"
  /\ Start(q, [at |-> "insertCode"])
  /\ UNCHANGED data

\* send: not within the resend interval of the newest valid code, which
\* expires; a resend, only when there is one.
SendOtp(q) ==
  /\ app = "user" /\ Len(codes) < MaxCodes
  /\ \/ /\ Valid = {}
        /\ Start(q, [at |-> "insertCode"])
     \/ \E i \in Newest(Valid) :
          /\ codes[i].age = "live"
          /\ Start(q, [at |-> "selectCode", i |-> i, dirty |-> {}, op |-> "expire",
                       mem |-> [codes[i] EXCEPT !.age = "expired"]])
  /\ UNCHANGED data

InsertCode(q) ==
  /\ At(q, "insertCode")
  /\ Len(codes) < MaxCodes
  /\ codes' = Append(codes, [age |-> "fresh", attempts |-> 0, verified |-> FALSE])
  /\ guesses' = Append(guesses, 0)
  /\ Answer(q)
  /\ UNCHANGED <<app, accounts, profile, tokens, logins>>

\* The resend interval passes, then the code's time to live.
Age(i) ==
  /\ codes[i].age # "expired"
  /\ codes' = [codes EXCEPT ![i].age = IF @ = "fresh" THEN "live" ELSE "expired"]
  /\ UNCHANGED <<server, app, accounts, profile, tokens, guesses, logins>>

\* verify: the newest unverified code, if it is valid and has an attempt left.
VerifyOtp(q) ==
  /\ app = "user" /\ Len(tokens) < MaxTokens
  /\ \E i \in Newest(Unverified), op \in {"right", "wrong"} :
       /\ codes[i].age # "expired"
       /\ codes[i].attempts < MaxAttempts
       /\ Start(q, [at |-> "selectCode", i |-> i, dirty |-> {}, op |-> op,
                    mem |-> [codes[i] EXCEPT !.attempts = @ + 1,
                                             !.verified = op = "right"]])
       /\ guesses' = [guesses EXCEPT ![i] = @ + 1]
  /\ UNCHANGED <<app, accounts, profile, codes, tokens, logins>>

\* After the save, send inserts the new code, and verify throws or goes on.
CodeSaved(q) ==
  CASE req[q].op = "expire" -> Go(q, [at |-> "insertCode"])
    [] req[q].op = "wrong"  -> Answer(q)
    [] req[q].op = "right"  -> Go(q, [at |-> "findUser"])

SelectCode(q) ==
  /\ At(q, "selectCode")
  /\ LET diff == Differing(codes[req[q].i], req[q].mem)
     IN  IF diff = {} THEN CodeSaved(q)
         ELSE Go(q, [req[q] EXCEPT !.at = "updateCode", !.dirty = diff])
  /\ UNCHANGED data

UpdateCode(q) ==
  /\ At(q, "updateCode")
  /\ codes' = [codes EXCEPT ![req[q].i] = Overwrite(@, req[q].mem, req[q].dirty)]
  /\ CodeSaved(q)
  /\ UNCHANGED <<app, accounts, profile, tokens, guesses, logins>>

\* findOrCreateUser.
FindUser(q) ==
  /\ At(q, "findUser")
  /\ IF ~Exists(User) THEN Go(q, [at |-> "insertUser"])
     ELSE IF accounts[User].active THEN Go(q, [at |-> "findProfile"])
     ELSE Answer(q)
  /\ UNCHANGED data

\* users.mobile is UNIQUE: of two first logins at once, one fails.
InsertUser(q) ==
  /\ At(q, "insertUser")
  /\ IF Exists(User) THEN Answer(q) /\ UNCHANGED accounts
     ELSE /\ accounts' = [accounts EXCEPT ![User] =
                            [active |-> TRUE, password |-> Unused]]
          /\ Go(q, [at |-> "findProfile"])
  /\ UNCHANGED <<app, profile, codes, tokens, guesses, logins>>

\* What a new session is for; rotate and login go through buildAuthUser or
\* buildAdminAuthUser and then issueSession, too.
Session(s, password, login) ==
  [at |-> "build", s |-> s, password |-> password, login |-> login]

\* ensureCustomer, ensureAgent.
FindProfile(q) ==
  /\ At(q, "findProfile")
  /\ Go(q, IF profile THEN Session(User, Unused, TRUE)
                      ELSE [at |-> "insertProfile"])
  /\ UNCHANGED data

\* user_id is UNIQUE in customers and agents.
InsertProfile(q) ==
  /\ At(q, "insertProfile")
  /\ profile' = TRUE
  /\ IF profile THEN Answer(q) ELSE Go(q, Session(User, Unused, TRUE))
  /\ UNCHANGED <<app, accounts, codes, tokens, guesses, logins>>

-----------------------------------------------------------------------------
(* Sessions.                                                               *)

\* An admin's login, with the password the row has when it is loaded.
Login(q, s) ==
  /\ s \in Admins /\ Active(s) /\ Len(tokens) < MaxTokens
  /\ Start(q, Session(s, accounts[s].password, TRUE))
  /\ UNCHANGED data

\* buildAuthUser, buildAdminAuthUser: the account is read again.
Build(q) ==
  /\ At(q, "build")
  /\ IF Active(req[q].s) THEN Go(q, [req[q] EXCEPT !.at = "issue"]) ELSE Answer(q)
  /\ UNCHANGED data

IssueSession(q) ==
  /\ At(q, "issue") /\ Len(tokens) < MaxTokens
  /\ tokens' = Append(tokens, [owner |-> req[q].s, password |-> req[q].password,
                               live |-> TRUE])
  /\ logins' = IF req[q].login THEN logins + 1 ELSE logins
  /\ Answer(q)
  /\ UNCHANGED <<app, accounts, profile, codes, guesses>>

\* rotate: a token that is neither revoked nor expired.
Refresh(q) ==
  /\ Len(tokens) < MaxTokens
  /\ \E i \in Live : Start(q, [at |-> "retire", i |-> i])
  /\ UNCHANGED data

\* Mutant: the old token stays valid.
RetireNothing(q) ==
  /\ At(q, "retire")
  /\ LET i == req[q].i
     IN  Go(q, Session(tokens[i].owner, tokens[i].password, FALSE))
  /\ UNCHANGED data

\* The old token is revoked before the new session is built.
Retire(q) ==
  /\ At(q, "retire")
  /\ LET i == req[q].i
     IN  /\ tokens' = [tokens EXCEPT ![i].live = FALSE]
         /\ Go(q, Session(tokens[i].owner, tokens[i].password, FALSE))
  /\ UNCHANGED <<app, accounts, profile, codes, guesses, logins>>

\* logout of one session.
Logout(q) ==
  /\ \E i \in Live : /\ Acting(tokens[i].owner)
                     /\ Start(q, [at |-> "revoke", i |-> i])
  /\ UNCHANGED data

Revoke(q) ==
  /\ At(q, "revoke")
  /\ tokens' = [tokens EXCEPT ![req[q].i].live = FALSE]
  /\ Answer(q)
  /\ UNCHANGED <<app, accounts, profile, codes, guesses, logins>>

\* logout without a token.
LogoutAll(q, s) ==
  /\ Acting(s)
  /\ Start(q, [at |-> "revokeAll", s |-> s])
  /\ UNCHANGED data

\* revokeAllForSubject: one UPDATE.
RevokeAll(q) ==
  /\ At(q, "revokeAll")
  /\ tokens' = [i \in DOMAIN tokens |->
       IF tokens[i].owner = req[q].s THEN [tokens[i] EXCEPT !.live = FALSE]
                                     ELSE tokens[i]]
  /\ Answer(q)
  /\ UNCHANGED <<app, accounts, profile, codes, guesses, logins>>

Expire(i) ==
  /\ tokens[i].live
  /\ tokens' = [tokens EXCEPT ![i].live = FALSE]
  /\ UNCHANGED <<server, app, accounts, profile, codes, guesses, logins>>

-----------------------------------------------------------------------------
(* Accounts.                                                               *)

\* A handler has loaded an account, and saves it as mem.
Edit(q, s, mem, op) ==
  /\ Start(q, [at |-> "selectAccount", s |-> s, mem |-> mem, dirty |-> {},
               op |-> op])
  /\ UNCHANGED data

\* The user edits the own profile, an admin a customer's: no column here.
UpdateProfile(q) ==
  /\ Acting(User)
  /\ Edit(q, User, accounts[User], "edit")

\* Mutant: a customer an admin edits is active again.
RestoreCustomer(q) ==
  /\ Exists(User)
  /\ Edit(q, User, [accounts[User] EXCEPT !.active = TRUE], "edit")

UpdateCustomer(q) ==
  /\ Exists(User)
  /\ Edit(q, User, accounts[User], "edit")

BlockCustomer(q) ==
  /\ Exists(User)
  /\ Edit(q, User, [accounts[User] EXCEPT !.active = FALSE], "remove")

UnblockCustomer(q) ==
  /\ Exists(User)
  /\ Edit(q, User, [accounts[User] EXCEPT !.active = TRUE], "restore")

\* Another password for s, who may be whoever asks for it.
Reset(q, s) ==
  \E new \in Passwords \ {accounts[s].password} :
    Edit(q, s, [accounts[s] EXCEPT !.password = new], "password")

\* changePassword: one's own, with the current one.
ChangePassword(q, s) ==
  /\ s \in Admins /\ Acting(s)
  /\ Reset(q, s)

\* update of an admin by an admin, with a new password or without one.
UpdateAdmin(q, actor, s) ==
  /\ {actor, s} \subseteq Admins /\ Acting(actor) /\ Exists(s)
  /\ Reset(q, s) \/ Edit(q, s, accounts[s], "edit")

\* Mutant: an admin may deactivate the own account.
DeactivateAny(q, actor, s) ==
  /\ {actor, s} \subseteq Admins /\ Acting(actor) /\ Active(s)
  /\ Edit(q, s, [accounts[s] EXCEPT !.active = FALSE], "remove")

DeactivateAdmin(q, actor, s) ==
  /\ {actor, s} \subseteq Admins /\ Acting(actor) /\ Active(s) /\ actor # s
  /\ Edit(q, s, [accounts[s] EXCEPT !.active = FALSE], "remove")

ActivateAdmin(q, actor, s) ==
  /\ {actor, s} \subseteq Admins /\ Acting(actor) /\ Exists(s) /\ ~Active(s)
  /\ Edit(q, s, [accounts[s] EXCEPT !.active = TRUE], "restore")

\* Mutant: a changed password leaves the sessions alone.
KeepSessions(q) == Answer(q)

\* After the save the sessions of a deactivated admin, or of one with a new
\* password, are revoked; a block leaves that to assertActive.
AccountSaved(q) ==
  IF req[q].op = "password" \/ (req[q].op = "remove" /\ req[q].s # User)
  THEN Go(q, [at |-> "revokeAll", s |-> req[q].s])
  ELSE Answer(q)

SelectAccount(q) ==
  /\ At(q, "selectAccount")
  /\ LET diff == Differing(accounts[req[q].s], req[q].mem)
     IN  IF diff = {} THEN AccountSaved(q)
         ELSE Go(q, [req[q] EXCEPT !.at = "updateAccount", !.dirty = diff])
  /\ UNCHANGED data

UpdateAccount(q) ==
  /\ At(q, "updateAccount")
  /\ accounts' = [accounts EXCEPT
                    ![req[q].s] = Overwrite(@, req[q].mem, req[q].dirty)]
  /\ AccountSaved(q)
  /\ UNCHANGED <<app, profile, codes, tokens, guesses, logins>>

Crash(q) == Die(q) /\ UNCHANGED data

-----------------------------------------------------------------------------
\* The apps' login, of customers or agents.
OtpRoutes(q) == SendOtp(q) \/ VerifyOtp(q)

SessionRoutes(q) == Refresh(q) \/ Logout(q) \/ LogoutAll(q, User)

\* The admins' login.
AdminAuthRoutes(q) ==
  \/ \E s \in Admins : Login(q, s) \/ LogoutAll(q, s) \/ ChangePassword(q, s)
  \/ Refresh(q) \/ Logout(q)

ProfileRoutes(q) == UpdateProfile(q)

CustomerRoutes(q) == UpdateCustomer(q) \/ BlockCustomer(q) \/ UnblockCustomer(q)

AdminRoutes(q) ==
  \E actor, s \in Admins :
    UpdateAdmin(q, actor, s) \/ DeactivateAdmin(q, actor, s) \/ ActivateAdmin(q, actor, s)

Statement(q) ==
  \/ SelectCode(q) \/ UpdateCode(q) \/ InsertCode(q)
  \/ FindUser(q) \/ InsertUser(q) \/ FindProfile(q) \/ InsertProfile(q)
  \/ Build(q) \/ IssueSession(q) \/ Retire(q) \/ Revoke(q) \/ RevokeAll(q)
  \/ SelectAccount(q) \/ UpdateAccount(q)

Next ==
  \/ \E q \in Requests :
       \/ OtpRoutes(q) \/ SessionRoutes(q) \/ AdminAuthRoutes(q)
       \/ ProfileRoutes(q) \/ CustomerRoutes(q) \/ AdminRoutes(q)
       \/ Statement(q) \/ Crash(q)
  \/ \E i \in DOMAIN codes : Age(i)
  \/ \E i \in DOMAIN tokens : Expire(i)

Spec == Init /\ [][Next]_vars

-----------------------------------------------------------------------------
(* Properties.                                                             *)

\* "A fresh code invalidates the previous one": one valid code at a time,
\* plus at most one for every overlap.  A code is compared with at most
\* OTP_MAX_ATTEMPTS guesses, plus at most one for every overlap or death, for
\* an attempt is counted after it is made.
CodesBounded ==
  /\ Cardinality(Valid) <= 1 + overlaps
  /\ \A i \in DOMAIN codes : guesses[i] <= MaxAttempts + overlaps + deaths

\* Rotation replaces a session and never multiplies it: at most one live
\* session for every login, plus at most one for every overlap.
SessionsBounded == Cardinality(Live) <= logins + overlaps

\* "Every refresh token is dropped": once the password change is answered,
\* and unless its process dies, only a login or rotation that overlapped it
\* leaves a session made with another password.
OldPasswordDropped ==
  Quiet /\ deaths = 0 =>
    Cardinality({i \in Live : LET t == tokens[i] IN
                   Exists(t.owner) /\ t.password # accounts[t.owner].password})
      <= overlaps

\* "You cannot deactivate your own account": some admin can always log in,
\* unless two admins deactivate each other at the same time.
SomeAdminActive ==
  app = "admin" /\ overlaps = 0 => \E s \in Admins : Active(s)

\* A blocked or deactivated account comes back only by unblock or activate,
\* unless a save overlaps.
BlockKept ==
  [][\A s \in Subject : Exists(s) /\ ~Active(s) /\ Active(s)' =>
       \/ overlaps > 0
       \/ \E q \in Requests : At(q, "updateAccount") /\ req[q].op = "restore"]_vars
=============================================================================
