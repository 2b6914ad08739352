------------------------------ MODULE Accounts ------------------------------
(***************************************************************************)
(* Users, their sessions and the employees that hold their accounts:       *)
(* src/contexts/iam/user, iam/authentication and hr/employee.              *)
(*                                                                         *)
(* A request reads rows and then issues its statements one by one; only    *)
(* granting access to an employee is one transaction.  Rows are written    *)
(* whole and nothing is locked between the read and the write.             *)
(***************************************************************************)
EXTENDS Tables, Naturals, Sequences, FiniteSets

CONSTANTS IamClerks,    \* the clients, each with one request at a time
          Topics,       \* bound: the clerks, users, employees and tokens of a behaviour
          UserIds,      \* ids of users: they come with the request
          Usernames,    \* usernames (an email is unique in the same way)
          EmployeeIds,  \* ids of employees
          TokenIds,     \* token identifiers (jti)
          NoUser,       \* the null of user_id
          NoToken       \* the null of replaced_by_jti

ASSUME AccountsAssumption ==
    /\ Topics \subseteq [clerks : SUBSET IamClerks, users : SUBSET UserIds,
                         employees : SUBSET EmployeeIds, tokens : SUBSET TokenIds]
    /\ NoUser \notin UserIds

VARIABLES topic,      \* what this behaviour is about
          users,      \* the committed user rows, by id
          employees,  \* the committed employee rows, by id
          tokens,     \* the committed refresh tokens, by jti
          session,    \* the request each clerk is running
          enabled,    \* history: what activate or deactivate said of each user last
          granted,    \* history: the users granted to each employee that is there
          outdated    \* history: some request wrote a copy that was no longer current

accountVars == <<topic, users, employees, tokens, session, enabled, granted, outdated>>

UserRow == [username : Usernames, isActive : BOOLEAN]
EmployeeRow == [userId : UserIds \cup {NoUser}, isActive : BOOLEAN]
TokenRow == [userId : UserIds, isRevoked : BOOLEAN, isExpired : BOOLEAN,
             replacedByJti : TokenIds \cup {NoToken}]

RegisterUserRequest == [id : topic.users, username : Usernames]
UpdateUserRequest == [username : Usernames]
CreateEmployeeRequest == [id : topic.employees]
UpdateEmployeeRequest == [isActive : BOOLEAN]
GrantEmployeeAccessRequest == [userId : topic.users, username : Usernames]

CreateUser(n) == [username |-> n, isActive |-> TRUE]

\* Faulty variant: an edit makes the user active.
EditedUserReactivated(u, q) == [username |-> q.username, isActive |-> TRUE]

EditedUser(u, q) == [u EXCEPT !.username = q.username]

\* recordLogin changes a time nobody reads, and the whole row is saved.
RecordLogin(u) == u

NewEmployee == [userId |-> NoUser, isActive |-> TRUE]

\* Faulty variant: an edit drops the account of the employee.
EditedEmployeeDetached(e, q) == [userId |-> NoUser, isActive |-> q.isActive]

EditedEmployee(e, q) == [e EXCEPT !.isActive = q.isActive]
MayGrantAccess(e) == e.userId = NoUser
AccessGranted(e, u) == [e EXCEPT !.userId = u]

CreateToken(u) == [userId |-> u, isRevoked |-> FALSE, isExpired |-> FALSE,
                   replacedByJti |-> NoToken]

\* revoke() throws on a token that is revoked; markAsReplaced() revokes.
MayRevoke(t) == ~t.isRevoked
Revoke(t) == [t EXCEPT !.isRevoked = TRUE]

MarkAsReplaced(t, jti) == Revoke([t EXCEPT !.replacedByJti = jti])
IsActive(t) == ~t.isRevoked /\ ~t.isExpired

ExistsByUsername(n) == \E u \in DOMAIN users : users[u].username = n

-----------------------------------------------------------------------------
(* A request is the list of the statements it is still to issue.  Each is a set
   of rows to save, and the rows it was computed from. *)

NoRows == << >>

\* save() of a user, of an employee, of a token; a grant saves two rows at once.
Statement == [users |-> NoRows, employees |-> NoRows, tokens |-> NoRows,
              readUsers |-> NoRows, readEmployees |-> NoRows,
              born |-> {}, gone |-> {}, revokeOf |-> NoUser, says |-> NoRows, grants |-> NoRows]

\* The current rows of these ids.
Rows(table, ids) == [i \in ids \cap DOMAIN table |-> table[i]]

SaveUser(u, row) ==
    [Statement EXCEPT !.users = OneRow(u, row), !.readUsers = Rows(users, {u})]
SaveEmployee(e, row) ==
    [Statement EXCEPT !.employees = OneRow(e, row), !.readEmployees = Rows(employees, {e})]
SaveToken(t, row) == [Statement EXCEPT !.tokens = OneRow(t, row)]

Run(c, statements) ==
    /\ session[c] = << >>
    /\ session' = [session EXCEPT ![c] = statements]
    /\ UNCHANGED <<topic, users, employees, tokens, enabled, granted, outdated>>

-----------------------------------------------------------------------------
(* Users *)

\* POST /users/register.
RegisterUser(c) ==
    \E q \in RegisterUserRequest :
        /\ ~ExistsByUsername(q.username)
        /\ Run(c, <<[SaveUser(q.id, CreateUser(q.username)) EXCEPT !.says = OneRow(q.id, TRUE)]>>)

\* PUT /users/:id.
UpdateUser(c) ==
    \E u \in DOMAIN users, q \in UpdateUserRequest :
        /\ users[u].username # q.username => ~ExistsByUsername(q.username)
        /\ Run(c, <<SaveUser(u, EditedUser(users[u], q))>>)

\* PATCH /users/:id/activate and /users/:id/deactivate.
SetUserActive(c, active) ==
    \E u \in DOMAIN users :
        Run(c, <<[SaveUser(u, [users[u] EXCEPT !.isActive = active])
                  EXCEPT !.says = OneRow(u, active)]>>)

ActivateUser(c) == SetUserActive(c, TRUE)
DeactivateUser(c) == SetUserActive(c, FALSE)

-----------------------------------------------------------------------------
(* Employees *)

\* POST /employees: with the id of an employee, a new one takes its place.
CreateEmployee(c) ==
    \E q \in CreateEmployeeRequest :
        Run(c, <<[SaveEmployee(q.id, NewEmployee) EXCEPT !.born = {q.id}]>>)

\* PUT /employees/:id: everything but the account.
UpdateEmployee(c) ==
    \E e \in DOMAIN employees, q \in UpdateEmployeeRequest :
        Run(c, <<SaveEmployee(e, EditedEmployee(employees[e], q))>>)

\* DELETE /employees/:id: the account stays.
DeleteEmployee(c) ==
    \E e \in DOMAIN employees : Run(c, <<[Statement EXCEPT !.gone = {e}]>>)

\* POST /employees/:id/grant-access: registers the user, then the employee refuses
\* a second account; both rows are written in one transaction.
GrantAccess(c) ==
    \E e \in DOMAIN employees, q \in GrantEmployeeAccessRequest :
        /\ ~ExistsByUsername(q.username)
        /\ MayGrantAccess(employees[e])
        /\ Run(c, <<[SaveUser(q.userId, CreateUser(q.username)) EXCEPT
                        !.employees = OneRow(e, AccessGranted(employees[e], q.userId)),
                        !.readEmployees = Rows(employees, {e}),
                        !.says = OneRow(q.userId, TRUE), !.grants = OneRow(e, {q.userId})]>>)

-----------------------------------------------------------------------------
(* Sessions *)

\* Faulty variant: a token identifier may be given out again.
FreshEnough(t) == t \in topic.tokens

\* A jti is random: no token and no request has it yet.
Fresh(t) ==
    /\ t \in topic.tokens \ DOMAIN tokens
    /\ \A c \in IamClerks : \A k \in DOMAIN session[c] : t \notin DOMAIN session[c][k].tokens

\* POST /auth/login, with the right password: the token is saved, then the user.
Login(c) ==
    \E u \in DOMAIN users, t \in topic.tokens :
        /\ users[u].isActive
        /\ Fresh(t)
        /\ Run(c, <<SaveToken(t, CreateToken(u)), SaveUser(u, RecordLogin(users[u]))>>)

\* POST /auth/refresh, with a token that was issued: the old token is saved as
\* replaced, then the new one.
RefreshSession(c) ==
    \E t \in DOMAIN tokens, next \in topic.tokens :
        LET u == tokens[t].userId IN
        /\ IsActive(tokens[t])
        /\ users[u].isActive
        /\ Fresh(next)
        /\ Run(c, <<SaveToken(t, MarkAsReplaced(tokens[t], next)),
                    SaveToken(next, CreateToken(u))>>)

\* The same with a token that is revoked or expired: every token of the user that
\* is not revoked yet is revoked by one UPDATE, and the request fails.
RejectRefresh(c) ==
    \E t \in DOMAIN tokens :
        /\ ~IsActive(tokens[t])
        /\ Run(c, <<[Statement EXCEPT !.revokeOf = tokens[t].userId]>>)

\* POST /auth/logout.
Logout(c) ==
    \E t \in DOMAIN tokens :
        /\ MayRevoke(tokens[t])
        /\ Run(c, <<SaveToken(t, Revoke(tokens[t]))>>)

\* Time passes.
Expire(t) ==
    /\ t \in DOMAIN tokens /\ ~tokens[t].isExpired
    /\ tokens' = [tokens EXCEPT ![t].isExpired = TRUE]
    /\ UNCHANGED <<topic, users, employees, session, enabled, granted, outdated>>

-----------------------------------------------------------------------------
(* The next statement of a request.  The database refuses a username that
   another row has, and a user that another employee has. *)

\* revokeAllForUser.
Revoked(table, u) ==
    [t \in DOMAIN table |-> IF table[t].userId = u THEN Revoke(table[t]) ELSE table[t]]

\* The token that is saved keeps what time did to it.
SavedTokens(rows) ==
    [t \in DOMAIN rows |->
        [rows[t] EXCEPT !.isExpired = @ \/ (t \in DOMAIN tokens /\ tokens[t].isExpired)]]

UniqueUsernames(table) ==
    \A u, v \in DOMAIN table : u # v => table[u].username # table[v].username
UniqueAccounts(table) ==
    \A e, f \in DOMAIN table :
        e # f /\ table[e].userId # NoUser => table[e].userId # table[f].userId

Current(s) ==
    /\ s.readUsers = Rows(users, DOMAIN s.users)
    /\ s.readEmployees = Rows(employees, DOMAIN s.employees)

IssueStatement(c) ==
    /\ session[c] # << >>
    /\ LET s == Head(session[c])
           after == WrittenOver(s.employees, employees)
       IN  /\ UniqueUsernames(WrittenOver(s.users, users))
           /\ UniqueAccounts(after)
           /\ users' = WrittenOver(s.users, users)
           /\ employees' = [e \in DOMAIN after \ s.gone |-> after[e]]
           /\ tokens' = Revoked(WrittenOver(SavedTokens(s.tokens), tokens), s.revokeOf)
           /\ enabled' = WrittenOver(s.says, enabled)
           /\ granted' = [e \in EmployeeIds |->
                 IF e \in s.born \cup s.gone THEN {}
                 ELSE granted[e] \cup (IF e \in DOMAIN s.grants THEN s.grants[e] ELSE {})]
           /\ outdated' = (outdated \/ ~Current(s))
    /\ session' = [session EXCEPT ![c] = Tail(@)]
    /\ UNCHANGED topic

\* A statement is refused, or the process dies: the rest is not done.
AbandonSession(c) ==
    /\ session[c] # << >>
    /\ session' = [session EXCEPT ![c] = << >>]
    /\ UNCHANGED <<topic, users, employees, tokens, enabled, granted, outdated>>

-----------------------------------------------------------------------------
AccountsInit ==
    /\ topic \in Topics
    /\ users = NoRows
    /\ employees = NoRows
    /\ tokens = NoRows
    /\ session = [c \in IamClerks |-> << >>]
    /\ enabled = NoRows
    /\ granted = [e \in EmployeeIds |-> {}]
    /\ outdated = FALSE

UserCommand(c) ==
    \/ RegisterUser(c)
    \/ UpdateUser(c)
    \/ ActivateUser(c)
    \/ DeactivateUser(c)

EmployeeCommand(c) ==
    \/ CreateEmployee(c)
    \/ UpdateEmployee(c)
    \/ DeleteEmployee(c)
    \/ GrantAccess(c)

AuthCommand(c) ==
    \/ Login(c)
    \/ RefreshSession(c)
    \/ RejectRefresh(c)
    \/ Logout(c)

AccountsNext ==
    \/ \E c \in topic.clerks :
          \/ UserCommand(c)
          \/ EmployeeCommand(c)
          \/ AuthCommand(c)
          \/ IssueStatement(c)
          \/ AbandonSession(c)
    \/ \E t \in TokenIds : Expire(t)

AccountsSpec == AccountsInit /\ [][AccountsNext]_accountVars

-----------------------------------------------------------------------------
(* Properties *)

\* Type correctness of the committed rows and the history.
AccountsTypeOK ==
    /\ topic \in Topics
    /\ DOMAIN users \subseteq topic.users
    /\ \A u \in DOMAIN users : users[u] \in UserRow
    /\ DOMAIN employees \subseteq topic.employees
    /\ \A e \in DOMAIN employees : employees[e] \in EmployeeRow
    /\ DOMAIN tokens \subseteq topic.tokens
    /\ \A t \in DOMAIN tokens : tokens[t] \in TokenRow
    /\ DOMAIN enabled = DOMAIN users
    /\ granted \in [EmployeeIds -> SUBSET UserIds]
    /\ outdated \in BOOLEAN

AccessLeadsToAnAccount ==
    \A e \in DOMAIN employees :
        employees[e].userId # NoUser =>
            /\ employees[e].userId \in DOMAIN users
            /\ \A f \in DOMAIN employees : employees[f].userId = employees[e].userId => e = f

\* Whatever overlaps or fails halfway, the account an employee holds is a user that
\* was registered, and nobody else holds it.  Unless a request wrote a copy that
\* was out of date, an employee holds exactly the account that was granted: no
\* grant leaves a user behind that nobody holds, and no later edit of the employee
\* takes the account away.
GrantedAccountsAreHeld ==
    /\ AccessLeadsToAnAccount
    /\ ~outdated => \A e \in DOMAIN employees :
           granted[e] = {employees[e].userId} \ {NoUser}

\* Unless a request wrote a copy that was out of date, a user is active as the last
\* activation or deactivation said, through logins, edits and registrations.
LastWordOnActivityHolds ==
    ~outdated => \A u \in DOMAIN users : users[u].isActive = enabled[u]

\* A refresh token that was revoked stays revoked, although logging out and
\* refreshing write the whole row they read earlier; one that names a successor
\* was revoked.
RevokedStaysRevoked ==
    [][\A t \in DOMAIN tokens' :
          /\ (t \in DOMAIN tokens /\ tokens[t].isRevoked) => tokens'[t].isRevoked
          /\ tokens'[t].replacedByJti # NoToken => tokens'[t].isRevoked]_accountVars
=============================================================================
