----------------------------- MODULE UserService -----------------------------
(***************************************************************************)
(* The writing operations of module/iam: create, partial_update and delete *)
(* of UserServiceImpl over PgUserRepository, as concurrent requests on one *)
(* connection pool and one PostgreSQL database.                            *)
(*                                                                         *)
(* A request reads the user on a connection of its own, gives it back,     *)
(* and then writes in a transaction (READ COMMITTED, sqlx's default).      *)
(* Each statement is a step; the rows it writes stay invisible to others   *)
(* until COMMIT, and a statement that meets another transaction's          *)
(* uncommitted row waits for it (Blockers).  An error at any statement     *)
(* drops the transaction, which rolls back.                                *)
(***************************************************************************)
EXTENDS Integers, FiniteSets

CONSTANTS
    Existing,        \* users there before the requests modelled
    Create,          \* requests to POST /v1/users; each names the user it creates
    Patch,           \* requests to PATCH /v1/users/{id}
    Delete,          \* requests to DELETE /v1/users/{id}
    Address,         \* email addresses: stand for all that is UNIQUE in iam.users
    Role,            \* names of iam.roles
    GivenStatus,     \* the statuses a PATCH may ask for, words that are none among them
    MaxConnections,  \* of the pool
    None             \* no address, no field, no user

ASSUME ConstantsAssumption ==
    /\ Create \cap Patch = {} /\ Create \cap Delete = {} /\ Patch \cap Delete = {}
    /\ Existing \cap Create = {}
    /\ None \notin Existing \cup Create \cup Address \cup GivenStatus
    /\ "Active" # None /\ "Deleted" # None
    /\ MaxConnections \in Nat \ {0}

Request == Create \cup Patch \cup Delete
User == Existing \cup Create

VARIABLES
    email,     \* iam.users.email, committed; None: the row does not exist
    status,    \* iam.users.status_id, committed
    roles,     \* iam.user_has_roles, committed: pairs of a user and a role
    pc,        \* the statement each request stands at, or how it was answered
    target,    \* the user a request is about; None: an id that no user has
    fields,    \* what a request asks for
    ins,       \* the rows of user_has_roles its open transaction has inserted
    del,       \* the rows of user_has_roles its open transaction has deleted
    seen,      \* the rows its DELETE on user_has_roles has found and is locking
    earlier    \* the requests that were over before it began

table == <<email, status, roles>>
tx == <<ins, del, seen>>
input == <<target, fields, earlier>>
vars == <<table, tx, input, pc>>

\* Mutant: roles are removed before they are added.
FollowsSwapped == [check_unique |-> "remove_roles", remove_roles |-> "removing",
                   removing |-> "add_roles", add_roles |-> "check_fk", check_fk |-> "commit"]
\* The order of the statements once the row is written: what comes after each.
Follows == [check_unique |-> "add_roles", add_roles |-> "check_fk", check_fk |-> "remove_roles",
            remove_roles |-> "removing", removing |-> "commit"]

AfterWrite == {"check_unique", "add_roles", "check_fk", "remove_roles", "removing", "commit"}
TxSteps == {"write_row"} \cup AfterWrite
InFlight == {"find_user", "begin", "reply"} \cup TxSteps
Answered == {"ok", "not_found", "invalid", "duplicate", "error"}

\* UserStatus::id_of knows these two.
Status == {"Active", "Deleted"}

\* A payload.  status stands for the columns that are not UNIQUE, email for those that are.
Fields == [email : Address \cup {None}, status : Status \cup GivenStatus \cup {None},
           add : SUBSET Role, remove : SUBSET Role]

Goto(r, step) == pc' = [pc EXCEPT ![r] = step]
RolesOf(u) == {x \in Role : <<u, x>> \in roles}

------------------------------------------------------------------------------
(* What PostgreSQL makes one transaction wait for. *)

OpenTx == {s \in Request : pc[s] \in TxSteps}
Others(r) == OpenTx \ {r}

HasColumnChanges(r) == fields[r].email # None \/ fields[r].status # None

\* Who holds the lock on the row of u, which a writer keeps until its transaction ends.
RowWriters(u) == {s \in OpenTx : target[s] = u /\ pc[s] \in AfterWrite /\ HasColumnChanges(s)}

\* email is a key of iam.users: changing its value takes the row lock that conflicts
\* with FOR KEY SHARE, the lock a foreign key check holds on the row it refers to.
ChangesKey(s) == fields[s].email \notin {None, email[target[s]]}
KeyShares(u) ==
    {s \in OpenTx : target[s] = u /\ ins[s] # {} /\ pc[s] \in {"remove_roles", "removing", "commit"}}

\* Who has an uncommitted row with address a: a writer of a row that holds it (committed,
\* whether or not the writer changes it), or one past its own uniqueness check.
Claimants(a) ==
    {s \in OpenTx :
        \/ \E v \in User : email[v] = a /\ s \in RowWriters(v)
        \/ fields[s].email = a /\ pc[s] \in AfterWrite \ {"check_unique"}}

Blockers(r) ==
    LET u == target[r]
        touching(rows) == {s \in Others(r) : target[s] = u /\ (ins[s] \cup del[s]) \cap rows # {}}
    IN  CASE pc[r] = "write_row" /\ HasColumnChanges(r) ->
                (RowWriters(u) \cup IF ChangesKey(r) THEN KeyShares(u) ELSE {}) \ {r}
          [] pc[r] = "check_unique" /\ fields[r].email # None ->
                {s \in Claimants(fields[r].email) : target[s] # u}
          [] pc[r] = "add_roles" -> touching(fields[r].add)
          [] pc[r] = "check_fk" -> {s \in RowWriters(u) \ {r} : ChangesKey(s)}
          [] pc[r] = "removing" ->
                {s \in Others(r) : target[s] = u /\ del[s] \cap seen[r] # {}}
          [] OTHER -> {}

Unblocked(r, step) == pc[r] = step /\ Blockers(r) = {}

\* A request in a cycle of waits, which the database's deadlock detection can pick: it is among
\* those it waits for, directly or through others (the smallest set that holds its blockers, and
\* theirs).
Deadlocked(r) ==
    \A waited \in SUBSET Request :
        Blockers(r) \subseteq waited /\ (\A s \in waited : Blockers(s) \subseteq waited) => r \in waited

------------------------------------------------------------------------------
(* The pool, and the ends of a transaction. *)

FreeConnection == Cardinality(OpenTx) < MaxConnections

EndTx(r) ==
    /\ ins' = [ins EXCEPT ![r] = {}]
    /\ del' = [del EXCEPT ![r] = {}]

\* The transaction is dropped; whatever it wrote is gone.
Rollback(r, answer) ==
    /\ Goto(r, answer)
    /\ EndTx(r)
    /\ seen' = [seen EXCEPT ![r] = {}]
    /\ UNCHANGED <<table, input>>

------------------------------------------------------------------------------
(* UserServiceImpl::create, partial_update and delete, over their repository calls. *)

Begin(r, u, f, step) ==
    /\ pc[r] = "idle"
    /\ Goto(r, step)
    /\ target' = [target EXCEPT ![r] = u]
    /\ fields' = [fields EXCEPT ![r] = f]
    /\ earlier' = [earlier EXCEPT ![r] = {q \in Request : pc[q] \in Answered}]
    /\ UNCHANGED <<table, tx>>

\* The handler forces the status; hashing the password takes no connection.
BeginCreate(r) ==
    \E a \in Address, add \in SUBSET Role :
        Begin(r, r, [email |-> a, status |-> "Active", add |-> add, remove |-> {}], "begin")

\* The id of a user that exists, or of none.
Named == {u \in User : email[u] # None} \cup {None}

BeginPatch(r) ==
    \E u \in Named, f \in Fields :
        f.status \in GivenStatus \cup {None} /\ Begin(r, u, f, "find_user")

BeginDelete(r) ==
    \E u \in Named :
        Begin(r, u, [email |-> None, status |-> "Deleted", add |-> {}, remove |-> {}], "find_user")

\* require_user, outside the transaction: the connection is back in the pool when it returns.
RequireUser(r) ==
    /\ pc[r] = "find_user"
    /\ FreeConnection
    /\ Goto(r, IF target[r] # None /\ email[target[r]] # None THEN "begin" ELSE "not_found")
    /\ UNCHANGED <<table, tx, input>>

BeginTx(r) ==
    /\ pc[r] = "begin"
    /\ FreeConnection
    /\ Goto(r, "write_row")
    /\ UNCHANGED <<table, tx, input>>

\* A status that is none is refused before the UPDATE is sent (an unknown department by the
\* foreign key when it is sent: the same answer, the same rollback).
RefuseStatus(r) ==
    /\ pc[r] = "write_row"
    /\ fields[r].status \notin Status \cup {None}
    /\ Rollback(r, "invalid")

\* Mutant: the statement runs on the pool instead of the transaction's connection.
WriteRowOnPool(r) ==
    /\ Unblocked(r, "write_row")
    /\ fields[r].status \in Status \cup {None}
    /\ FreeConnection
    /\ Goto(r, IF fields[r].email # None THEN "check_unique"
               ELSE IF r \in Delete THEN "commit" ELSE Follows.check_unique)
    /\ UNCHANGED <<table, tx, input>>

\* INSERT or UPDATE of the row in iam.users, or neither: partial_update returns early when
\* no column changes.  delete has nothing more to write.
WriteRow(r) ==
    /\ Unblocked(r, "write_row")
    /\ fields[r].status \in Status \cup {None}
    /\ Goto(r, IF fields[r].email # None THEN "check_unique"
               ELSE IF r \in Delete THEN "commit" ELSE Follows.check_unique)
    /\ UNCHANGED <<table, tx, input>>

\* Mutant: no unique index.
CheckUniqueDropped(r) ==
    /\ Unblocked(r, "check_unique")
    /\ Goto(r, Follows.check_unique)
    /\ UNCHANGED <<table, tx, input>>

\* The new row enters the unique index, or fails with UNIQUE_VIOLATION.
CheckUnique(r) ==
    /\ Unblocked(r, "check_unique")
    /\ IF \E v \in User \ {target[r]} : email[v] = fields[r].email
       THEN Rollback(r, "duplicate")
       ELSE Goto(r, Follows.check_unique) /\ UNCHANGED <<table, tx, input>>

\* Mutant: the statement runs in autocommit.
AddUserRolesAutocommit(r) ==
    /\ Unblocked(r, "add_roles")
    /\ roles' = roles \cup ({target[r]} \X fields[r].add)
    /\ Goto(r, Follows.check_fk)
    /\ UNCHANGED <<email, status, tx, input>>

\* INSERT ... ON CONFLICT DO NOTHING: rows already there are left alone, and not locked.
\* An empty list adds nothing.  Statements take their rows at once: they visit the roles in
\* one order.
AddUserRoles(r) ==
    /\ Unblocked(r, "add_roles")
    /\ ins' = [ins EXCEPT ![r] = fields[r].add \ RolesOf(target[r])]
    /\ Goto(r, IF fields[r].add \subseteq RolesOf(target[r]) THEN Follows.check_fk
               ELSE Follows.add_roles)
    /\ UNCHANGED <<table, del, seen, input>>

\* The end of that INSERT: the foreign key locks the user's row against key changes.
CheckForeignKey(r) ==
    /\ Unblocked(r, "check_fk")
    /\ Goto(r, Follows.check_fk)
    /\ UNCHANGED <<table, tx, input>>

\* Mutant: it does not find what the transaction itself has inserted.
RemoveUserRolesCommitted(r) ==
    /\ pc[r] = "remove_roles"
    /\ seen' = [seen EXCEPT ![r] = fields[r].remove \cap RolesOf(target[r])]
    /\ Goto(r, Follows.remove_roles)
    /\ UNCHANGED <<table, ins, del, input>>

\* DELETE: it finds the rows its snapshot shows, its own insertions among them, ...
RemoveUserRoles(r) ==
    /\ pc[r] = "remove_roles"
    /\ seen' = [seen EXCEPT ![r] = fields[r].remove \cap (RolesOf(target[r]) \cup ins[r])]
    /\ Goto(r, Follows.remove_roles)
    /\ UNCHANGED <<table, ins, del, input>>

\* ... and deletes those no other transaction has deleted meanwhile.
Removing(r) ==
    /\ Unblocked(r, "removing")
    /\ del' = [del EXCEPT ![r] = seen[r]]
    /\ Goto(r, Follows.removing)
    /\ UNCHANGED <<table, ins, seen, input>>

\* Mutant: a delete removes the row.
NewEmailHard(r) ==
    IF r \in Delete THEN [email EXCEPT ![target[r]] = None]
    ELSE IF fields[r].email = None THEN email
    ELSE [email EXCEPT ![target[r]] = fields[r].email]

\* The columns that are not in the payload keep their values; a delete only sets the status.
NewEmail(r) ==
    IF fields[r].email = None THEN email ELSE [email EXCEPT ![target[r]] = fields[r].email]

\* Mutant: a status that is not in the payload is written too.
NewStatusAlways(r) == [status EXCEPT ![target[r]] = fields[r].status]

NewStatus(r) ==
    IF fields[r].status = None THEN status ELSE [status EXCEPT ![target[r]] = fields[r].status]

\* Everything the transaction wrote becomes visible; a row it deleted is no longer there
\* for a DELETE that waited for it.
Commit(r) ==
    LET u == target[r]
    IN  /\ pc[r] = "commit"
        /\ email' = NewEmail(r)
        /\ status' = NewStatus(r)
        /\ roles' = (roles \cup {<<u, x>> : x \in ins[r]}) \ {<<u, x>> : x \in del[r]}
        /\ seen' = [s \in Request |-> IF s = r THEN {}
                                      ELSE IF target[s] = u THEN seen[s] \ del[r] ELSE seen[s]]
        /\ EndTx(r)
        /\ Goto(r, "reply")
        /\ UNCHANGED input

Reply(r) ==
    /\ pc[r] = "reply"
    /\ Goto(r, "ok")
    /\ UNCHANGED <<table, tx, input>>

\* A statement fails, acquire_timeout expires, the future is dropped, or (pc "reply") the
\* answer to COMMIT is lost.
Abort(r) == pc[r] \in InFlight /\ Rollback(r, "error")

\* The database ends a deadlock: the statement fails with an error that maps to 500.
DeadlockVictim(r) == Deadlocked(r) /\ Rollback(r, "error")

------------------------------------------------------------------------------

Init ==
    /\ email \in {e \in [User -> Address \cup {None}] :
                    /\ \A u \in User : e[u] = None <=> u \in Create
                    /\ \A u, v \in Existing : e[u] = e[v] => u = v}
    /\ status = [u \in User |-> "Active"]
    /\ roles \in SUBSET (Existing \X Role)
    /\ pc = [r \in Request |-> "idle"]
    /\ target = [r \in Request |-> None]
    /\ fields = [r \in Request |-> [email |-> None, status |-> None, add |-> {}, remove |-> {}]]
    /\ ins = [r \in Request |-> {}]
    /\ del = [r \in Request |-> {}]
    /\ seen = [r \in Request |-> {}]
    /\ earlier = [r \in Request |-> {}]

\* What the runtime and the database do with a request once it has begun.
Step(r) ==
    \/ RequireUser(r) \/ BeginTx(r)
    \/ RefuseStatus(r) \/ WriteRow(r) \/ CheckUnique(r) \/ AddUserRoles(r) \/ CheckForeignKey(r)
    \/ RemoveUserRoles(r) \/ Removing(r)
    \/ Commit(r) \/ Reply(r)
    \/ DeadlockVictim(r)

Next ==
    \/ \E r \in Create : BeginCreate(r)
    \/ \E r \in Patch : BeginPatch(r)
    \/ \E r \in Delete : BeginDelete(r)
    \/ \E r \in Request : Step(r) \/ Abort(r)

Spec == Init /\ [][Next]_vars

\* The runtime polls every request and every statement that need not wait ends; the
\* database breaks deadlocks (deadlock_timeout).  Nothing relies on acquire_timeout.
FairSpec == Spec /\ \A r \in Request : WF_vars(Step(r))

------------------------------------------------------------------------------
(* Properties *)

TypeOK ==
    /\ email \in [User -> Address \cup {None}]
    /\ status \in [User -> Status]
    /\ roles \subseteq User \X Role
    /\ pc \in [Request -> {"idle"} \cup InFlight \cup Answered]
    /\ target \in [Request -> User \cup {None}]
    /\ fields \in [Request -> Fields]
    /\ ins \in [Request -> SUBSET Role]
    /\ del \in [Request -> SUBSET Role]
    /\ seen \in [Request -> SUBSET Role]
    /\ earlier \in [Request -> SUBSET Request]

\* Users that are there have different addresses.
UniqueEmails ==
    \A u, v \in User : email[u] # None /\ email[u] = email[v] => u = v

\* require_user is outside the transaction, and still no UPDATE misses its row: a request
\* about an existing user never loses it, because users are only deleted softly.
FoundUsersStay ==
    \A r \in Patch \cup Delete :
        pc[r] \in {"begin", "reply", "ok"} \cup TxSteps => email[target[r]] # None

\* Requests in flight about the same user as q, or begun after q was answered, may undo
\* what q did to x.  The others may not.
Undoes(r, q, x) ==
    /\ target[r] = target[q]
    /\ r # q /\ r \notin earlier[q]
    /\ pc[r] \notin {"idle", "not_found", "invalid", "duplicate"}
    /\ x \in fields[r].add \cup fields[r].remove

\* A committed request has the effect on the roles that it asked for (removal wins over
\* addition), unless a request that it overlapped, or a later one, is about the same role
\* of the same user.
RoleChangesTakeEffect ==
    \A q \in Request : pc[q] \in {"reply", "ok"} =>
        \A x \in fields[q].add \cup fields[q].remove :
            \/ \E r \in Request : Undoes(r, q, x)
            \/ x \in RolesOf(target[q]) <=> x \notin fields[q].remove

\* The answer to r's COMMIT is the only change of r's user, and no change of any other.
CommitsWhole(r) ==
    /\ pc[r] = "commit" /\ pc'[r] = "reply"
    /\ fields[r].email # None => email'[target[r]] = fields[r].email
    /\ fields[r].status # None => status'[target[r]] = fields[r].status
    /\ \A u \in User \ {target[r]} :
        /\ email'[u] = email[u] /\ status'[u] = status[u]
        /\ {x \in Role : <<u, x>> \in roles'} = RolesOf(u)

\* A transaction is seen whole or not at all: a step that changes users or roles ends
\* exactly one transaction with success, and leaves the row as that request asked.
CommitsAreWhole == [][table' # table => \E r \in Request : CommitsWhole(r)]_vars

\* Which requests can deadlock: those that change addresses, waiting for one another's
\* address or row, and nothing else.  Role changes alone never do.
DeadlocksChangeAddresses ==
    \A r \in Request : Deadlocked(r) =>
        \E s \in Request : Deadlocked(s) /\ ChangesKey(s) /\ pc[s] \in AfterWrite

\* Every request is answered, however few the connections: none waits for a connection
\* while it holds one.
EveryRequestIsAnswered ==
    \A r \in Request : pc[r] \in InFlight ~> pc[r] \in Answered
==============================================================================
