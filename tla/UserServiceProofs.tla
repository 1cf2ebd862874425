-------------------------- MODULE UserServiceProofs --------------------------
(***************************************************************************)
(* What holds of UserService for every set of users, requests, addresses   *)
(* and roles and every size of the pool.                                   *)
(*                                                                         *)
(* UniqueEmails is not inductive: it says nothing of the addresses that    *)
(* transactions have written and not yet committed.  Claimed adds them:    *)
(* past its uniqueness check, a transaction's address is nobody else's,    *)
(* neither committed nor claimed.                                          *)
(*                                                                         *)
(* RoleChangesTakeEffect speaks of answered requests only.  RolesSoFar     *)
(* says of every statement about roles what it has achieved (Progress),    *)
(* unless a request the property excuses has committed (Overtook).  The    *)
(* deadlocks need no further invariant: see CyclesChangeKeys.              *)
(***************************************************************************)
EXTENDS UserService, FiniteSetTheorems, WellFoundedInduction, TLAPS

\* Transactions past the uniqueness check of the row they write.
Past(r) == pc[r] \in AfterWrite \ {"check_unique"}

\* An address a transaction is past its check with is held and claimed for no other user.
Claimed ==
    \A r \in Request : Past(r) /\ fields[r].email # None =>
        /\ \A v \in User \ {target[r]} : email[v] # fields[r].email
        /\ \A s \in Request :
              Past(s) /\ fields[s].email = fields[r].email => target[s] = target[r]

\* A request that has found its user, or creates it, knows which one it is.
Targeted ==
    /\ \A r \in Create : pc[r] # "idle" => target[r] = r
    /\ \A r \in Request : pc[r] \in {"begin", "reply", "ok"} \cup TxSteps => target[r] \in User

\* Beyond the check of its status, a request only asks for a status that is one.
StatusKnown ==
    \A r \in Request : pc[r] \in AfterWrite => fields[r].status \in Status \cup {None}

IInv == TypeOK /\ Targeted /\ StatusKnown /\ Claimed /\ UniqueEmails /\ FoundUsersStay
------------------------------------------------------------------------------
(* Type correctness *)

\* The invariant holds initially.
LEMMA InitIInv == Init => IInv
<1> SUFFICES ASSUME Init PROVE IInv
  OBVIOUS
<1> USE ConstantsAssumption DEF Init
<1>1. TypeOK
  BY DEF TypeOK, Fields, Status, User, Request
<1>2. Targeted /\ StatusKnown /\ Claimed /\ FoundUsersStay
  BY DEF Targeted, StatusKnown, Claimed, FoundUsersStay, Past, AfterWrite, TxSteps, Request
<1>3. UniqueEmails
  BY DEF UniqueEmails, User
<1> QED
  BY <1>1, <1>2, <1>3 DEF IInv

\* Every step of every request keeps the types.
LEMMA TypeNext == TypeOK /\ Targeted /\ StatusKnown /\ [Next]_vars => TypeOK'
<1> SUFFICES ASSUME TypeOK, Targeted, StatusKnown, [Next]_vars PROVE TypeOK'
  OBVIOUS
<1> USE DEF TypeOK, Goto, table, tx, input, InFlight, TxSteps, AfterWrite, Answered, Follows
<1>1. ASSUME NEW r \in Request, NEW u \in User \cup {None}, NEW f \in Fields,
             NEW step \in InFlight, Begin(r, u, f, step)
      PROVE  TypeOK'
  BY <1>1 DEF Begin
<1>2. ASSUME NEW r \in Request, NEW answer \in Answered, Rollback(r, answer) PROVE TypeOK'
  BY <1>2 DEF Rollback, EndTx
<1>3. ASSUME NEW r \in Request, Step(r) PROVE TypeOK'
  <2>1. CASE RequireUser(r)
    BY <2>1 DEF RequireUser
  <2>2. CASE BeginTx(r)
    BY <2>2 DEF BeginTx
  <2>3. CASE RefuseStatus(r)
    BY <1>2, <2>3 DEF RefuseStatus
  <2>4. CASE WriteRow(r)
    BY <2>4 DEF WriteRow, Unblocked
  <2>5. CASE CheckUnique(r)
    BY <1>2, <2>5 DEF CheckUnique, Unblocked
  <2>6. CASE AddUserRoles(r)
    BY <2>6 DEF AddUserRoles, Unblocked, Fields
  <2>7. CASE CheckForeignKey(r)
    BY <2>7 DEF CheckForeignKey, Unblocked
  <2>8. CASE RemoveUserRoles(r)
    BY <2>8 DEF RemoveUserRoles, Fields
  <2>9. CASE Removing(r)
    BY <2>9 DEF Removing, Unblocked
  <2>10. CASE Commit(r)
    <3> USE <2>10 DEF Commit
    <3>1. target[r] \in User /\ fields[r] \in Fields /\ fields[r].status \in Status \cup {None}
      BY DEF Targeted, StatusKnown
    <3>2. email' \in [User -> Address \cup {None}] /\ status' \in [User -> Status]
      BY <3>1 DEF NewEmail, NewStatus, Fields
    <3>3. roles' \subseteq User \X Role
      BY <3>1
    <3>4. seen' \in [Request -> SUBSET Role]
      OBVIOUS
    <3> QED
      BY <3>2, <3>3, <3>4 DEF EndTx
  <2>11. CASE Reply(r)
    BY <2>11 DEF Reply
  <2>12. CASE DeadlockVictim(r)
    BY <1>2, <2>12 DEF DeadlockVictim
  <2> QED
    BY <1>3, <2>1, <2>2, <2>3, <2>4, <2>5, <2>6, <2>7, <2>8, <2>9, <2>10, <2>11, <2>12 DEF Step
<1>4. ASSUME NEW r \in Create, BeginCreate(r) PROVE TypeOK'
  BY <1>1, <1>4 DEF BeginCreate, Fields, Status, Request, User
<1>5. ASSUME NEW r \in Patch, BeginPatch(r) PROVE TypeOK'
  BY <1>1, <1>5 DEF BeginPatch, Named, Request
<1>6. ASSUME NEW r \in Delete, BeginDelete(r) PROVE TypeOK'
  BY <1>1, <1>6 DEF BeginDelete, Named, Fields, Status, Request
<1>7. ASSUME NEW r \in Request, Abort(r) PROVE TypeOK'
  BY <1>2, <1>7 DEF Abort
<1>8. CASE UNCHANGED vars
  BY <1>8 DEF vars
<1> QED
  BY <1>3, <1>4, <1>5, <1>6, <1>7, <1>8 DEF Next
------------------------------------------------------------------------------
(* What requests in flight know *)

\* A request in a deadlock waits.
LEMMA DeadlockedWaits == ASSUME NEW r, Deadlocked(r) PROVE Blockers(r) # {}
<1>1. ASSUME Blockers(r) = {} PROVE r \in {}
  BY <1>1 DEF Deadlocked
<1> QED
  BY <1>1

\* The steps that only move a request on: no row, no payload and no lock changes.
Moves(r) ==
    RequireUser(r) \/ BeginTx(r) \/ WriteRow(r) \/ AddUserRoles(r) \/ CheckForeignKey(r)
        \/ RemoveUserRoles(r) \/ Removing(r) \/ Reply(r)

Fails(r) == pc[r] # "idle" /\ \E answer \in Answered \ {"ok"} : Rollback(r, answer)

\* A step of a request moves it on, fails it, passes the uniqueness check or commits.
LEMMA StepKinds ==
    ASSUME NEW r \in Request, Step(r) \/ Abort(r)
    PROVE  \/ Moves(r) \/ Fails(r) \/ Commit(r)
           \/ CheckUnique(r) /\ Goto(r, Follows.check_unique) /\ UNCHANGED <<table, tx, input>>
<1>1. DeadlockVictim(r) => Fails(r)
  BY DeadlockedWaits DEF DeadlockVictim, Blockers, Fails, Answered
<1> QED
  BY <1>1 DEF Step, Abort, Moves, Fails, RefuseStatus, CheckUnique, Unblocked, Answered,
              InFlight, TxSteps, AfterWrite

\* A request begins with a payload of its own, and at a statement before its transaction.
LEMMA Beginnings ==
    ASSUME NEW r, \/ r \in Create /\ BeginCreate(r)
                  \/ r \in Patch /\ BeginPatch(r)
                  \/ r \in Delete /\ BeginDelete(r)
    PROVE  \E u \in User \cup {None}, f \in Fields, step \in {"find_user", "begin"} :
              /\ Begin(r, u, f, step)
              /\ step = "begin" => u = r
              /\ r \in Create <=> step = "begin"
BY ConstantsAssumption
   DEF BeginCreate, BeginPatch, BeginDelete, Named, User, Request, Fields, Status

\* Requests keep knowing which user they are about, and only ask for statuses there are.
LEMMA KnowledgeNext ==
    TypeOK /\ Targeted /\ StatusKnown /\ [Next]_vars => Targeted' /\ StatusKnown'
<1> SUFFICES ASSUME TypeOK, Targeted, StatusKnown, [Next]_vars
             PROVE  Targeted' /\ StatusKnown'
  OBVIOUS
<1> USE DEF TypeOK, Targeted, StatusKnown, Goto, table, tx, input, TxSteps, AfterWrite,
            Answered, InFlight, Follows
<1>1. ASSUME NEW r \in Request, \/ r \in Create /\ BeginCreate(r)
                                \/ r \in Patch /\ BeginPatch(r)
                                \/ r \in Delete /\ BeginDelete(r)
      PROVE  Targeted' /\ StatusKnown'
  <2>1. PICK u \in User \cup {None}, f \in Fields, step \in {"find_user", "begin"} :
            /\ Begin(r, u, f, step)
            /\ step = "begin" => u = r
            /\ r \in Create <=> step = "begin"
    BY <1>1, Beginnings
  <2> QED
    BY <2>1 DEF Begin, Request, User
<1>2. ASSUME NEW r \in Request, Moves(r) PROVE Targeted' /\ StatusKnown'
  BY <1>2 DEF Moves, RequireUser, BeginTx, WriteRow, AddUserRoles, CheckForeignKey,
              RemoveUserRoles, Removing, Reply, Unblocked, Request
<1>3. ASSUME NEW r \in Request, Fails(r) PROVE Targeted' /\ StatusKnown'
  BY <1>3 DEF Fails, Rollback
<1>4. ASSUME NEW r \in Request, Commit(r) PROVE Targeted' /\ StatusKnown'
  BY <1>4 DEF Commit
<1>5. ASSUME NEW r \in Request, CheckUnique(r),
             Goto(r, Follows.check_unique) /\ UNCHANGED <<table, tx, input>>
      PROVE  Targeted' /\ StatusKnown'
  BY <1>5 DEF CheckUnique, Unblocked
<1>6. CASE UNCHANGED vars
  BY <1>6 DEF vars
<1> QED
  BY <1>1, <1>2, <1>3, <1>4, <1>5, <1>6, StepKinds DEF Next, Request
------------------------------------------------------------------------------
(* Addresses *)

\* No row is ever removed: its address changes, and only when a request commits.
LEMMA RowsStay ==
    ASSUME TypeOK, Targeted, [Next]_vars, NEW u \in User, email[u] # None
    PROVE  email'[u] # None
<1> USE DEF TypeOK, Targeted, table, tx, input
<1>1. ASSUME NEW r \in Request, Step(r) \/ Abort(r) PROVE email'[u] # None
  <2>1. CASE Moves(r)
    BY <2>1 DEF Moves, RequireUser, BeginTx, WriteRow, AddUserRoles, CheckForeignKey,
                RemoveUserRoles, Removing, Reply
  <2>2. CASE Fails(r)
    BY <2>2 DEF Fails, Rollback
  <2>3. CASE Commit(r)
    BY <2>3 DEF Commit, NewEmail
  <2> QED
    BY <1>1, <2>1, <2>2, <2>3, StepKinds
<1>2. ASSUME NEW r \in Request, BeginCreate(r) \/ BeginPatch(r) \/ BeginDelete(r)
      PROVE  email'[u] # None
  BY <1>2 DEF BeginCreate, BeginPatch, BeginDelete, Begin
<1>3. CASE UNCHANGED vars
  BY <1>3 DEF vars
<1> QED
  BY <1>1, <1>2, <1>3 DEF Next, Request

\* The lookup before the transaction is good for as long as the request lasts.
LEMMA FoundNext ==
    TypeOK /\ Targeted /\ FoundUsersStay /\ [Next]_vars => FoundUsersStay'
<1> SUFFICES ASSUME TypeOK, Targeted, FoundUsersStay, [Next]_vars,
                    NEW r \in Patch \cup Delete,
                    pc'[r] \in {"begin", "reply", "ok"} \cup TxSteps
             PROVE  email'[target'[r]] # None
  BY DEF FoundUsersStay
<1> USE DEF TypeOK, Targeted, FoundUsersStay, Goto, table, tx, input, TxSteps, AfterWrite,
            Answered, InFlight, Follows, Request
<1>1. CASE pc[r] \in {"begin", "reply", "ok"} \cup TxSteps /\ target'[r] = target[r]
  BY <1>1, RowsStay
<1>2. ASSUME NEW q \in Request, Step(q) \/ Abort(q) PROVE email'[target'[r]] # None
  <2>1. CASE Moves(q)
    BY <1>1, <2>1, ConstantsAssumption
       DEF Moves, RequireUser, BeginTx, WriteRow, AddUserRoles, CheckForeignKey,
           RemoveUserRoles, Removing, Reply, Unblocked
  <2>2. CASE Fails(q)
    BY <1>1, <2>2 DEF Fails, Rollback
  <2>3. CASE Commit(q)
    BY <1>1, <2>3 DEF Commit
  <2>4. CASE CheckUnique(q) /\ Goto(q, Follows.check_unique) /\ UNCHANGED <<table, tx, input>>
    BY <1>1, <2>4 DEF CheckUnique, Unblocked
  <2> QED
    BY <1>2, <2>1, <2>2, <2>3, <2>4, StepKinds
<1>3. ASSUME NEW q, \/ q \in Create /\ BeginCreate(q)
                    \/ q \in Patch /\ BeginPatch(q)
                    \/ q \in Delete /\ BeginDelete(q)
      PROVE  email'[target'[r]] # None
  <2>1. PICK u \in User \cup {None}, f \in Fields, step \in {"find_user", "begin"} :
            /\ Begin(q, u, f, step)
            /\ step = "begin" => u = q
            /\ q \in Create <=> step = "begin"
    BY <1>3, Beginnings
  <2> QED
    BY <1>1, <2>1, ConstantsAssumption DEF Begin
<1>4. CASE UNCHANGED vars
  BY <1>1, <1>4 DEF vars
<1> QED
  BY <1>2, <1>3, <1>4 DEF Next

\* A transaction passes its uniqueness check when nobody holds or claims its address; a
\* commit turns a claim into a row.
LEMMA ClaimedNext ==
    TypeOK /\ Targeted /\ Claimed /\ UniqueEmails /\ [Next]_vars => Claimed' /\ UniqueEmails'
<1> SUFFICES ASSUME TypeOK, Targeted, Claimed, UniqueEmails, [Next]_vars
             PROVE  Claimed' /\ UniqueEmails'
  OBVIOUS
<1> USE DEF TypeOK, Targeted, Claimed, UniqueEmails, Goto, table, tx, input, TxSteps,
            AfterWrite, Answered, InFlight, Follows, Past
<1>1. ASSUME NEW q, \/ q \in Create /\ BeginCreate(q)
                    \/ q \in Patch /\ BeginPatch(q)
                    \/ q \in Delete /\ BeginDelete(q)
      PROVE  Claimed' /\ UniqueEmails'
  <2>1. PICK u \in User \cup {None}, f \in Fields, step \in {"find_user", "begin"} :
            Begin(q, u, f, step)
    BY <1>1, Beginnings
  <2> QED
    BY <1>1, <2>1 DEF Begin, Request
<1>2. ASSUME NEW q \in Request, Moves(q) PROVE Claimed' /\ UniqueEmails'
  BY <1>2 DEF Moves, RequireUser, BeginTx, WriteRow, AddUserRoles, CheckForeignKey,
              RemoveUserRoles, Removing, Reply, Unblocked
<1>3. ASSUME NEW q \in Request, Fails(q) PROVE Claimed' /\ UniqueEmails'
  BY <1>3 DEF Fails, Rollback
<1>4. ASSUME NEW q \in Request, Commit(q) PROVE Claimed' /\ UniqueEmails'
  <2> USE <1>4 DEF Commit, NewEmail
  <2>1. Past(q) /\ target[q] \in User
    OBVIOUS
  <2>2. UniqueEmails'
    BY <2>1
  <2>3. Claimed'
    BY <2>1
  <2> QED
    BY <2>2, <2>3
<1>5. ASSUME NEW q \in Request, CheckUnique(q),
             Goto(q, Follows.check_unique) /\ UNCHANGED <<table, tx, input>>
      PROVE  Claimed' /\ UniqueEmails'
  <2> USE <1>5
  <2>1. pc[q] = "check_unique" /\ Blockers(q) = {}
    BY DEF CheckUnique, Unblocked
  <2>2. \A v \in User \ {target[q]} : fields[q].email # None => email[v] # fields[q].email
    BY DEF CheckUnique, Rollback
  <2>3. ASSUME NEW s \in Request, Past(s), fields[q].email # None,
               fields[s].email = fields[q].email
        PROVE  target[s] = target[q]
    <3>1. s \in Claimants(fields[q].email)
      BY <2>3 DEF Claimants, OpenTx
    <3> QED
      BY <2>1, <2>3, <3>1 DEF Blockers
  <2> QED
    BY <2>1, <2>2, <2>3
<1>6. CASE UNCHANGED vars
  BY <1>6 DEF vars
<1> QED
  BY <1>1, <1>2, <1>3, <1>4, <1>5, <1>6, StepKinds DEF Next, Request
------------------------------------------------------------------------------
(* Transactions *)

\* Only a commit changes users or roles, and only those of its own user.
LEMMA WholeNext ==
    TypeOK /\ Targeted /\ [Next]_vars => (table' # table => \E r \in Request : CommitsWhole(r))
<1> SUFFICES ASSUME TypeOK, Targeted, [Next]_vars, table' # table
             PROVE  \E r \in Request : CommitsWhole(r)
  OBVIOUS
<1>1. ASSUME NEW r \in Request, Step(r) \/ Abort(r) PROVE CommitsWhole(r)
  <2>1. CASE Moves(r)
    BY <2>1 DEF Moves, RequireUser, BeginTx, WriteRow, AddUserRoles, CheckForeignKey,
                RemoveUserRoles, Removing, Reply, table
  <2>2. CASE Fails(r)
    BY <2>2 DEF Fails, Rollback
  <2>3. CASE Commit(r)
    BY <2>3 DEF Commit, NewEmail, NewStatus, Goto, CommitsWhole, RolesOf, TypeOK, Targeted,
                TxSteps, AfterWrite
  <2> QED
    BY <1>1, <2>1, <2>2, <2>3, StepKinds
<1>2. ASSUME NEW r \in Request, BeginCreate(r) \/ BeginPatch(r) \/ BeginDelete(r) PROVE FALSE
  BY <1>2 DEF BeginCreate, BeginPatch, BeginDelete, Begin
<1>3. CASE UNCHANGED vars
  BY <1>3 DEF vars
<1> QED
  BY <1>1, <1>2, <1>3 DEF Next, Request
------------------------------------------------------------------------------
(* Roles *)

\* What transactions hold of user_has_roles: rows they were asked to insert, after the INSERT;
\* rows they were asked to delete, after the DELETE.
OwnRows ==
    \A r \in Request :
        /\ ins[r] \subseteq fields[r].add
        /\ seen[r] \subseteq fields[r].remove /\ del[r] \subseteq fields[r].remove
        /\ ins[r] # {} => pc[r] \in {"check_fk", "remove_roles", "removing", "commit"}
        /\ seen[r] # {} => pc[r] \in {"removing", "commit"}
        /\ del[r] # {} => pc[r] = "commit"
        /\ r \in Delete => fields[r].add = {} /\ fields[r].remove = {}

\* The requests that were over before r began are over.
EarlierAreOver == \A r \in Request : \A q \in earlier[r] : pc[q] \in Answered

\* A request that q overlapped, or a later one, has committed (or failed, perhaps after it
\* committed) and was about role x of q's user, too.  Once this is so it stays so.
Overtook(q, x) ==
    \E r \in Request : /\ target[r] = target[q]
                       /\ r # q /\ r \notin earlier[q]
                       /\ pc[r] \in {"reply", "ok", "error"}
                       /\ x \in fields[r].add \cup fields[r].remove

\* How far q has come with role x: its INSERT has made sure the role is there, its DELETE has found
\* the row if there is one, and its COMMIT has done both.
Progress(q, x) ==
    LET held == RolesOf(target[q]) \cup ins[q] IN
    /\ pc[q] \in {"check_fk", "remove_roles"} /\ x \in fields[q].add => x \in held
    /\ pc[q] \in {"removing", "commit"} /\ x \in fields[q].add \ fields[q].remove => x \in held
    /\ pc[q] = "removing" /\ x \in fields[q].remove => x \in seen[q] \/ x \notin held
    /\ pc[q] = "commit" /\ x \in fields[q].remove => x \in del[q] \/ x \notin held
    /\ pc[q] \in {"reply", "ok"} => (x \in RolesOf(target[q]) <=> x \notin fields[q].remove)

\* RoleChangesTakeEffect, from the first statement about roles on.
RolesSoFar ==
    \A q \in Request : \A x \in fields[q].add \cup fields[q].remove : Overtook(q, x) \/ Progress(q, x)

RolesInv == OwnRows /\ EarlierAreOver /\ RolesSoFar

\* A request is about the same user, with the same payload, for as long as it lasts; and what
\* is answered stays answered.
LEMMA InputStays ==
    ASSUME TypeOK, [Next]_vars, NEW q \in Request, pc[q] # "idle"
    PROVE  /\ target'[q] = target[q] /\ fields'[q] = fields[q] /\ earlier'[q] = earlier[q]
           /\ pc'[q] # "idle"
           /\ pc[q] \in Answered => pc'[q] \in Answered
           /\ pc[q] \in {"reply", "ok", "error"} => pc'[q] \in {"reply", "ok", "error"}
<1> USE DEF TypeOK, Goto, table, tx, input, TxSteps, AfterWrite, Answered, InFlight, Follows
<1>1. ASSUME NEW r, \/ r \in Create /\ BeginCreate(r)
                    \/ r \in Patch /\ BeginPatch(r)
                    \/ r \in Delete /\ BeginDelete(r)
      PROVE  r # q /\ pc'[q] = pc[q] /\ target'[q] = target[q] /\ fields'[q] = fields[q]
             /\ earlier'[q] = earlier[q]
  BY <1>1 DEF BeginCreate, BeginPatch, BeginDelete, Begin, Request
<1>2. ASSUME NEW r \in Request, Step(r) \/ Abort(r)
      PROVE  /\ UNCHANGED input /\ pc'[q] # "idle"
             /\ r # q => pc'[q] = pc[q]
             /\ pc[r] \notin Answered
             /\ pc[r] = "reply" => pc'[r] \in {"ok", "error"}
  <2>1. CASE Moves(r)
    BY <2>1 DEF Moves, RequireUser, BeginTx, WriteRow, AddUserRoles, CheckForeignKey,
                RemoveUserRoles, Removing, Reply, Unblocked
  <2>2. CASE CheckUnique(r) \/ RefuseStatus(r)
    BY <2>2 DEF CheckUnique, RefuseStatus, Unblocked, Rollback
  <2>3. CASE Commit(r)
    BY <2>3 DEF Commit
  <2>4. CASE Abort(r)
    BY <2>4 DEF Abort, Rollback
  <2>5. CASE DeadlockVictim(r)
    <3>1. pc[r] \in {"write_row", "check_unique", "add_roles", "check_fk", "removing"}
      BY <2>5, DeadlockedWaits DEF DeadlockVictim, Blockers
    <3> QED
      BY <2>5, <3>1 DEF DeadlockVictim, Rollback
  <2> QED
    BY <1>2, <2>1, <2>2, <2>3, <2>4, <2>5 DEF Step, Moves
<1>3. CASE UNCHANGED vars
  BY <1>3 DEF vars
<1> QED
  BY <1>1, <1>2, <1>3 DEF Next

\* Each transaction keeps to the rows it was asked for, and to the order of its statements.
LEMMA OwnRowsNext ==
    TypeOK /\ OwnRows /\ EarlierAreOver /\ [Next]_vars => OwnRows' /\ EarlierAreOver'
<1> SUFFICES ASSUME TypeOK, OwnRows, EarlierAreOver, [Next]_vars PROVE OwnRows' /\ EarlierAreOver'
  OBVIOUS
<1>1. EarlierAreOver'
  <2> SUFFICES ASSUME NEW r \in Request, NEW q \in earlier'[r] PROVE pc'[q] \in Answered
    BY DEF EarlierAreOver
  <2>1. ASSUME pc[q] \in Answered, q \in Request PROVE pc'[q] \in Answered
    BY <2>1, InputStays DEF Answered
  <2>2. CASE earlier'[r] = earlier[r]
    BY <2>1, <2>2 DEF EarlierAreOver, TypeOK
  <2>3. ASSUME NEW s \in Request, NEW u, NEW f, NEW step, Begin(s, u, f, step)
        PROVE  pc'[q] \in Answered
    BY <2>1, <2>2, <2>3 DEF Begin, TypeOK
  <2>4. CASE UNCHANGED earlier
    BY <2>2, <2>4
  <2>5. \/ UNCHANGED earlier
        \/ \E s \in Request : \E u, f, step : Begin(s, u, f, step)
    BY DEF Next, Step, Abort, RequireUser, BeginTx, RefuseStatus, WriteRow, CheckUnique, AddUserRoles,
           CheckForeignKey, RemoveUserRoles, Removing, Commit, Reply, DeadlockVictim, Rollback,
           BeginCreate, BeginPatch, BeginDelete, input, vars, Request
  <2> QED
    BY <2>3, <2>4, <2>5
<1> HIDE DEF EarlierAreOver
<1> USE DEF TypeOK, OwnRows, Goto, table, tx, input, TxSteps, AfterWrite, Follows
<1>2. ASSUME NEW r \in Create, BeginCreate(r) PROVE OwnRows'
  BY <1>2, ConstantsAssumption DEF BeginCreate, Begin, Request
<1>3. ASSUME NEW r \in Patch, BeginPatch(r) PROVE OwnRows'
  BY <1>3, ConstantsAssumption DEF BeginPatch, Begin, Request
<1>4. ASSUME NEW r \in Delete, BeginDelete(r) PROVE OwnRows'
  BY <1>4 DEF BeginDelete, Begin, Request
<1>5. ASSUME NEW r \in Request, NEW answer, Rollback(r, answer) PROVE OwnRows'
  BY <1>5 DEF Rollback, EndTx
<1>6. ASSUME NEW r \in Request, Step(r) PROVE OwnRows'
  <2>1. CASE RequireUser(r) \/ BeginTx(r) \/ WriteRow(r) \/ Reply(r)
    BY <2>1 DEF RequireUser, BeginTx, WriteRow, Reply, Unblocked
  <2>2. CASE RefuseStatus(r) \/ DeadlockVictim(r)
    BY <1>5, <2>2 DEF RefuseStatus, DeadlockVictim
  <2>3. CASE CheckUnique(r)
    BY <1>5, <2>3 DEF CheckUnique, Unblocked
  <2>4. CASE AddUserRoles(r)
    BY <2>4 DEF AddUserRoles, Unblocked
  <2>5. CASE CheckForeignKey(r)
    BY <2>5 DEF CheckForeignKey, Unblocked
  <2>6. CASE RemoveUserRoles(r)
    BY <2>6 DEF RemoveUserRoles
  <2>7. CASE Removing(r)
    BY <2>7 DEF Removing, Unblocked
  <2>8. CASE Commit(r)
    BY <2>8 DEF Commit, EndTx
  <2> QED
    BY <1>6, <2>1, <2>2, <2>3, <2>4, <2>5, <2>6, <2>7, <2>8 DEF Step
<1>7. ASSUME NEW r \in Request, Abort(r) PROVE OwnRows'
  BY <1>5, <1>7 DEF Abort
<1>8. CASE UNCHANGED vars
  BY <1>1, <1>8 DEF vars
<1> QED
  BY <1>1, <1>2, <1>3, <1>4, <1>6, <1>7, <1>8 DEF Next

\* Whoever overtook a request has done so for good.
LEMMA OvertookStays ==
    ASSUME TypeOK, [Next]_vars, NEW q \in Request, pc[q] # "idle", NEW x, Overtook(q, x)
    PROVE  Overtook(q, x)'
<1>1. PICK r \in Request : /\ target[r] = target[q]
                           /\ r # q /\ r \notin earlier[q]
                           /\ pc[r] \in {"reply", "ok", "error"}
                           /\ x \in fields[r].add \cup fields[r].remove
  BY DEF Overtook
<1>2. pc[r] # "idle"
  BY <1>1
<1> QED
  BY <1>1, <1>2, InputStays DEF Overtook

\* A commit of another request only disturbs the roles it has inserted or deleted, and those
\* it has overtaken.
LEMMA CommitDisturbs ==
    ASSUME TypeOK, OwnRows, EarlierAreOver, [Next]_vars,
           NEW t \in Request, Commit(t),
           NEW q \in Request, q # t, pc[q] # "idle", NEW x \in Role
    PROVE  \/ Overtook(q, x)'
           \/ /\ x \in RolesOf(target[q])' <=> x \in RolesOf(target[q])
              /\ x \in seen'[q] <=> x \in seen[q]
              /\ UNCHANGED <<ins[q], del[q], pc[q]>>
<1> USE DEF TypeOK
<1>1. pc[t] = "commit" /\ pc'[t] = "reply" /\ UNCHANGED input
  BY DEF Commit, Goto
<1>2. t \notin earlier[q]
  BY <1>1 DEF EarlierAreOver, Answered
<1>3. UNCHANGED <<ins[q], del[q], pc[q]>>
  BY DEF Commit, EndTx, Goto
<1>4. CASE target[t] = target[q] /\ x \in ins[t] \cup del[t]
  <2>1. x \in fields[t].add \cup fields[t].remove
    BY <1>4 DEF OwnRows
  <2> QED
    BY <1>1, <1>2, <1>4, <2>1 DEF Overtook, input
<1>5. CASE target[t] # target[q] \/ x \notin ins[t] \cup del[t]
  <2>1. x \in RolesOf(target[q])' <=> x \in RolesOf(target[q])
    BY <1>1, <1>5 DEF Commit, RolesOf, input
  <2>2. x \in seen'[q] <=> x \in seen[q]
    BY <1>5 DEF Commit
  <2> QED
    BY <1>3, <2>1, <2>2
<1> QED
  BY <1>4, <1>5

\* A request that does nothing leaves the others where they are: what they have done is done.
LEMMA ProgressKept ==
    ASSUME NEW q \in Request, NEW x \in Role, Progress(q, x),
           UNCHANGED <<pc[q], target[q], fields[q], ins[q], del[q]>>,
           x \in RolesOf(target[q])' <=> x \in RolesOf(target[q]),
           x \in seen'[q] <=> x \in seen[q]
    PROVE  Progress(q, x)'
BY DEF Progress

\* Each statement about roles does its part, and COMMIT does all of it.
LEMMA OwnProgress ==
    ASSUME TypeOK, Targeted, OwnRows, NEW q \in Request, Step(q), NEW x \in Role,
           x \in fields[q].add \cup fields[q].remove, Progress(q, x)
    PROVE  Progress(q, x)'
<1> USE DEF TypeOK, OwnRows, Progress, Goto, table, tx, input, Follows, Unblocked
<1>1. CASE RequireUser(q) \/ BeginTx(q)
  BY <1>1 DEF RequireUser, BeginTx
<1>2. ASSUME NEW answer \in Answered \ {"ok"}, Rollback(q, answer) PROVE Progress(q, x)'
  BY <1>2 DEF Rollback, Answered
<1>3. CASE WriteRow(q)
  BY <1>3 DEF WriteRow
<1>4. CASE CheckUnique(q) \/ RefuseStatus(q)
  BY <1>2, <1>4 DEF CheckUnique, RefuseStatus, Answered
<1>5. CASE AddUserRoles(q)
  BY <1>5 DEF AddUserRoles, RolesOf
<1>6. CASE CheckForeignKey(q)
  BY <1>6 DEF CheckForeignKey, RolesOf
<1>7. CASE RemoveUserRoles(q)
  BY <1>7 DEF RemoveUserRoles, RolesOf
<1>8. CASE Removing(q)
  BY <1>8 DEF Removing, RolesOf
<1>9. CASE Commit(q)
  BY <1>9 DEF Commit, RolesOf
<1>10. CASE Reply(q)
  BY <1>10 DEF Reply, RolesOf
<1>11. CASE DeadlockVictim(q)
  BY <1>2, <1>11 DEF DeadlockVictim, Answered
<1> QED
  BY <1>1, <1>3, <1>4, <1>5, <1>6, <1>7, <1>8, <1>9, <1>10, <1>11 DEF Step

\* Every step keeps what has been done about roles, or overtakes it.
LEMMA RolesSoFarNext == TypeOK /\ Targeted /\ RolesInv /\ [Next]_vars => RolesSoFar'
<1> SUFFICES ASSUME TypeOK, Targeted, RolesInv, [Next]_vars,
                    NEW q \in Request, NEW x \in fields'[q].add \cup fields'[q].remove
             PROVE  Overtook(q, x)' \/ Progress(q, x)'
  BY DEF RolesSoFar
<1>1. CASE pc'[q] \in {"idle", "find_user", "begin", "write_row", "check_unique", "add_roles"} \cup
                      (Answered \ {"ok"})
  BY <1>1 DEF Progress, Answered
<1>2. CASE pc[q] = "idle"
  <2>1. pc'[q] \in {"idle", "find_user", "begin"}
    <3>1. ASSUME NEW r \in Request, NEW u, NEW f, NEW step \in {"find_user", "begin"},
                 Begin(r, u, f, step)
          PROVE  pc'[q] \in {"idle", "find_user", "begin"}
      BY <1>2, <3>1 DEF Begin, Goto, TypeOK
    <3>2. ASSUME NEW r \in Request, Step(r) \/ Abort(r) PROVE pc'[q] = "idle"
      <4>1. pc[r] # "idle"
        BY <3>2, DeadlockedWaits
           DEF Step, Abort, RequireUser, BeginTx, RefuseStatus, WriteRow, CheckUnique, AddUserRoles,
               CheckForeignKey, RemoveUserRoles, Removing, Commit, Reply, DeadlockVictim, Unblocked,
               Blockers, InFlight, TxSteps, AfterWrite
      <4>2. \E step : Goto(r, step)
        BY <3>2
           DEF Step, Abort, RequireUser, BeginTx, RefuseStatus, WriteRow, CheckUnique, AddUserRoles,
               CheckForeignKey, RemoveUserRoles, Removing, Commit, Reply, DeadlockVictim, Rollback
      <4> QED
        BY <1>2, <4>1, <4>2 DEF Goto, TypeOK
    <3>3. CASE UNCHANGED vars
      BY <1>2, <3>3 DEF vars
    <3> QED
      BY <3>1, <3>2, <3>3, Beginnings DEF Next, Request
  <2> QED
    BY <1>1, <2>1
<1>3. CASE pc[q] # "idle"
  <2>1. UNCHANGED <<target[q], fields[q]>> /\ x \in fields[q].add \cup fields[q].remove /\ x \in Role
    BY <1>3, InputStays DEF TypeOK, Fields
  <2>2. Overtook(q, x) \/ Progress(q, x)
    BY <2>1 DEF RolesInv, RolesSoFar
  <2>3. CASE Overtook(q, x)
    BY <1>3, <2>3, OvertookStays
  <2> SUFFICES ASSUME Progress(q, x) PROVE Overtook(q, x)' \/ Progress(q, x)'
    BY <2>2, <2>3
  <2>4. ASSUME UNCHANGED <<roles, pc[q], ins[q], del[q], seen[q]>> PROVE Progress(q, x)'
    BY <2>1, <2>4, ProgressKept DEF RolesOf
  <2>5. CASE UNCHANGED vars
    BY <2>4, <2>5 DEF vars, table, tx
  <2>6. ASSUME NEW r \in Request, NEW u, NEW f, NEW step, Begin(r, u, f, step)
        PROVE  Progress(q, x)'
    <3>1. r # q
      BY <1>3, <2>6 DEF Begin
    <3> QED
      BY <2>4, <2>6, <3>1 DEF Begin, Goto, TypeOK, table, tx
  <2>7. ASSUME NEW r \in Request, Step(r) \/ Abort(r), r # q
        PROVE  Overtook(q, x)' \/ Progress(q, x)'
    <3>1. CASE Commit(r)
      BY <1>3, <2>1, <2>7, <3>1, CommitDisturbs, ProgressKept DEF RolesInv
    <3>2. CASE ~Commit(r)
      BY <2>4, <2>7, <3>2
         DEF Step, Abort, RequireUser, BeginTx, RefuseStatus, WriteRow, CheckUnique, AddUserRoles,
             CheckForeignKey, RemoveUserRoles, Removing, Reply, DeadlockVictim, Rollback, EndTx,
             Goto, TypeOK, table, tx
    <3> QED
      BY <3>1, <3>2
  <2>8. CASE Step(q)
    BY <2>1, <2>8, OwnProgress DEF RolesInv
  <2>9. CASE Abort(q)
    <3>1. pc'[q] = "error"
      BY <2>9 DEF Abort, Rollback, Goto, TypeOK
    <3> QED
      BY <1>1, <3>1 DEF Answered
  <2> QED
    BY <2>5, <2>6, <2>7, <2>8, <2>9, Beginnings DEF Next, Request
<1> QED
  BY <1>2, <1>3

------------------------------------------------------------------------------
(* Deadlocks *)

\* r waits for t, directly or through others.
WaitsFor(r, t) ==
    \A waited \in SUBSET Request :
        Blockers(r) \subseteq waited /\ (\A s \in waited : Blockers(s) \subseteq waited) => t \in waited

\* Waiting is transitive, and begins with the requests that block.
LEMMA Waiting ==
    /\ \A r \in Request : Blockers(r) \subseteq Request
    /\ \A r, t \in Request : t \in Blockers(r) => WaitsFor(r, t)
    /\ \A r, t, u \in Request : WaitsFor(r, t) /\ WaitsFor(t, u) => WaitsFor(r, u)
    /\ \A r, t, u \in Request : WaitsFor(r, t) /\ u \in Blockers(t) => WaitsFor(r, u)
<1>1. \A r \in Request : Blockers(r) \subseteq Request
  BY DEF Blockers, RowWriters, KeyShares, Claimants, Others, OpenTx
<1>2. \A r, t, u \in Request : WaitsFor(r, t) /\ WaitsFor(t, u) => WaitsFor(r, u)
  BY DEF WaitsFor
<1> QED
  BY <1>1, <1>2 DEF WaitsFor

\* A request in a cycle of waits has a blocker that is in one.
LEMMA NextInCycle ==
    ASSUME NEW r \in Request, Deadlocked(r)
    PROVE  \E s \in Blockers(r) : Deadlocked(s)
<1> DEFINE reach == {t \in Request : \E s \in Blockers(r) : t = s \/ WaitsFor(s, t)}
<1>1. Blockers(r) \subseteq reach
  BY Waiting
<1>2. ASSUME NEW t \in reach PROVE Blockers(t) \subseteq reach
  <2>1. PICK s \in Blockers(r) : t = s \/ WaitsFor(s, t)
    BY <1>2
  <2> QED
    BY <2>1, Waiting
<1>3. r \in reach
  BY <1>1, <1>2 DEF Deadlocked
<1>4. PICK s \in Blockers(r) : r = s \/ WaitsFor(s, r)
  BY <1>3
<1>5. s \in Request /\ WaitsFor(r, s)
  BY <1>4, Waiting
<1>6. WaitsFor(s, s)
  BY <1>4, <1>5, Waiting
<1> QED
  BY <1>4, <1>6 DEF WaitsFor, Deadlocked

\* ... and blocks one that is in one.
LEMMA PrevInCycle ==
    ASSUME NEW r \in Request, Deadlocked(r)
    PROVE  \E p \in Request : r \in Blockers(p) /\ Deadlocked(p)
<1> DEFINE reach == {t \in Request : WaitsFor(r, t)} \ {r}
<1>1. CASE r \in Blockers(r)
  BY <1>1
<1>2. CASE r \notin Blockers(r)
  <2>1. Blockers(r) \subseteq reach
    BY <1>2, Waiting
  <2>2. PICK t \in reach : ~(Blockers(t) \subseteq reach)
    BY <2>1 DEF Deadlocked
  <2>3. r \in Blockers(t)
    BY <2>2, Waiting
  <2>4. WaitsFor(t, t)
    BY <2>2, <2>3, Waiting
  <2> QED
    BY <2>3, <2>4 DEF WaitsFor, Deadlocked
<1> QED
  BY <1>1, <1>2

\* Only a transaction that has written something makes another wait, ...
LEMMA BlockersHaveWritten ==
    ASSUME OwnRows, NEW r \in Request, NEW s \in Blockers(r)
    PROVE  s \in Request /\ pc[s] \in AfterWrite
BY DEF Blockers, RowWriters, KeyShares, Claimants, Others, OpenTx, OwnRows, AfterWrite

\* ... so a request in a cycle of waits has written its row.
LEMMA DeadlockedHaveWritten ==
    ASSUME OwnRows, NEW r \in Request, Deadlocked(r)
    PROVE  pc[r] \in {"check_unique", "add_roles", "check_fk", "removing"}
<1>1. pc[r] \in AfterWrite
  BY PrevInCycle, BlockersHaveWritten
<1>2. Blockers(r) # {}
  BY DeadlockedWaits
<1> QED
  BY <1>1, <1>2 DEF Blockers, AfterWrite

\* A cycle of waits leads through one for an address or for a row whose address changes: those
\* for rows of user_has_roles end at a transaction that can commit.
LEMMA CyclesChangeKeys ==
    TypeOK /\ Targeted /\ UniqueEmails /\ OwnRows => DeadlocksChangeAddresses
<1> SUFFICES ASSUME TypeOK, Targeted, UniqueEmails, OwnRows, NEW r \in Request, Deadlocked(r)
             PROVE  \E s \in Request : Deadlocked(s) /\ ChangesKey(s) /\ pc[s] \in AfterWrite
  BY DEF DeadlocksChangeAddresses
<1>1. ASSUME NEW q \in Request, Deadlocked(q), pc[q] = "check_fk"
      PROVE  \E s \in Request : Deadlocked(s) /\ ChangesKey(s) /\ pc[s] \in AfterWrite
  BY <1>1, NextInCycle, BlockersHaveWritten DEF Blockers
<1>2. ASSUME NEW q \in Request, Deadlocked(q), pc[q] = "removing" PROVE FALSE
  <2>1. PICK s \in Blockers(q) : Deadlocked(s)
    BY <1>2, NextInCycle
  <2>2. s \in Request /\ del[s] # {}
    BY <1>2, <2>1 DEF Blockers, Others, OpenTx
  <2>3. pc[s] = "commit"
    BY <2>2 DEF OwnRows
  <2> QED
    BY <2>1, <2>2, <2>3, DeadlockedHaveWritten
<1>3. CASE pc[r] = "check_unique"
  <2>1. PICK s \in Blockers(r) : Deadlocked(s)
    BY NextInCycle
  <2>2. s \in Request /\ pc[s] \in AfterWrite
    BY <2>1, BlockersHaveWritten
  <2>3. target[r] \in User /\ target[s] \in User
    BY <1>3, <2>2 DEF Targeted, TxSteps, AfterWrite
  <2>4. fields[r].email # None /\ s \in Claimants(fields[r].email) /\ target[s] # target[r]
    BY <1>3, <2>1 DEF Blockers
  <2>5. email[target[s]] = fields[r].email \/ fields[s].email = fields[r].email
    BY <2>4 DEF Claimants, RowWriters
  <2>6. ChangesKey(r) \/ ChangesKey(s)
    BY <2>3, <2>4, <2>5 DEF ChangesKey, UniqueEmails
  <2> QED
    BY <1>3, <2>1, <2>2, <2>6 DEF AfterWrite
<1>4. CASE pc[r] = "add_roles"
  <2>1. PICK s \in Blockers(r) : Deadlocked(s)
    BY NextInCycle
  <2>2. s \in Request /\ ins[s] \cup del[s] # {}
    BY <1>4, <2>1 DEF Blockers, Others, OpenTx
  <2>3. pc[s] \in {"check_fk", "remove_roles", "removing", "commit"}
    BY <2>2 DEF OwnRows
  <2> QED
    BY <1>1, <1>2, <2>1, <2>2, <2>3, DeadlockedHaveWritten
<1> QED
  BY <1>1, <1>2, <1>3, <1>4, DeadlockedHaveWritten

------------------------------------------------------------------------------
(* Progress *)

\* The next statement of r need not wait: for a connection, if it has none, or for a transaction.
GoesOn(r) ==
    \/ pc[r] \in {"find_user", "begin"} /\ FreeConnection
    \/ pc[r] \in TxSteps /\ Blockers(r) = {}
    \/ pc[r] = "reply"

\* However few the connections: as long as a request is in flight, one goes on, unless requests
\* that change addresses are in a deadlock.
SomeoneGoesOn ==
    (\E r \in Request : pc[r] \in InFlight) =>
        \/ \E r \in Request : GoesOn(r)
        \/ \E r \in Request : Deadlocked(r) /\ ChangesKey(r) /\ pc[r] \in AfterWrite

Reach(r) == {t \in Request : WaitsFor(r, t)}

\* If every open transaction waits, some wait for themselves: the one that waits for the fewest.
LEMMA WaitsInCircles ==
    ASSUME IsFiniteSet(Request), OpenTx # {}, \A r \in OpenTx : Blockers(r) # {}
    PROVE  \E r \in Request : Deadlocked(r)
<1> DEFINE reaches == {Reach(r) : r \in OpenTx}
<1>1. IsWellFoundedOn(StrictSubsetOrdering(Request), SUBSET Request)
  BY FS_FiniteSubsetsOfFinite, FS_StrictSubsetOrderingWellFounded
<1>2. reaches \subseteq SUBSET Request /\ reaches # {}
  BY DEF Reach
<1>3. PICK least \in reaches : \A y \in reaches : <<y, least>> \notin StrictSubsetOrdering(Request)
  <2> HIDE DEF reaches
  <2> QED
    BY <1>1, <1>2, WFMin
<1>4. PICK r \in OpenTx : least = Reach(r)
  BY <1>3
<1>5. PICK s \in Blockers(r) : TRUE
  BY <1>4
<1>6. s \in OpenTx /\ s \in Request /\ r \in Request
  BY <1>5 DEF Blockers, RowWriters, KeyShares, Claimants, Others, OpenTx
<1>7. WaitsFor(r, s) /\ Reach(s) \subseteq Reach(r)
  BY <1>5, <1>6, Waiting DEF Reach
<1>8. Reach(s) = Reach(r)
  BY <1>2, <1>3, <1>4, <1>6, <1>7 DEF StrictSubsetOrdering
<1>9. WaitsFor(s, s)
  BY <1>6, <1>7, <1>8 DEF Reach
<1> QED
  BY <1>6, <1>9 DEF WaitsFor, Deadlocked

------------------------------------------------------------------------------
(* The theorems *)

\* The inductive invariant holds in every reachable state: what requests know of their
\* users, and which addresses are taken.
THEOREM Invariant == Spec => []IInv
<1>1. IInv /\ [Next]_vars => IInv'
  BY TypeNext, KnowledgeNext, FoundNext, ClaimedNext DEF IInv
<1> QED
  BY InitIInv, <1>1, PTL DEF Spec

\* What has been done about roles, and by whom, from the first request on.
THEOREM RolesInvariant == Spec => []RolesInv
<1>1. Init => RolesInv
  BY DEF Init, RolesInv, OwnRows, EarlierAreOver, RolesSoFar
<1>2. IInv /\ RolesInv /\ [Next]_vars => RolesInv'
  BY OwnRowsNext, RolesSoFarNext DEF RolesInv, IInv
<1> QED
  BY <1>1, <1>2, Invariant, PTL DEF Spec

\* Types hold in every reachable state; only statuses that are one are ever written.
THEOREM TypeCorrect == Spec => []TypeOK
BY Invariant, PTL DEF IInv

\* No two users have one address, however many transactions claim it at once.
THEOREM EmailsAreUnique == Spec => []UniqueEmails
BY Invariant, PTL DEF IInv

\* The row a request found before its transaction is there until it is answered.
THEOREM FoundUsersAreThere == Spec => []FoundUsersStay
BY Invariant, PTL DEF IInv

\* Whatever a transaction wrote is seen at its commit, together, and nothing else is.
THEOREM TransactionsAreWhole == Spec => CommitsAreWhole
<1>1. TypeOK /\ Targeted /\ [Next]_vars
         => [table' # table => \E r \in Request : CommitsWhole(r)]_vars
  BY WholeNext
<1> QED
  BY <1>1, Invariant, PTL DEF Spec, IInv, CommitsAreWhole

\* A request that was answered with success has done what it asked for about roles, unless one
\* that it overlapped, or a later one, is about the same role of the same user.
THEOREM RolesTakeEffect == Spec => []RoleChangesTakeEffect
<1>1. RolesSoFar => RoleChangesTakeEffect
  <2> SUFFICES ASSUME RolesSoFar, NEW q \in Request, pc[q] \in {"reply", "ok"},
                      NEW x \in fields[q].add \cup fields[q].remove
               PROVE  \/ \E r \in Request : Undoes(r, q, x)
                      \/ x \in RolesOf(target[q]) <=> x \notin fields[q].remove
    BY DEF RoleChangesTakeEffect
  <2> QED
    BY DEF RolesSoFar, Overtook, Undoes, Progress
<1> QED
  BY <1>1, RolesInvariant, PTL DEF RolesInv

\* Whoever is in a deadlock shares it with a request that changes an address: requests that only
\* change roles and statuses never end in one among themselves.
THEOREM DeadlocksAreAboutAddresses == Spec => []DeadlocksChangeAddresses
BY CyclesChangeKeys, Invariant, RolesInvariant, PTL DEF IInv, RolesInv

\* Requests never all wait for one another, nor for a connection, as long as none of them changes
\* an address: nobody waits for a connection while holding one, and role changes do not deadlock.
THEOREM NobodyIsStuck ==
    ASSUME IsFiniteSet(Request)
    PROVE  Spec => []SomeoneGoesOn
<1>1. DeadlocksChangeAddresses => SomeoneGoesOn
  <2> SUFFICES ASSUME DeadlocksChangeAddresses, NEW r \in Request, pc[r] \in InFlight,
                      \A q \in Request : ~GoesOn(q)
               PROVE  \E q \in Request : Deadlocked(q)
    BY DEF SomeoneGoesOn, DeadlocksChangeAddresses
  <2>1. \A q \in OpenTx : Blockers(q) # {}
    BY DEF GoesOn, OpenTx
  <2>2. OpenTx # {}
    <3> SUFFICES ASSUME OpenTx = {} PROVE FALSE
      OBVIOUS
    <3>1. pc[r] \in {"find_user", "begin"}
      BY DEF GoesOn, OpenTx, InFlight
    <3>2. FreeConnection
      BY FS_EmptySet, ConstantsAssumption DEF FreeConnection
    <3> QED
      BY <3>1, <3>2 DEF GoesOn
  <2> QED
    BY <2>1, <2>2, WaitsInCircles
<1> QED
  BY <1>1, DeadlocksAreAboutAddresses, PTL
==============================================================================
