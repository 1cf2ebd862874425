# Verification of api_starter

TLA+ models of the program in `src/`, what TLC checks of them on small instances and what
TLAPS proves of them for every instance.

## 1. The system

One process: an axum server on a tokio runtime, a pool of PostgreSQL connections, an SMTP
mailer. Several replicas may share one database. There is no in-memory state that two
requests share: **all shared state is in PostgreSQL**, and a request keeps what it has read
in local variables across `.await`s. So what can go wrong is in the order in which the
statements of different requests reach the database, and in what a request has already done
when one of its statements fails or its future is dropped.

| component | source | state it keeps | operations | what is hard | what makes it correct |
|---|---|---|---|---|---|
| Password recovery and reset | `package/auth/service.rs`, `store.rs` | `iam.password_resets`, `iam.users.password`, the mails | `password_recovery`, `reset_password` | every statement in autocommit; check of a token and its consumption apart; two clocks; mail may fail either way | only the holder of the address's mail sets the password, links replace one another, links are consumed and stay live until then |
| Login, refresh, identity | `package/auth/service.rs`, `package/jwt` | none (the tokens) | `generate_token`, `refresh_token`, `get_identity` | tokens outlive what they were issued for; access and refresh tokens are alike; status not consulted | every session goes back to a login with the password, and ends when it is left alone |
| Users | `module/iam/core/service/user.rs`, `adapter/repository/user.rs`, `adapter/handler/user.rs` | `iam.users`, `iam.user_has_roles` | `create`, `partial_update`, `delete` (soft), `index`, `find_by_id` | lookup outside the transaction; READ COMMITTED; locks, unique index, foreign key, deadlocks; the pool | addresses unique, transactions whole, role changes effective, every request answered |
| Permissions | `module/iam/**/permission.rs` | seeded tables | `index` | one SELECT of a table the program never writes | – |
| RBAC engine | `package/rbac/engine.rs`, `store.rs` | reads `user_has_roles`, `role_has_permissions` | `can`, `can_any` | two queries in one decision, either may fail, roles change between them | a grant that some moment justified; no refusal of who holds the right throughout |
| Authentication, authorization | `server/middlewares/` | the identity in the request | `authenticate`, `rbac_guard` | roles change between layers and handler | no handler without both |
| Pool and transactions | `database/mod.rs` | connections | `begin`, commit, drop | exhaustion, `acquire_timeout` | nobody waits for a connection while holding one |
| Migrations | `database/migrations.rs`, `main.rs` | `_sqlx_migrations`, an advisory lock | `migrate`, `migrate_module` | replicas of several releases starting together, crash between modules | each migration once, in order; nobody serves before its own are there |
| Pagination | `package/pagination.rs`, `PgUserRepository::index` | none | `from_query`, `normalize`, `offset`, `Data::new` | `i64` boundaries, count and page read apart, rows that move between pages | links lead to pages with rows, a walk ends, and what it can miss |
| Validation, errors, responses | `package/validation.rs`, `extract.rs`, `errdef.rs`, `response.rs` | none | extractors, two password policies, the mapping to HTTP | policies that drift apart; a cause in a message | no weak password is written by any way; one envelope; no internals shown |
| Configuration | `config/`, `package/env.rs` | `AppConfig` | `load` | a default that hides a typing error | what is given is what runs, or nothing runs |
| Bootstrap, server, shutdown, health | `main.rs`, `provider/`, `server/`, `module/health` | the requests in flight | commands, bind, serve, drain, probe | signals and crashes at any point, the database away | a shutdown ends while requests go on arriving, a probe is answered |
| Mailer, logger, masking, docs pages | `package/`, `server/docs.rs` | – | – | – | – |

Requests reach a handler through `authenticate` (which calls the auth service, which queries
`iam.users`), then `rbac_guard` (which calls the engine, which queries the role tables), then
a service, then its repository on the pool or on a transaction. The user service writes what
the auth service and the engine read; they meet only in the tables.

`PROJECT.json` lists the same components with their status, and the hazards line by line.

## 2. The modules

| module | what it is |
|---|---|
| `PasswordReset` | the two operations of the forgotten-password flow, one action per statement |
| `MCPasswordReset` | its symmetry, for TLC |
| `ResetContract` | the abstract specification: what the API's documentation promises, one atomic step per promise |
| `SerialReset` | `PasswordReset` restricted to requests that take turns, and the refinement mapping to `ResetContract` |
| `PasswordResetProofs`, `SerialResetProofs` | theorems about them |
| `UserService` | `create`, `partial_update`, `delete` as concurrent READ COMMITTED transactions |
| `MCUserService` | its symmetry, for TLC |
| `UserServiceProofs` | theorems about it |
| `Gate` | the abstract specification of a permission check: admitted in one step, at a moment the caller holds the right |
| `Access` | login, refresh, `authenticate`, `rbac_guard` and the engine, query by query; the refinement mapping to `Gate` |
| `MCAccess`, `AccessProofs` | its instance for TLC, theorems about it |
| `Listing` | pagination, the queries of `index`, and a client that walks through the pages |
| `MCListing`, `ListingProofs` | its instance for TLC, theorems about it |
| `Deployment` | processes from `main` to their end: configuration, migrations, serving, shutdown, crashes |
| `MCDeployment`, `DeploymentProofs` | its instance for TLC, theorems about it |
| `Payloads` | a request with a body from authentication to the envelope of its answer |
| `MCPayloads`, `PayloadsProofs` | its module for TLC, theorems about it |

The definitions named "Mutant" in the comments are not part of the models. Each is a way the
code could plausibly be wrong (a dropped WHERE, a statement on the wrong connection), and
shows that a property would notice: with the mutant in place of the definition after it, TLC
finds the property violated.

### PasswordReset

A request is an element of `Recovery` or `Reset`; `pc[r]` is the statement its handler is
suspended at. The actions are the `.await`s of `AuthService`, in their order:

| code (`service.rs`) | action |
|---|---|
| `password_recovery`: `find_user_by_email`, 404 if none | `FindUser` |
| `delete_password_reset` | `DeletePending` |
| `create_password_reset` | `Insert` |
| `mailer.send` | `SendMail` |
| `reset_password`: `find_password_by_token`, 400 if none | `FindToken` |
| `created_at + TTL < Utc::now()`, 400 if so | `CheckAge` |
| `reset_password` (the UPDATE by email) | `UpdatePassword` |
| `delete_password_reset` | `DeleteUsed` |
| `?` on any of them; the client hangs up; the process stops | `Abort` |
| `PATCH /v1/users/{id}` with an email, a password or both | `PatchUser` |

`table` is the database, `locals` the variables of the handlers. `admitted_at` and `earlier`
are history variables: nothing reads them but the properties (`earlier` holds the requests that
were over, however they were answered, when this one began). `pc = "reply"` stands between
the last statement and the answer, so an `Abort` there is an answer that was lost.

Abstractions. A token is 32 random bytes, mailed raw and stored hashed: the model names it by
the recovery request that drew it, and a reset only presents tokens that were mailed. (A
token that was never issued takes the branch where the lookup finds no row, which consumed
and replaced tokens take as well.) A password is the request that chose it; `None` is one
that no reset chose. Payloads have passed validation. `find_user_by_email` reads the roles
with a second query, whose failure is an `Abort`. `resets` is a set although the table has
no unique constraint: two rows always differ in their token.

### SerialReset and ResetContract

The documentation speaks of password resets as if they were atomic: one pending request per
address, a second request replaces the first, a token is consumed on use. `ResetContract`
says that, and `PasswordReset` does **not** implement it: the runs `reset_one_pending` and
`reset_single_use` are the counterexamples. `SerialReset` states under which two conditions
it does:

* `OneAtATime`: requests about one address do not overlap (about different ones they do), and
* `ConsumeDoesNotFail`: no reset fails between its UPDATE and its DELETE.

The code ensures neither. Both are environment assumptions of the refinement, and each is
needed: without the first the runs above apply; without the second a token is redeemed and
still pending. Failures everywhere else, expiry and administrator updates are allowed. The
mapping takes the token of a reset that has updated the password as already consumed, and
counts as `used` the tokens past their INSERT, and those of recoveries that ended before it.

### UserService

A request reads the user (`RequireUser`, on a connection that it gives back), begins a
transaction (`BeginTx`), and then goes through the statements of the repository:

| code | actions |
|---|---|
| `repository.create` / `partial_update` / `delete`: INSERT or UPDATE on `iam.users` | `RefuseStatus`, `WriteRow` (row lock), `CheckUnique` (unique index) |
| `add_user_roles`: `INSERT ... ON CONFLICT DO NOTHING` | `AddUserRoles`, `CheckForeignKey` |
| `remove_user_roles`: `DELETE` | `RemoveUserRoles` (snapshot), `Removing` (row locks) |
| `tx.commit()` | `Commit`, `Reply` |
| `?`, a dropped `Transaction`, `acquire_timeout`, a lost answer | `Abort` |

Statements that PostgreSQL can suspend in the middle are split where it waits. What a
statement waits for is `Blockers`, which models the database (it is marked external in
`PROJECT.json`): row locks; the lock an UPDATE of a key column takes, which conflicts with
the `FOR KEY SHARE` of a foreign key check; a unique index entry of an uncommitted row; an
uncommitted insertion or deletion of the same row of `user_has_roles`. `DeadlockVictim` is
the database's deadlock detection: it fails a request that is `Deadlocked`, one that is in every set
of requests that holds its blockers and theirs. `table` is the committed database; `ins`, `del` and the
payload are what an open transaction has written.

Abstractions. `email` stands for the columns that are UNIQUE, `status` for those that are
not. Unknown role names match no row of `iam.roles` and are left out. A statement takes all
its rows of `user_has_roles` at once: the statements visit the roles in one order, so taking
them one by one adds no deadlock among role statements. Password hashing and validation
happen before the transaction and touch no state. `patch_my_user` is a patch with fewer
fields. Nothing in the program removes a row of `iam.users`.

### Access and Gate

`Login`, `Refresh` and `Call` are requests to `/v1/login`, `/v1/refresh-token` and to the
routes behind `authenticate`; `pc[r]` is the query a request waits for. What the code computes
between two queries belongs to the step of the query before.

| code | action |
|---|---|
| `login`; `refresh_token`, `get_identity`: `user_id_from`, which does not tell the two kinds of tokens apart | `BeginLogin`, `BeginRefresh`, `BeginCall`, `Reject` |
| `PostgresAuthStore`: the row, then `get_user_roles` (`enrich`) | `FindUser`, then the next three |
| `generate_token`: compare the password with the hash read before, `generate_tokens` | `FinishLogin` |
| `refresh_token`: `generate_tokens` | `FinishRefresh` |
| `authenticate` hands the identity on | `Identify` |
| `RbacEngine::role_bypass` | `RoleBypass` |
| `can`: `has_permission`; `can_any`: `get_permissions` | `HasPermission`, `GetPermissions` |
| the handler | `Handle` |
| a query that fails, and what `role_bypass`, `can`, `can_any`, `authenticate` make of it | `Fail`, `AfterFailure` |
| commits of other requests: roles, passwords | `ChangeRoles`, `ChangePassword` |

`right`, `always`, `broke` and `issued` are history. `Gate` says what a permission check
promises; `DecidesAtOneMoment` is the refinement. It holds although the decision is made by
two queries between which roles may change, because each query admits by itself and on what
it reads. What the code does not promise, and the model shows, is the other direction: a
caller who holds the right by the super role before and by another role after the two queries
may be refused. `EntitledAreAdmitted` is what remains of it: who holds the right at every
moment, by whatever role, is refused only if the identity or the deciding query failed. It
needs `SeedAssumption`, that the super role also has every permission by the tables (the seed
migration grants them); without it, a failing role query refuses an administrator.

Abstractions. A token is the user and the expiry, because these are what the signature
protects and what is read back; its `roles` claim is read by nothing. Signing and hashing
are not computed. Users are never removed and their status is not looked at, as in the code.

### Listing

One client asks for a page of `GET /v1/users`, reads it, and follows `next_page` until there
is none, while other requests insert, rename, delete and restore users.

| code | definition |
|---|---|
| `ListRequest::from_query`, `normalize` | `Begin`, `Normalize` |
| `offset`; `Data::new` | `Offset`; `TotalPages`, `NextPage`, `PreviousPage`, `Pagination` |
| `push_filters`, `sort_column`, `sort_order` | `Listed`, `SortColumn`, `Precedes` |
| `index`: the count; the page; the roles of each row | `Count`; `ReadPage`; `Answer` |
| a query that fails, a negative OFFSET among them | `Fail` |
| `create`, `partial_update`, `delete` of other requests, when they commit | `Insert`, `Rename`, `SetStatus` |

Integers wrap (`Wrap`) at a `MaxInt` that stands for `i64::MAX`: `Cargo.toml` sets no
`overflow-checks`, so a release build wraps where a debug build panics. Rows with equal sort
columns come in any order, and another one each time (`Orderings`). `walk` remembers, for the
properties, who was listed at every moment at a place of his own in the order, whom the
client has seen, and who was moved by a row that came or went ahead of him.

### Deployment

`pc[r]` is where a process stands between `main` and its end.

| code | action |
|---|---|
| `AppConfig::load` over `dotenvy` and `package/env` | `LoadConfig` (`Given`, `Parses`, `Loads`, `Load`) |
| the command, the logger | `Dispatch` |
| `Database::connect`, `Provider::inject_default`, `migrate_module` of an unknown module | `Connect` |
| `Database::migrate` and `migrate_with`, over `Migrator::run`: lock, list, apply one by one, unlock | `Lock`, `List`, `Apply`, `Unlock` |
| `server migrate` returns; `TcpListener::bind` | `Exit`; `Bind` |
| `axum::serve`: accept, answer; the healthcheck | `Accept`, `AnswerQuery`, `RefuseQuery`; `Healthcheck` |
| `shutdown_signal`, `with_graceful_shutdown` | `ShutdownSignal`, `Shutdown` |
| the process is killed; a start fails for reasons of its own | `Crash`; `Fail` |

A process is started as an element of `Launch`: a release (with its registry of modules and
versions), a command, and two environments. The migrator is sqlx's and marked external; that
its lock is one for the whole database, lives as long as the connection and is taken anew
for every module is what makes replicas interleave. `IgnoreMissing` is the setting that lets
a release start on a database a later one has migrated. The program has one module and one
release at a time; `Registry` takes what `migrations.rs` is written for: several of both.

### Payloads

One request after another: `Authenticate`, `ReadPath`, `ReadBody`, `Validate` are the layers and
extractors in the order they run; `CheckPassword` is the check `partial_update` makes itself;
`Create`, `PartialUpdate` and `AuthService` are the services with any result their code has for the
fields they are given (`CreateErrors`, `UpdateErrors`, `AuthErrors`): a PATCH can only break the
constraint of a column that it sets. `Serve` is what the three have in common, down to the
acknowledgement of a COMMIT that is lost. `App`, `Validation`, `Unknown`, `WithCause`, `StatusFor` and
`Envelope` are `errdef`.

A password is the set of the rules it satisfies, so all passwords are there; a field is right or
wrong. Of `UpdateUser` the model has every column (the avatar and the names as one, `profile`, and the
roles to add and to remove as one, `roles`); `RestrictedToSelf` is what its handlers pass on of it. A
text of the code is its key, a word (`failed_payload_validation`); the texts of errors below (`Cause`) are
any others, so that `ConstantsAssumption` can tell where a text in an answer came from. `passwords` is what
the API has written so far, `written` what the PATCH in hand has changed.

The two policies, `strong_password` for payloads that derive `Validate` and
`password_checker` for the PATCH, are separate code; `PoliciesAgree` in `PayloadsProofs` says
that they accept the same passwords.

## 3. What TLC checks

| run | instance | properties | what it shows |
|---|---|---|---|
| `reset_safety` | 1 user, 2 addresses, 2 recoveries, 2 resets, TTL 0, skew 1, clock to 2 | `TypeOK`, `PasswordsAreAuthorised`, `SecondRequestReplacesFirst`, `SpentTokenIsRefused`, `UndisturbedLinkIsLive` | what does hold for every interleaving and failure |
| `reset_serial` | the same, no skew, clock to 1 | `KeepsContract` | the refinement of the documented contract |
| `reset_one_pending` | 2 recoveries | `OnePendingPerAddress` violated | both DELETE before either INSERTs |
| `reset_single_use` | 1 recovery, 2 resets | `TokenIsSingleUse` violated | both look the token up before either deletes it |
| `reset_success` | 1 recovery, 1 reset | `SuccessMeansChanged` violated | the address moved away: the UPDATE changes no row and 200 is answered |
| `user_addresses` | 2 users, 3 addresses, 1 role, 2 patches | `TypeOK`, `UniqueEmails`, `CommitsAreWhole` | swaps, claims of one address, rollbacks |
| `user_roles` | 1 user, 2 addresses, 2 roles, 2 patches | `RoleChangesTakeEffect`, `DeadlocksChangeAddresses` | what concurrent role changes amount to; which requests can deadlock |
| `user_requests` | 1 user, 2 addresses; a create, a patch, a delete; 2 connections | `FoundUsersStay`, `EveryRequestIsAnswered` | the stale lookup is harmless; nobody waits for ever |
| `access` | 2 users, 2 passwords, 2 roles, one action and one malformed; a login, a refresh, a call; lifetimes 1 and 2, clock to 3 | `TypeOK`, `SessionsAreEarned`, `EntitledAreAdmitted`, `IdleSessionsEnd`, `DecidesAtOneMoment` | whom a session is for and when it ends; two queries decide as one |
| `listing` | 3 users, 2 first names, pages 0, 3, 7, page sizes absent, 1, 3, integers of 4 bits, 2 commits | `TypeOK`, `WalkMissesNobody`, `WalkShowsNobodyTwice`, `LinksLeadToPages`, `LinksNeverOverflow`, `WalkEnds` | what a walk can miss or repeat, and that links are sound |
| `deployment` | 2 processes, 2 releases, 10 ways to start | `TypeOK`, `RunsAsConfigured`, `ServesMigrated`, `ReplicasStartTogether`, `AppliesInOrder`, `MigratingEnds`, `DrainingEnds`, `ProbesAreAnswered` | rolling releases, crashes and outages |
| `payloads` | all kinds, all sets of wrong fields and of columns, all 32 passwords, one cause | `TypeOK`, `PasswordsAreStrong`, `AnswersAreEnvelopes`, `CausesStayInside`, `OwnPatchIsRestricted` | what reaches the service and what reaches the client |

The three violations are disagreements between the code and its documentation, quoted under
`findings`.

**Bounds.** Two requests of a kind are what a race needs, and a third actor of another kind is
there in each run (the other operation, the administrator). In `reset_safety` the clock has
three values: a token is fresh (age 0), in the tolerance of the clocks (1) or too old (2).
One user with two addresses covers an address that moves to nobody and back; that it may
also move to another user changes whose password is set, not whether the reset was
authorised, and the theorems cover it. In `user_addresses` two users and three addresses allow
two patches to swap addresses, to claim the free one, and to move into the one the other
leaves; requests about one user meet in `user_roles`. With two roles a patch can add one and
remove the other while the other patch does the opposite.
Symmetry is used in the safety runs only: no definition tells two users, addresses, roles or
requests of a kind apart.

In `access` one login, one refresh and one call suffice for chains: the tokens of a login
are exchanged, and the call presents either those or the new ones. With lifetimes 1 and 2 and a
clock to 3 a token is presented before, at and after its expiry. Two users show that a session is
not taken for another's. Roles change any number of times, to any set, between any two queries.

In `listing` integers have four bits: page 7 is the largest, so that the next page and, at
three rows a page, the offset wrap. Pages 0 and 3 are below the first and beyond the last, the page
sizes absent and 3 are the default and the limit (the properties need no size above it: the
mutant of `Normalize` fails without one). Two commits let one row leave and another come in one
walk. Of the orders, one is `asc` and one is not known, which is `desc`.

In `deployment` the later release has a version between two of the earlier one's and a
module more; the ways to start include a blank value, a number out of range, a pool of none, a
missing secret, an unknown module and an unknown command. Processes start again any number of times.
One request of each kind, a probe and one that needs the database, is what shutdown and outages
tell apart.

**Deadlock checking** is off (`CHECK_DEADLOCK FALSE`) where the models stop: once all
requests are answered (in `UserService`, where requests wait for one another, that none is stuck is
what `EveryRequestIsAnswered` says; in `PasswordReset` nothing waits), and in
`listing` once the walk is over (`WalkEnds`). In `access`, `deployment` and `payloads`
something can always happen, and it is on.

**Fairness.** `PasswordReset` assumes none: its statements never wait for one another, so that they end is
no question. In `UserService`, weak fairness of each request's own steps (`Step(r)`): tokio polls
every ready task, and a statement that has not to wait ends.
Requests never begin of necessity, nothing is assumed of `Abort`, and `acquire_timeout` is not
needed. Fairness includes `DeadlockVictim`: PostgreSQL looks for
deadlocks after `deadlock_timeout`. Weak fairness of a wait for a connection is enough on
these instances because requests are finitely many; the pool's queue is not modelled. The
instance of `user_requests` reaches waits for rows and connections, not deadlocks; deadlocks
occur in the other two runs, where only safety is checked.

`listing`: `WF_vars(Request)`, the client's own queries and links; `WalkEnds` holds although the
other requests never stop, because their commits are bounded (`MaxChanges`) and links go forward.
`deployment`: weak fairness of what a process does by itself and of its answers; strong
fairness of `Lock`, because PostgreSQL grants an advisory lock in the order it was asked for,
so that a waiting replica is not passed over for ever while others come and go. Nothing is
assumed of `DatabaseAnswers`: what needs the database is promised under `<>[]up`, and the
probe without it. Nothing is assumed of signals, crashes or starts.

## 4. What TLAPS proves

For every value of the constants that satisfies the `ConstantsAssumption` of the module
(requests of different kinds are different, `None` is none of the values, numbers are
naturals):

| theorem | statement |
|---|---|
| `PasswordResetProofs!TypeCorrect` | `Spec => []TypeOK` |
| `ResetsAreAuthorised` | `Spec => []PasswordsAreAuthorised` |
| `SecondReplacesFirst` | `Spec => []SecondRequestReplacesFirst` |
| `SpentTokensAreRefused` | `Spec => []SpentTokenIsRefused` |
| `UndisturbedLinksAreLive` | `Spec => []UndisturbedLinkIsLive` |
| `SerialResetProofs!SerialImplementsContract` | `SerialSpec => KeepsContract` |
| `UserServiceProofs!TypeCorrect` | `Spec => []TypeOK` |
| `EmailsAreUnique` | `Spec => []UniqueEmails` |
| `FoundUsersAreThere` | `Spec => []FoundUsersStay` |
| `TransactionsAreWhole` | `Spec => CommitsAreWhole` |
| `RolesTakeEffect` | `Spec => []RoleChangesTakeEffect` |
| `DeadlocksAreAboutAddresses` | `Spec => []DeadlocksChangeAddresses` |
| `NobodyIsStuck` | `IsFiniteSet(Request)` gives `Spec => []SomeoneGoesOn` (defined with the proof) |
| `AccessProofs!TypeCorrect` | `Spec => []TypeOK` |
| `Earned` | `Spec => []SessionsAreEarned` |
| `Entitled` | `Spec => []EntitledAreAdmitted` |
| `IdleEnd` | `Spec => IdleSessionsEnd` |
| `DecidesOnce` | `Spec => DecidesAtOneMoment` (the refinement of `Gate`) |
| `ListingProofs!TypeCorrect` | `Spec => []TypeOK` |
| `LinksLead` | `Spec => []LinksLeadToPages` |
| `LinksFit` | `Spec => []LinksNeverOverflow` |
| `NobodyTwice` | `Spec => []WalkShowsNobodyTwice` |
| `NobodyMissed` | `Spec => []WalkMissesNobody` |
| `DeploymentProofs!TypeCorrect` | `Spec => []TypeOK` |
| `ConfiguredAsGiven` | `Spec => []RunsAsConfigured` |
| `Migrates` | `Spec => []ServesMigrated` |
| `StartTogether` | `Spec => []ReplicasStartTogether` |
| `InOrder` | `Spec => AppliesInOrder` |
| `PayloadsProofs!Strong` | `Spec => []PasswordsAreStrong` |
| `OwnPatch` | `Spec => []OwnPatchIsRestricted` |
| `PayloadsProofs!TypeCorrect` | `Spec => []TypeOK` |
| `Envelopes` | `Spec => []AnswersAreEnvelopes` |
| `CausesInside` | `Spec => []CausesStayInside` |

`Entitled` also uses `SeedAssumption`. `VersionsAssumption` of `Deployment` is not needed by any proof.

**PasswordReset.** The safety properties relate a reset to the recovery whose token it
presents, across requests that have long been answered, and none of them is inductive. `IInv`
adds what links them: a row carries the address and time of the recovery that inserted it, a
mail the address of its token; a reset in flight has a mailed token and, once it has found
the row, its address and time; a reset past the age check was admitted in time; the row a
spent token had is gone and cannot come back, since only its own recovery inserts it and that
one is over; and a row is live as long as nobody else is about its address. `InvNext` has one
case per action. The refinement needs `TurnInv` besides: under `OneAtATime` a recovery about
to insert finds no row for its address, and the row a reset has found is still there at its UPDATE.

**UserService.** `UniqueEmails` says nothing of what open transactions have written. `Claimed`
does: past its uniqueness check, a transaction's address is held by no other user and
claimed by no other transaction. Passing the check establishes it (the waits in `Blockers`
are used here, and only here), a commit turns the claim into a row. `FoundUsersStay` needs
that rows never go (`RowsStay`).

`RoleChangesTakeEffect` is about requests that have been answered; `RolesSoFar` says of those in flight
what each statement has achieved (`Progress`): after the INSERT the role is there or its own, at the
DELETE the row is found or there is none, at COMMIT it is deleted or there is none. Only another commit
can disturb this, by rows of the same user it has inserted or deleted (`CommitDisturbs`); the committer
is then one the property excuses, and stays so (`Overtook`, `OvertookStays`). Most of the work is
`OwnRows`: a transaction only holds rows it was asked for, each from its statement on.
`DeadlocksChangeAddresses` follows from that and `UniqueEmails`. A request in a cycle of waits has a blocker
and blocks another that are in one, too (`NextInCycle`, `PrevInCycle`, about the least set that `Deadlocked`
describes); so it has written its row, and waits for an index entry, a row lock or a row of
`user_has_roles`. Who waits for the last waits for a transaction that is about to commit, or one that waits
for a row whose address changes (`CyclesChangeKeys`).

`NobodyIsStuck` is the part of `EveryRequestIsAnswered` that is an invariant: while a request is in flight, one
need not wait, for a connection or for a transaction, unless requests that change addresses are in a deadlock.
It is for any number of connections, because nobody waits for one while holding another; and if
all open transactions wait, one that waits for the fewest waits for itself (`WaitsInCircles`).
`SomeoneGoesOn` is in `UserServiceProofs` and names guards, as the prover does not know ENABLED.

**Access.** `PasswordsRead` links a login in flight to the password of the moment, so that the
hash it has read makes it right even if the password has changed since. `ExpiriesAreRecent`
bounds every token by the last issue to its user; it is what makes an exchange extend a
session from now and not from its own expiry. `StillEntitled` says why a call that was entitled
throughout stands at its second query. The refinement proof maps `RoleBypass`, `HasPermission` and
`GetPermissions` to `Admit` or `Refuse`, commits to `RightsChange`, and everything else to a
stutter or `Arrive`.

**Listing.** `PagesHaveRows` is about `total_pages` for all integers: page `k + 1` is one of them exactly
if rows remain after `k` pages. With `WrapFits` it gives `NextPageHasRows`, and so `LinksLead`. That links do
not overflow needs more: which page was read says nothing of the total it will be compared with, so
`LinkedPagesFit` keeps, from the moment a link is followed, that its offset is an integer. It uses
`TableAssumption` (a table and a page together are shorter than `i64::MAX`).

What a walk shows and misses is a matter of counting. `PlaceInOrder`: a row at a place of its own
comes, in every order the database may choose, after exactly the rows ahead of it, `Place(u)` many (an injection of
`1 .. n` into the `n` rows is onto them); so a page shows just the rows whose places it covers (`RowsOfPage`).
`WalkInv` is then: who was seen has his place behind what the pages have covered, or was pushed
back; who was not has it before them, or was overtaken; at the page, everyone's place is below the
count, or he was moved after it. A commit moves a place only by rows that come or go ahead of it
(`DisturbedWalk`), and a walk that shows anybody ends long before the largest page (`NoWrap`), which a link
would lead back to the first.

**Deployment.** The invariant is per process: what is not left to do is in the ledger (`Left`),
and what its run found missing and has not applied is what is missing (`Missing`). The second is
disturbed by any other process that writes the ledger, and that none does while this one is
between `List` and `Unlock` is the lock (`Holds`, `OneAtATime`), which a process loses exactly
when it ends. `ConfiguredAsGiven` is local to a process.

**Payloads.** What is passed on for one's own PATCH is restricted, and past the stage of its check a
password satisfies a policy; the two policies accept the same passwords (`PoliciesAgree`). What is said
of answers rests on `AnswerKnown`: an answer is `Ok`, axum's rejection of a path, or the envelope of an
error that is `Sound`: a code and a text that errdef or a service has, the one text of an UNKNOWN
error, and, for one's own PATCH, nothing about a column that was dropped (`Restrained`; `UpdateErrorsSound`
is where it matters which columns reach the repository). `EnvelopeExplains` takes that to what the client
reads. The proofs about texts use nothing of the causes but that they are no texts of the code.

**Only model-checked**: the liveness properties (`EveryRequestIsAnswered`, `WalkEnds`, `MigratingEnds`,
`DrainingEnds`, `ProbesAreAnswered`), out of the prover's reach like ENABLED. Every invariant and action
property of the passing runs is a theorem. The three violations are counterexamples: TLC's.

## 5. What is not modelled

* PostgreSQL beyond the locks and visibility described above; sqlx's pool (its queue and its
  reconnecting) and migrator (checksums of migrations already applied); bcrypt, JWT signatures, SMTP.
* Permissions: one SELECT of tables that the program never writes.
* `find_by_id` answers with one row and its roles, read apart; no property is about that.
* Masking, log output, documentation pages, CORS, request ids, the URL built for the database and the
  text of mails: formatting, or no state.
* Which strings satisfy a rule of validation, a number's syntax, an email's: inputs of the models.
* The delay between a dropped `Transaction` and its ROLLBACK: the model rolls back at once.
* What the deployment's surroundings do besides starting and stopping processes (`docker-compose.yaml`,
  reverting migrations by hand).

**Where documents and code differ** without a run for it, because the difference is visible in
one place and needs no state space (where a property touches one of them, its comment says which side it
takes): the engine's refusal is a 401 where `src/server/openapi.yaml`
documents a 403; an outage of the database in `authenticate` is a 401, too. `error.code` is the
HTTP status, which `tests/auth_routes.rs` (51, 250) expects, where `openapi.yaml` (30, 41-50) lists codes from 1000
to 2000: `AnswersAreEnvelopes` says nothing of its value. A path segment that is no UUID
is refused by axum in plain text, outside the envelope. A duplicate user is a 422, documented as 409. One's
own PATCH keeps `department_id` and drops `email`, as Bruno's `Patch My User.bru` says and
`OwnPatchIsRestricted` with it; `openapi.yaml` (330-332 and `UpdateMyUser`) has it the other way round. A list without `order` is descending, documented
as ascending, and `sort_by=created_at` is not known. Page `i64::MAX` names a negative next page
in a release build.

## 6. Plan

Each module is written to be proved about (no RECURSIVE operators, one action per statement,
invariants as named conjuncts).

1. `PasswordReset`, `ResetContract`, `SerialReset`, with proofs. **Done.**
2. `UserService` with proofs, role changes and deadlocks among them. **Done.**
3. `Access` over `Gate`, with proofs (login and sessions were planned apart; they share the
   identity query and the clock). **Done.**
4. `Listing`, with proofs of its bounds and links for all integers, and of what a walk shows. **Done.**
5. `Deployment`, with proofs (planned as migrations only). **Done.**
6. `Payloads`, with proofs, of its answers too. **Done.**
