------------------------------- MODULE Access -------------------------------
(***************************************************************************)
(* From a password to a handler: login and refresh (AuthService over       *)
(* PostgresAuthStore, tokens of package/jwt), and the way of a request     *)
(* through authenticate and rbac_guard (RbacEngine over PostgresRbacStore) *)
(* to its handler.                                                         *)
(*                                                                         *)
(* Every query runs on the pool by itself, so commits of other requests    *)
(* (a role or a password changed) come between any two of them, and any    *)
(* may fail.  What a request computes between two awaits happens in the    *)
(* step of the query before.  A token is what its signature protects: the  *)
(* user and the expiry.  Its roles claim is left out: nothing reads it.    *)
(* The status of a user is left out too: no query here looks at it.        *)
(***************************************************************************)
EXTENDS Integers

CONSTANTS
    User, Password, Role,
    Action,          \* what a route may ask for, "Resource.Permission"
    Malformed,       \* actions without a separator
    SuperRole,       \* "Admin"
    RoleHas,         \* role_has_permissions: the actions of each role
    Login, Refresh,  \* requests to /v1/login and /v1/refresh-token
    Call,            \* requests to routes behind authenticate
    AccessTtl, RefreshTtl,
    MaxClock,        \* bound on the clock
    None

ASSUME ConstantsAssumption ==
    /\ Login \cap Refresh = {} /\ Login \cap Call = {} /\ Refresh \cap Call = {}
    /\ None \notin User \cup Password \cup Nat
    /\ SuperRole \in Role
    /\ RoleHas \in [Role -> SUBSET (Action \ Malformed)]
    /\ AccessTtl \in Nat /\ RefreshTtl \in Nat /\ MaxClock \in Nat

\* The migration that creates role_has_permissions gives the super role every permission.
ASSUME SeedAssumption == Action \ Malformed \subseteq RoleHas[SuperRole]

Request == Login \cup Refresh \cup Call
Token == [user : User, exp : Nat]

VARIABLES
    hasRole,   \* iam.user_has_roles, committed: pairs of a user and a role
    password,  \* the password iam.users.password is the hash of
    now,       \* Utc::now(), in seconds
    tokens,    \* the tokens given out
    pc,        \* the query each request stands at, or how it was answered
    who,       \* Login: the owner of the email; the others: the user_id of the token
    given,     \* Login: the password presented
    hash,      \* Login: the password whose hash it has read
    guard,     \* Call: which entry of the engine guards its route
    asks,      \* Call: the actions the route asks for
    right,     \* Login, history: what it presented was the password at some moment of it
    always,    \* Call, history: its caller held the right at every moment of it so far
    broke,     \* Call, history: the queries of it that failed
    issued     \* history: when a user was last given tokens; None: never

tables == <<hasRole, password>>
input == <<who, given, guard, asks>>
history == <<right, always, broke, issued>>
vars == <<tables, now, tokens, pc, input, hash, history>>

Goto(r, step) == pc' = [pc EXCEPT ![r] = step]
InFlight == {"find_user", "find_roles", "role_query", "permission_query", "handler"}
Answered == {"ok", "unauthorized", "unknown"}

RolesOf(u) == {x \in Role : <<u, x>> \in hasRole}

\* The join of permissions, role_has_permissions and user_has_roles.
Permissions(u) == {a \in Action : \E x \in RolesOf(u) : a \in RoleHas[x]}

\* What the two queries of the engine are meant to find out.
Holds(u, A) == SuperRole \in RolesOf(u) \/ A \cap Permissions(u) # {}

------------------------------------------------------------------------------
(* Tokens *)

\* Mutant: an expired token is accepted.
ValidateTokenUnexpired(t) == TRUE
\* jsonwebtoken refuses a token whose exp is before now: leeway is 0.
ValidateToken(t) == t.exp >= now

\* Mutant: the refresh token carries no expiry.
GenerateTokensForever(u) ==
    /\ tokens' = tokens \cup {[user |-> u, exp |-> now + AccessTtl], [user |-> u, exp |-> None]}
    /\ issued' = [issued EXCEPT ![u] = now]

\* The two kinds differ in nothing but their time to live.
GenerateTokens(u) ==
    /\ tokens' = tokens \cup {[user |-> u, exp |-> now + AccessTtl], [user |-> u, exp |-> now + RefreshTtl]}
    /\ issued' = [issued EXCEPT ![u] = now]

------------------------------------------------------------------------------
(* The requests begin. *)

BeginLogin(r) ==
    \E u \in User \cup {None}, p \in Password :
        /\ pc[r] = "idle"
        /\ Goto(r, "find_user")
        /\ who' = [who EXCEPT ![r] = u]
        /\ given' = [given EXCEPT ![r] = p]
        /\ right' = [right EXCEPT ![r] = u # None /\ password[u] = p]
        /\ UNCHANGED <<tables, now, tokens, hash, guard, asks, always, broke, issued>>

\* No token, one that is not a token of ours, or an expired one.
Reject(r) ==
    /\ r \in Refresh \cup Call /\ pc[r] = "idle"
    /\ Goto(r, "unauthorized")
    /\ UNCHANGED <<tables, now, tokens, input, hash, history>>

\* user_id_from: refresh_token and get_identity accept the same tokens.
BeginRefresh(r) ==
    \E t \in {t \in tokens : ValidateToken(t)} :
        /\ pc[r] = "idle"
        /\ Goto(r, "find_user")
        /\ who' = [who EXCEPT ![r] = t.user]
        /\ UNCHANGED <<tables, now, tokens, hash, given, guard, asks, history>>

\* The routes behind authenticate: most ask for nothing more, GET /v1/users asks can for
\* one action.  can_any is offered to routes that accept one of several.
BeginCall(c) ==
    \E t \in {t \in tokens : ValidateToken(t)}, g \in {"none", "can", "can_any"}, A \in SUBSET Action :
        /\ pc[c] = "idle"
        /\ g = "none" => A = {}
        /\ g = "can" => \E a \in Action : A = {a}
        /\ Goto(c, "find_user")
        /\ who' = [who EXCEPT ![c] = t.user]
        /\ guard' = [guard EXCEPT ![c] = g]
        /\ asks' = [asks EXCEPT ![c] = A]
        /\ always' = [always EXCEPT ![c] = Holds(t.user, A)]
        /\ UNCHANGED <<tables, now, tokens, hash, given, right, broke, issued>>

------------------------------------------------------------------------------
(* PostgresAuthStore: the row, then (enrich) the roles. *)

FindUser(r) ==
    /\ pc[r] = "find_user"
    /\ IF who[r] = None
       THEN Goto(r, "unauthorized") /\ UNCHANGED hash
       ELSE /\ Goto(r, "find_roles")
            /\ hash' = IF r \in Login THEN [hash EXCEPT ![r] = password[who[r]]] ELSE hash
    /\ UNCHANGED <<tables, now, tokens, input, history>>

\* Mutant: the password is not compared.
FinishLoginUnchecked(r) ==
    /\ pc[r] = "find_roles"
    /\ Goto(r, "ok")
    /\ GenerateTokens(who[r])
    /\ UNCHANGED <<tables, now, input, hash, right, always, broke>>

\* The last query of generate_token, then compare_hash_and_password on the row read before.
FinishLogin(r) ==
    /\ pc[r] = "find_roles"
    /\ IF given[r] = hash[r]
       THEN Goto(r, "ok") /\ GenerateTokens(who[r])
       ELSE Goto(r, "unauthorized") /\ UNCHANGED <<tokens, issued>>
    /\ UNCHANGED <<tables, now, input, hash, right, always, broke>>

FinishRefresh(r) ==
    /\ pc[r] = "find_roles"
    /\ Goto(r, "ok")
    /\ GenerateTokens(who[r])
    /\ UNCHANGED <<tables, now, input, hash, right, always, broke>>

\* authenticate hands the identity on: to the guard, or to the handler of an unguarded route.
Identify(c) ==
    /\ pc[c] = "find_roles"
    /\ Goto(c, IF guard[c] = "none" THEN "handler" ELSE "role_query")
    /\ UNCHANGED <<tables, now, tokens, input, hash, history>>

------------------------------------------------------------------------------
(* RbacEngine::can and can_any, for rbac_guard. *)

\* Where a call that the super role does not let through goes on: can gives up on an
\* action it cannot split, can_any asks for the permissions first.
AfterBypass(c) ==
    IF guard[c] = "can" /\ asks[c] \subseteq Malformed THEN "unauthorized" ELSE "permission_query"

RoleBypass(c) ==
    /\ pc[c] = "role_query"
    /\ Goto(c, IF SuperRole \in RolesOf(who[c]) THEN "handler" ELSE AfterBypass(c))
    /\ UNCHANGED <<tables, now, tokens, input, hash, history>>

\* The EXISTS query for the one action can is given.
HasPermission(c) ==
    /\ pc[c] = "permission_query" /\ guard[c] = "can"
    /\ Goto(c, IF asks[c] \subseteq Permissions(who[c]) THEN "handler" ELSE "unauthorized")
    /\ UNCHANGED <<tables, now, tokens, input, hash, history>>

\* All permissions of the user, among which can_any looks for one of the actions.
GetPermissions(c) ==
    /\ pc[c] = "permission_query" /\ guard[c] = "can_any"
    /\ Goto(c, IF (asks[c] \ Malformed) \cap Permissions(who[c]) # {} THEN "handler" ELSE "unauthorized")
    /\ UNCHANGED <<tables, now, tokens, input, hash, history>>

\* The handler acts for who[c].
Handle(c) ==
    /\ pc[c] = "handler"
    /\ Goto(c, "ok")
    /\ UNCHANGED <<tables, now, tokens, input, hash, history>>

\* Mutant: a failing role query denies.
AfterFailureDenied(r) ==
    CASE r \in Login \cup Refresh \/ pc[r] = "handler" -> "unknown"
      [] OTHER -> "unauthorized"

\* Mutant: a failing role query grants.
AfterFailureGranted(r) ==
    CASE r \in Login \cup Refresh \/ pc[r] = "handler" -> "unknown"
      [] pc[r] = "role_query" -> "handler"
      [] OTHER -> "unauthorized"

\* How a failing query is answered: authenticate and rbac_guard turn it into a 401, the
\* role query only means that the super role is not known to be held.
AfterFailure(r) ==
    CASE r \in Login \cup Refresh \/ pc[r] = "handler" -> "unknown"
      [] pc[r] = "role_query" -> AfterBypass(r)
      [] OTHER -> "unauthorized"

\* A query fails (the connection breaks, acquire_timeout expires).
Fail(r) ==
    /\ pc[r] \in InFlight
    /\ Goto(r, AfterFailure(r))
    /\ broke' = IF r \in Call THEN [broke EXCEPT ![r] = @ \cup {pc[r]}] ELSE broke
    /\ UNCHANGED <<tables, now, tokens, input, hash, right, always, issued>>

------------------------------------------------------------------------------
(* The rest of the world: what other requests commit, and time. *)

\* A transaction of UserService: roles come and go together.
ChangeRoles(u, X) ==
    /\ hasRole' = {e \in hasRole : e[1] # u} \cup ({u} \X X)
    /\ always' = [c \in Call |-> always[c] /\
                    (who[c] = u /\ pc[c] \in InFlight => SuperRole \in X \/ \E x \in X : asks[c] \cap RoleHas[x] # {})]
    /\ UNCHANGED <<password, now, tokens, pc, input, hash, right, broke, issued>>

\* A PATCH or a password reset.
ChangePassword(u, p) ==
    /\ password' = [password EXCEPT ![u] = p]
    /\ right' = [r \in Login |-> right[r] \/ (pc[r] \in InFlight /\ who[r] = u /\ given[r] = p)]
    /\ UNCHANGED <<hasRole, now, tokens, pc, input, hash, always, broke, issued>>

Tick ==
    /\ now < MaxClock
    /\ now' = now + 1
    /\ UNCHANGED <<tables, tokens, pc, input, hash, history>>

------------------------------------------------------------------------------

Init ==
    /\ hasRole \in SUBSET (User \X Role)
    /\ password \in [User -> Password]
    /\ now = 0
    /\ tokens = {}
    /\ pc = [r \in Request |-> "idle"]
    /\ who = [r \in Request |-> None]
    /\ given = [r \in Login |-> None]
    /\ hash = [r \in Login |-> None]
    /\ guard = [c \in Call |-> "none"]
    /\ asks = [c \in Call |-> {}]
    /\ right = [r \in Login |-> FALSE]
    /\ always = [c \in Call |-> TRUE]
    /\ broke = [c \in Call |-> {}]
    /\ issued = [u \in User |-> None]

\* What the database's answers do with a request once it has begun.
Step(r) ==
    \/ FindUser(r)
    \/ r \in Login /\ FinishLogin(r)
    \/ r \in Refresh /\ FinishRefresh(r)
    \/ r \in Call /\ (Identify(r) \/ RoleBypass(r) \/ HasPermission(r) \/ GetPermissions(r) \/ Handle(r))

World ==
    \/ \E u \in User, X \in SUBSET Role : ChangeRoles(u, X)
    \/ \E u \in User, p \in Password : ChangePassword(u, p)
    \/ Tick

Next ==
    \/ \E r \in Login : BeginLogin(r)
    \/ \E r \in Refresh : BeginRefresh(r)
    \/ \E c \in Call : BeginCall(c)
    \/ \E r \in Request : Reject(r) \/ Step(r) \/ Fail(r)
    \/ World

Spec == Init /\ [][Next]_vars

------------------------------------------------------------------------------
(* Properties *)

TypeOK ==
    /\ hasRole \subseteq User \X Role
    /\ password \in [User -> Password]
    /\ now \in 0 .. MaxClock
    /\ tokens \subseteq Token
    /\ pc \in [Request -> {"idle"} \cup InFlight \cup Answered]
    /\ who \in [Request -> User \cup {None}]
    /\ given \in [Login -> Password \cup {None}]
    /\ hash \in [Login -> Password \cup {None}]
    /\ guard \in [Call -> {"none", "can", "can_any"}]
    /\ asks \in [Call -> SUBSET Action]
    /\ right \in [Login -> BOOLEAN]
    /\ always \in [Call -> BOOLEAN]
    /\ broke \in [Call -> SUBSET InFlight]
    /\ issued \in [User -> Nat \cup {None}]

\* A successful login of u presented a password that was u's at some moment of the request.
LoggedIn(u) == \E r \in Login : pc[r] = "ok" /\ who[r] = u /\ right[r]

\* Whatever the chain of exchanges, tokens and the identities taken from them go back to a
\* login of the same user with the password: refreshing never changes whom a session is for.
SessionsAreEarned ==
    /\ \A t \in tokens : LoggedIn(t.user)
    /\ \A r \in Refresh \cup Call : who[r] # None => LoggedIn(who[r])

\* A call whose caller held the right from its start to its end is refused only because the
\* identity could not be read, or the query that decides failed.  A failing role query alone
\* hides no permission held by another way; and a change of role that leaves the right in
\* place never falls between the two queries.
EntitledAreAdmitted ==
    \A c \in Call :
        who[c] # None /\ always[c] /\ pc[c] = "unauthorized" /\ guard[c] # "none" =>
            \/ broke[c] \cap {"find_user", "find_roles", "permission_query"} # {}
            \/ "role_query" \in broke[c] /\ asks[c] \subseteq Malformed

\* A session left alone for longer than its tokens' time to live is over, whichever token is
\* presented and wherever: no exchange lengthens it except from the moment it happens.
IdleSessionsEnd ==
    [][\A r \in Refresh \cup Call :
        pc[r] = "idle" /\ pc'[r] = "find_user" =>
            /\ issued[who'[r]] # None
            /\ now <= issued[who'[r]] + AccessTtl \/ now <= issued[who'[r]] + RefreshTtl]_vars

------------------------------------------------------------------------------
(* The refinement mapping to Gate, for the calls to guarded routes. *)

GateHolds == [c \in Call |-> {u \in User : Holds(u, asks[c])}]
GateCaller == [c \in Call |-> IF guard[c] = "none" THEN None ELSE who[c]]
GateVerdict ==
    [c \in Call |->
        CASE pc[c] = "unauthorized" -> "refused"
          [] pc[c] = "idle" \/ (guard[c] = "none" /\ pc[c] # "unauthorized") -> "none"
          [] guard[c] # "none" /\ pc[c] \in {"handler", "ok", "unknown"} -> "admitted"
          [] OTHER -> "waiting"]

TheGate == INSTANCE Gate WITH
    Caller <- User, Nobody <- None, holds <- GateHolds, caller <- GateCaller, verdict <- GateVerdict

\* The queries of a guarded call amount to one decision at one moment: an admitted call was
\* admitted when its caller held the right, whatever was revoked before or since, and
\* whatever roles its identity or its token name.
DecidesAtOneMoment == TheGate!Spec
==============================================================================
