---------------------------- MODULE AccessProofs ----------------------------
(***************************************************************************)
(* What holds of Access for every set of users, roles, actions, requests   *)
(* and every time to live.                                                 *)
(*                                                                         *)
(* The invariant follows a request from the table to its answer: what a    *)
(* login has read was the password at that moment (PasswordsRead), a       *)
(* token's expiry lies within its time to live of the last issue           *)
(* (ExpiriesAreRecent), a call entitled throughout is entitled now, and    *)
(* stands at the second query for a reason (StillEntitled).                *)
(***************************************************************************)
EXTENDS Access, TLAPS

\* Where a request can stand, and what it knows there.
Stages ==
    /\ \A r \in Login : pc[r] \in {"find_roles", "ok"} => who[r] \in User
    /\ \A r \in Refresh \cup Call :
        /\ pc[r] \in InFlight \cup {"ok", "unknown"} => who[r] \in User
        /\ pc[r] = "idle" => who[r] = None
    /\ \A r \in Request : pc[r] \in {"role_query", "permission_query", "handler"} => r \in Call
    /\ \A c \in Call :
        /\ pc[c] \in {"role_query", "permission_query"} => guard[c] # "none"
        /\ pc[c] = "idle" => guard[c] = "none" /\ broke[c] = {}
        /\ guard[c] = "can" => \E a \in Action : asks[c] = {a}

\* A login that presents the password of the moment is right, and so is one that presents
\* what it has read.
PasswordsRead ==
    \A r \in Login :
        /\ pc[r] \in {"find_user", "find_roles"} /\ who[r] # None /\ given[r] = password[who[r]] => right[r]
        /\ pc[r] = "find_roles" /\ given[r] = hash[r] => right[r]

ExpiriesAreRecent ==
    /\ \A u \in User : issued[u] # None => issued[u] \in Nat /\ issued[u] <= now
    /\ \A t \in tokens :
        /\ issued[t.user] # None
        /\ t.exp <= issued[t.user] + AccessTtl \/ t.exp <= issued[t.user] + RefreshTtl

StillEntitled ==
    \A c \in Call : always[c] /\ pc[c] \in InFlight =>
        /\ Holds(who[c], asks[c])
        /\ pc[c] = "permission_query" /\ asks[c] \subseteq Malformed => "role_query" \in broke[c]

IInv ==
    /\ TypeOK /\ Stages
    /\ PasswordsRead /\ SessionsAreEarned
    /\ ExpiriesAreRecent
    /\ StillEntitled /\ EntitledAreAdmitted

------------------------------------------------------------------------------

\* The invariant holds initially.
LEMMA InitIInv == Init => IInv
BY ConstantsAssumption
   DEF Init, IInv, TypeOK, Stages, PasswordsRead, SessionsAreEarned, ExpiriesAreRecent,
       StillEntitled, EntitledAreAdmitted, InFlight, Request

\* Every step keeps the types.
LEMMA TypeNext == TypeOK /\ Stages /\ [Next]_vars => TypeOK'
<1> SUFFICES ASSUME TypeOK, Stages, [Next]_vars PROVE TypeOK'
  OBVIOUS
<1> USE ConstantsAssumption DEF TypeOK, Request, InFlight, Answered, Goto, tables, input, history, Stages, Token
<1>1. ASSUME NEW r \in Login, BeginLogin(r) PROVE TypeOK'
  BY <1>1 DEF BeginLogin
<1>2. ASSUME NEW r \in Refresh, BeginRefresh(r) PROVE TypeOK'
  BY <1>2 DEF BeginRefresh, ValidateToken
<1>3. ASSUME NEW r \in Call, BeginCall(r) PROVE TypeOK'
  <2>1. PICK t \in {t \in tokens : ValidateToken(t)}, A \in SUBSET Action :
          /\ who' = [who EXCEPT ![r] = t.user]
          /\ asks' = [asks EXCEPT ![r] = A]
          /\ always' = [always EXCEPT ![r] = Holds(t.user, A)]
    BY ONLY <1>3, Zenon DEF BeginCall
  <2>2. \E g \in {"none", "can", "can_any"} : guard' = [guard EXCEPT ![r] = g]
    BY ONLY <1>3, Zenon DEF BeginCall
  <2>3. pc' = [pc EXCEPT ![r] = "find_user"]
    BY ONLY <1>3 DEF BeginCall
  <2>4. UNCHANGED <<tables, now, tokens, hash, given, right, broke, issued>>
    BY ONLY <1>3 DEF BeginCall
  <2>5. t.user \in User /\ Holds(t.user, A) \in BOOLEAN
    BY <2>1 DEF Holds
  <2>6. QED
    BY <2>1, <2>2, <2>3, <2>4, <2>5
<1>4. ASSUME NEW r \in Request, Reject(r) PROVE TypeOK'
  BY <1>4 DEF Reject
<1>5. ASSUME NEW r \in Request, FindUser(r) PROVE TypeOK'
  BY <1>5 DEF FindUser
<1>6. ASSUME NEW r \in Login, FinishLogin(r) PROVE TypeOK'
  BY <1>6 DEF FinishLogin, GenerateTokens
<1>7. ASSUME NEW r \in Refresh, FinishRefresh(r) PROVE TypeOK'
  BY <1>7 DEF FinishRefresh, GenerateTokens
<1>8. ASSUME NEW r \in Call, Identify(r) PROVE TypeOK'
  BY <1>8 DEF Identify
<1>9. ASSUME NEW r \in Call, RoleBypass(r) PROVE TypeOK'
  BY <1>9 DEF RoleBypass, AfterBypass
<1>10. ASSUME NEW r \in Call, HasPermission(r) PROVE TypeOK'
  BY <1>10 DEF HasPermission
<1>11. ASSUME NEW r \in Call, GetPermissions(r) PROVE TypeOK'
  BY <1>11 DEF GetPermissions
<1>12. ASSUME NEW r \in Call, Handle(r) PROVE TypeOK'
  BY <1>12 DEF Handle
<1>13. ASSUME NEW r \in Request, Fail(r) PROVE TypeOK'
  BY <1>13 DEF Fail, AfterFailure, AfterBypass
<1>14. ASSUME NEW u \in User, NEW X \in SUBSET Role, ChangeRoles(u, X) PROVE TypeOK'
  BY <1>14 DEF ChangeRoles
<1>15. ASSUME NEW u \in User, NEW p \in Password, ChangePassword(u, p) PROVE TypeOK'
  BY <1>15 DEF ChangePassword
<1>16. ASSUME Tick PROVE TypeOK'
  BY <1>16 DEF Tick
<1>17. ASSUME UNCHANGED vars PROVE TypeOK'
  BY <1>17 DEF vars
<1>18. QED
  BY <1>1, <1>2, <1>3, <1>4, <1>5, <1>6, <1>7, <1>8, <1>9, <1>10, <1>11, <1>12, <1>13, <1>14, <1>15, <1>16, <1>17 DEF Next, Step, World

\* Every step leaves each request where it knows what it needs to know.
LEMMA StagesNext == TypeOK /\ Stages /\ [Next]_vars => Stages'
<1> SUFFICES ASSUME TypeOK, Stages, [Next]_vars PROVE Stages'
  OBVIOUS
<1> USE ConstantsAssumption DEF TypeOK, Request, InFlight, Answered, Goto, tables, input, history, Stages, Token
<1>1. ASSUME NEW r \in Login, BeginLogin(r) PROVE Stages'
  BY <1>1 DEF BeginLogin
<1>2. ASSUME NEW r \in Refresh, BeginRefresh(r) PROVE Stages'
  BY <1>2 DEF BeginRefresh, ValidateToken
<1>3. ASSUME NEW r \in Call, BeginCall(r) PROVE Stages'
  BY <1>3 DEF BeginCall, ValidateToken
<1>4. ASSUME NEW r \in Request, Reject(r) PROVE Stages'
  BY <1>4 DEF Reject
<1>5. ASSUME NEW r \in Request, FindUser(r) PROVE Stages'
  BY <1>5 DEF FindUser
<1>6. ASSUME NEW r \in Login, FinishLogin(r) PROVE Stages'
  BY <1>6 DEF FinishLogin, GenerateTokens
<1>7. ASSUME NEW r \in Refresh, FinishRefresh(r) PROVE Stages'
  BY <1>7 DEF FinishRefresh, GenerateTokens
<1>8. ASSUME NEW r \in Call, Identify(r) PROVE Stages'
  BY <1>8 DEF Identify
<1>9. ASSUME NEW r \in Call, RoleBypass(r) PROVE Stages'
  BY <1>9 DEF RoleBypass, AfterBypass
<1>10. ASSUME NEW r \in Call, HasPermission(r) PROVE Stages'
  BY <1>10 DEF HasPermission
<1>11. ASSUME NEW r \in Call, GetPermissions(r) PROVE Stages'
  BY <1>11 DEF GetPermissions
<1>12. ASSUME NEW r \in Call, Handle(r) PROVE Stages'
  BY <1>12 DEF Handle
<1>13. ASSUME NEW r \in Request, Fail(r) PROVE Stages'
  BY <1>13 DEF Fail, AfterFailure, AfterBypass
<1>14. ASSUME NEW u \in User, NEW X \in SUBSET Role, ChangeRoles(u, X) PROVE Stages'
  BY <1>14 DEF ChangeRoles
<1>15. ASSUME NEW u \in User, NEW p \in Password, ChangePassword(u, p) PROVE Stages'
  BY <1>15 DEF ChangePassword
<1>16. ASSUME Tick PROVE Stages'
  BY <1>16 DEF Tick
<1>17. ASSUME UNCHANGED vars PROVE Stages'
  BY <1>17 DEF vars
<1>18. QED
  BY <1>1, <1>2, <1>3, <1>4, <1>5, <1>6, <1>7, <1>8, <1>9, <1>10, <1>11, <1>12, <1>13, <1>14, <1>15, <1>16, <1>17 DEF Next, Step, World

\* A password read is a password that was the user's.
LEMMA PasswordsReadNext == TypeOK /\ Stages /\ PasswordsRead /\ [Next]_vars => PasswordsRead'
<1> SUFFICES ASSUME TypeOK, Stages, PasswordsRead, [Next]_vars PROVE PasswordsRead'
  OBVIOUS
<1> USE ConstantsAssumption DEF TypeOK, Request, InFlight, Answered, Goto, tables, input, history, Stages, PasswordsRead
<1>1. ASSUME NEW r \in Login, BeginLogin(r) PROVE PasswordsRead'
  <2> PICK u \in User \cup {None}, p \in Password :
        /\ pc' = [pc EXCEPT ![r] = "find_user"]
        /\ who' = [who EXCEPT ![r] = u]
        /\ given' = [given EXCEPT ![r] = p]
        /\ right' = [right EXCEPT ![r] = u # None /\ password[u] = p]
    BY <1>1 DEF BeginLogin
  <2> UNCHANGED <<password, hash>>
    BY <1>1 DEF BeginLogin
  <2> ASSUME NEW q \in Login PROVE PasswordsRead!(q)'
    <3>1. CASE q = r
      BY <3>1
    <3>2. CASE q # r
      BY <3>2
    <3> QED
      BY <3>1, <3>2
  <2> QED
    OBVIOUS
<1>2. ASSUME NEW r \in Refresh, BeginRefresh(r) PROVE PasswordsRead'
  BY <1>2 DEF BeginRefresh, ValidateToken
<1>3. ASSUME NEW r \in Call, BeginCall(r) PROVE PasswordsRead'
  BY <1>3 DEF BeginCall, ValidateToken
<1>4. ASSUME NEW r \in Request, Reject(r) PROVE PasswordsRead'
  BY <1>4 DEF Reject
<1>5. ASSUME NEW r \in Request, FindUser(r) PROVE PasswordsRead'
  BY <1>5 DEF FindUser
<1>6. ASSUME NEW r \in Login, FinishLogin(r) PROVE PasswordsRead'
  BY <1>6 DEF FinishLogin, GenerateTokens
<1>7. ASSUME NEW r \in Refresh, FinishRefresh(r) PROVE PasswordsRead'
  BY <1>7 DEF FinishRefresh, GenerateTokens
<1>8. ASSUME NEW r \in Call, Identify(r) PROVE PasswordsRead'
  BY <1>8 DEF Identify
<1>9. ASSUME NEW r \in Call, RoleBypass(r) PROVE PasswordsRead'
  BY <1>9 DEF RoleBypass, AfterBypass
<1>10. ASSUME NEW r \in Call, HasPermission(r) PROVE PasswordsRead'
  BY <1>10 DEF HasPermission
<1>11. ASSUME NEW r \in Call, GetPermissions(r) PROVE PasswordsRead'
  BY <1>11 DEF GetPermissions
<1>12. ASSUME NEW r \in Call, Handle(r) PROVE PasswordsRead'
  BY <1>12 DEF Handle
<1>13. ASSUME NEW r \in Request, Fail(r) PROVE PasswordsRead'
  BY <1>13 DEF Fail, AfterFailure, AfterBypass
<1>14. ASSUME NEW u \in User, NEW X \in SUBSET Role, ChangeRoles(u, X) PROVE PasswordsRead'
  BY <1>14 DEF ChangeRoles
<1>15. ASSUME NEW u \in User, NEW p \in Password, ChangePassword(u, p) PROVE PasswordsRead'
  BY <1>15 DEF ChangePassword
<1>16. ASSUME Tick PROVE PasswordsRead'
  BY <1>16 DEF Tick
<1>17. ASSUME UNCHANGED vars PROVE PasswordsRead'
  BY <1>17 DEF vars
<1>18. QED
  BY <1>1, <1>2, <1>3, <1>4, <1>5, <1>6, <1>7, <1>8, <1>9, <1>10, <1>11, <1>12, <1>13, <1>14, <1>15, <1>16, <1>17 DEF Next, Step, World

\* Tokens come from logins that were right, or from tokens of the same user.
LEMMA EarnedNext == TypeOK /\ Stages /\ PasswordsRead /\ SessionsAreEarned /\ [Next]_vars => SessionsAreEarned'
<1> SUFFICES ASSUME TypeOK, Stages, PasswordsRead, SessionsAreEarned, [Next]_vars PROVE SessionsAreEarned'
  OBVIOUS
<1> USE ConstantsAssumption DEF TypeOK, Request, InFlight, Answered, Goto, tables, input, history, Stages, PasswordsRead, SessionsAreEarned, LoggedIn, Token
<1>1. ASSUME NEW r \in Login, BeginLogin(r) PROVE SessionsAreEarned'
  BY <1>1 DEF BeginLogin
<1>2. ASSUME NEW r \in Refresh, BeginRefresh(r) PROVE SessionsAreEarned'
  BY <1>2 DEF BeginRefresh, ValidateToken
<1>3. ASSUME NEW r \in Call, BeginCall(r) PROVE SessionsAreEarned'
  BY <1>3 DEF BeginCall, ValidateToken
<1>4. ASSUME NEW r \in Request, Reject(r) PROVE SessionsAreEarned'
  BY <1>4 DEF Reject
<1>5. ASSUME NEW r \in Request, FindUser(r) PROVE SessionsAreEarned'
  BY <1>5 DEF FindUser
<1>6. ASSUME NEW r \in Login, FinishLogin(r) PROVE SessionsAreEarned'
  BY <1>6 DEF FinishLogin, GenerateTokens
<1>7. ASSUME NEW r \in Refresh, FinishRefresh(r) PROVE SessionsAreEarned'
  BY <1>7 DEF FinishRefresh, GenerateTokens
<1>8. ASSUME NEW r \in Call, Identify(r) PROVE SessionsAreEarned'
  BY <1>8 DEF Identify
<1>9. ASSUME NEW r \in Call, RoleBypass(r) PROVE SessionsAreEarned'
  BY <1>9 DEF RoleBypass, AfterBypass
<1>10. ASSUME NEW r \in Call, HasPermission(r) PROVE SessionsAreEarned'
  BY <1>10 DEF HasPermission
<1>11. ASSUME NEW r \in Call, GetPermissions(r) PROVE SessionsAreEarned'
  BY <1>11 DEF GetPermissions
<1>12. ASSUME NEW r \in Call, Handle(r) PROVE SessionsAreEarned'
  BY <1>12 DEF Handle
<1>13. ASSUME NEW r \in Request, Fail(r) PROVE SessionsAreEarned'
  BY <1>13 DEF Fail, AfterFailure, AfterBypass
<1>14. ASSUME NEW u \in User, NEW X \in SUBSET Role, ChangeRoles(u, X) PROVE SessionsAreEarned'
  BY <1>14 DEF ChangeRoles
<1>15. ASSUME NEW u \in User, NEW p \in Password, ChangePassword(u, p) PROVE SessionsAreEarned'
  BY <1>15 DEF ChangePassword
<1>16. ASSUME Tick PROVE SessionsAreEarned'
  BY <1>16 DEF Tick
<1>17. ASSUME UNCHANGED vars PROVE SessionsAreEarned'
  BY <1>17 DEF vars
<1>18. QED
  BY <1>1, <1>2, <1>3, <1>4, <1>5, <1>6, <1>7, <1>8, <1>9, <1>10, <1>11, <1>12, <1>13, <1>14, <1>15, <1>16, <1>17 DEF Next, Step, World

\* Only an issue adds tokens, and it moves the time of the last issue.
LEMMA ExpiriesNext == TypeOK /\ Stages /\ ExpiriesAreRecent /\ [Next]_vars => ExpiriesAreRecent'
<1> SUFFICES ASSUME TypeOK, Stages, ExpiriesAreRecent, [Next]_vars PROVE ExpiriesAreRecent'
  OBVIOUS
<1> USE ConstantsAssumption DEF TypeOK, Request, InFlight, Answered, Goto, tables, input, history, Stages, ExpiriesAreRecent, Token
<1>0. ASSUME NEW u \in User, GenerateTokens(u), now' = now PROVE ExpiriesAreRecent'
  <2> now \in Nat
    OBVIOUS
  <2> USE <1>0 DEF GenerateTokens
  <2>1. issued'[u] = now /\ \A v \in User : v # u => issued'[v] = issued[v]
    OBVIOUS
  <2>2. ASSUME NEW v \in User, issued'[v] # None PROVE issued'[v] \in Nat /\ issued'[v] <= now'
    BY <2>1, <2>2
  <2>3. ASSUME NEW t \in tokens'
        PROVE  /\ issued'[t.user] # None
               /\ t.exp <= issued'[t.user] + AccessTtl \/ t.exp <= issued'[t.user] + RefreshTtl
    <3>1. CASE t \notin tokens
      BY <2>1, <3>1
    <3>2. CASE t \in tokens /\ t.user # u
      BY <2>1, <3>2
    <3>3. CASE t \in tokens /\ t.user = u
      <4>1. issued[u] \in Nat /\ issued[u] <= now /\ t.exp \in Nat
        BY <3>3
      <4>2. t.exp <= issued[u] + AccessTtl \/ t.exp <= issued[u] + RefreshTtl
        BY <3>3
      <4>3. issued'[t.user] = now /\ now # None
        BY <2>1, <3>3, <4>1
      <4>4. QED
        BY <4>1, <4>2, <4>3
    <3>4. QED
      BY <3>1, <3>2, <3>3
  <2>4. QED
    BY <2>2, <2>3
<1>1. ASSUME NEW r \in Login, BeginLogin(r) PROVE ExpiriesAreRecent'
  BY <1>1 DEF BeginLogin
<1>2. ASSUME NEW r \in Refresh, BeginRefresh(r) PROVE ExpiriesAreRecent'
  BY <1>2 DEF BeginRefresh, ValidateToken
<1>3. ASSUME NEW r \in Call, BeginCall(r) PROVE ExpiriesAreRecent'
  BY <1>3 DEF BeginCall, ValidateToken
<1>4. ASSUME NEW r \in Request, Reject(r) PROVE ExpiriesAreRecent'
  BY <1>4 DEF Reject
<1>5. ASSUME NEW r \in Request, FindUser(r) PROVE ExpiriesAreRecent'
  BY <1>5 DEF FindUser
<1>6. ASSUME NEW r \in Login, FinishLogin(r) PROVE ExpiriesAreRecent'
  BY <1>6, <1>0 DEF FinishLogin
<1>7. ASSUME NEW r \in Refresh, FinishRefresh(r) PROVE ExpiriesAreRecent'
  BY <1>7, <1>0 DEF FinishRefresh
<1>8. ASSUME NEW r \in Call, Identify(r) PROVE ExpiriesAreRecent'
  BY <1>8 DEF Identify
<1>9. ASSUME NEW r \in Call, RoleBypass(r) PROVE ExpiriesAreRecent'
  BY <1>9 DEF RoleBypass, AfterBypass
<1>10. ASSUME NEW r \in Call, HasPermission(r) PROVE ExpiriesAreRecent'
  BY <1>10 DEF HasPermission
<1>11. ASSUME NEW r \in Call, GetPermissions(r) PROVE ExpiriesAreRecent'
  BY <1>11 DEF GetPermissions
<1>12. ASSUME NEW r \in Call, Handle(r) PROVE ExpiriesAreRecent'
  BY <1>12 DEF Handle
<1>13. ASSUME NEW r \in Request, Fail(r) PROVE ExpiriesAreRecent'
  BY <1>13 DEF Fail, AfterFailure, AfterBypass
<1>14. ASSUME NEW u \in User, NEW X \in SUBSET Role, ChangeRoles(u, X) PROVE ExpiriesAreRecent'
  BY <1>14 DEF ChangeRoles
<1>15. ASSUME NEW u \in User, NEW p \in Password, ChangePassword(u, p) PROVE ExpiriesAreRecent'
  BY <1>15 DEF ChangePassword
<1>16. ASSUME Tick PROVE ExpiriesAreRecent'
  BY <1>16 DEF Tick
<1>17. ASSUME UNCHANGED vars PROVE ExpiriesAreRecent'
  BY <1>17 DEF vars
<1>18. QED
  BY <1>1, <1>2, <1>3, <1>4, <1>5, <1>6, <1>7, <1>8, <1>9, <1>10, <1>11, <1>12, <1>13, <1>14, <1>15, <1>16, <1>17 DEF Next, Step, World

\* What holding a right comes down to, once the super role is not looked at: an action
\* without a separator needs the super role, any other is found by the permission queries.
LEMMA HoldsMeans ==
    ASSUME TypeOK, NEW u \in User, NEW A \in SUBSET Action, Holds(u, A)
    PROVE  /\ A \subseteq Malformed => SuperRole \in RolesOf(u)
           /\ (\E a \in Action : A = {a}) /\ ~(A \subseteq Malformed) => A \subseteq Permissions(u)
           /\ ~(A \subseteq Malformed) => (A \ Malformed) \cap Permissions(u) # {}
<1> USE ConstantsAssumption, SeedAssumption DEF TypeOK
<1>1. Permissions(u) \subseteq Action \ Malformed
  BY DEF Permissions, RolesOf
<1>2. SuperRole \in RolesOf(u) => Action \ Malformed \subseteq Permissions(u)
  BY DEF Permissions, RolesOf
<1>3. QED
  BY <1>1, <1>2 DEF Holds

\* A call entitled throughout is entitled now, and is not refused.
LEMMA EntitledNext ==
    TypeOK /\ Stages /\ StillEntitled /\ EntitledAreAdmitted /\ [Next]_vars
        => (StillEntitled /\ EntitledAreAdmitted)'
<1> SUFFICES ASSUME TypeOK, Stages, StillEntitled, EntitledAreAdmitted, [Next]_vars
             PROVE  (StillEntitled /\ EntitledAreAdmitted)'
  OBVIOUS
<1> DEFINE Good(c) == StillEntitled!(c) /\ EntitledAreAdmitted!(c)
<1> DEFINE Same(c) == /\ who'[c] = who[c] /\ guard'[c] = guard[c] /\ asks'[c] = asks[c]
                      /\ always'[c] = always[c]
<1> DEFINE Frame(c) == hasRole' = hasRole /\ Same(c) /\ pc'[c] = pc[c] /\ broke'[c] = broke[c]
<1>1. ASSUME \A c \in Call : Good(c)' PROVE (StillEntitled /\ EntitledAreAdmitted)'
  BY <1>1 DEF StillEntitled, EntitledAreAdmitted
<1>2. ASSUME NEW c \in Call, hasRole' = hasRole, Same(c)
      PROVE  Holds(who[c], asks[c])' <=> Holds(who[c], asks[c])
  BY <1>2 DEF Holds, Permissions, RolesOf
<1>3. ASSUME NEW c \in Call, Frame(c) PROVE Good(c)'
  BY <1>2, <1>3 DEF StillEntitled, EntitledAreAdmitted
<1>4. ASSUME NEW c \in Call, hasRole' = hasRole, Same(c), pc[c] \in InFlight,
             pc'[c] \in InFlight,
             pc'[c] = "permission_query" /\ asks[c] \subseteq Malformed /\ always[c] => "role_query" \in broke'[c]
      PROVE  Good(c)'
  BY <1>2, <1>4 DEF StillEntitled, EntitledAreAdmitted, InFlight
<1>5. ASSUME NEW c \in Call, pc'[c] \in {"ok", "unknown"} PROVE Good(c)'
  BY <1>5 DEF StillEntitled, EntitledAreAdmitted, InFlight
<1>6. ASSUME NEW c \in Call, hasRole' = hasRole, Same(c), pc'[c] = "unauthorized",
             \/ who[c] = None \/ ~always[c] \/ guard[c] = "none"
             \/ broke'[c] \cap {"find_user", "find_roles", "permission_query"} # {}
             \/ "role_query" \in broke'[c] /\ asks[c] \subseteq Malformed
      PROVE  Good(c)'
  BY <1>6 DEF StillEntitled, EntitledAreAdmitted, InFlight
<1> HIDE DEF Good
<1>7. ASSUME NEW r \in Login, BeginLogin(r) PROVE \A c \in Call : Good(c)'
  <2>1. ASSUME NEW c \in Call PROVE Frame(c)
    BY <1>7, ConstantsAssumption DEF BeginLogin, TypeOK, Request, Goto, tables, input, history, vars
  <2>2. QED
    BY <2>1, <1>3
<1>8. ASSUME NEW r \in Refresh, BeginRefresh(r) PROVE \A c \in Call : Good(c)'
  <2>1. ASSUME NEW c \in Call PROVE Frame(c)
    BY <1>8, ConstantsAssumption DEF BeginRefresh, TypeOK, Request, Goto, tables, input, history, vars
  <2>2. QED
    BY <2>1, <1>3
<1>9. ASSUME NEW r \in Call, BeginCall(r) PROVE \A c \in Call : Good(c)'
  <2>1. ASSUME NEW c \in Call, c # r PROVE Frame(c)
    BY <1>9, <2>1 DEF BeginCall, TypeOK, Goto, tables, input, history
  <2>2. PICK t \in {t \in tokens : ValidateToken(t)}, A \in SUBSET Action :
          /\ who' = [who EXCEPT ![r] = t.user]
          /\ asks' = [asks EXCEPT ![r] = A]
          /\ always' = [always EXCEPT ![r] = Holds(t.user, A)]
    BY <1>9, Zenon DEF BeginCall
  <2>3. hasRole' = hasRole /\ pc'[r] = "find_user"
    BY <1>9 DEF BeginCall, TypeOK, Request, Goto, tables
  <2>4. who'[r] = t.user /\ asks'[r] = A /\ always'[r] = Holds(t.user, A)
    BY <2>2 DEF TypeOK, Request
  <2>5. Holds(who[r], asks[r])' <=> Holds(t.user, A)
    BY <2>3, <2>4 DEF Holds, Permissions, RolesOf
  <2>6. Good(r)'
    BY <2>3, <2>4, <2>5 DEF Good, StillEntitled, EntitledAreAdmitted
  <2>7. QED
    BY <2>1, <2>6, <1>3
<1>10. ASSUME NEW r \in Request, Reject(r) PROVE \A c \in Call : Good(c)'
  <2>1. ASSUME NEW c \in Call, c # r PROVE Frame(c)
    BY <1>10, <2>1 DEF Reject, TypeOK, Request, Goto, tables, input, history
  <2>2. ASSUME r \in Call PROVE Good(r)'
    <3>1. hasRole' = hasRole /\ Same(r) /\ pc'[r] = "unauthorized" /\ guard[r] = "none"
      BY <1>10, <2>2 DEF Reject, TypeOK, Stages, Request, InFlight, Goto, tables, input, history
    <3>2. QED
      BY <3>1, <2>2, <1>6
  <2>3. QED
    BY <2>1, <2>2, <1>3
<1>11. ASSUME NEW r \in Request, FindUser(r) PROVE \A c \in Call : Good(c)'
  <2>1. ASSUME NEW c \in Call, c # r PROVE Frame(c)
    BY <1>11, <2>1 DEF FindUser, TypeOK, Request, Goto, tables, input, history
  <2>2. ASSUME r \in Call PROVE Good(r)'
    <3>1. hasRole' = hasRole /\ Same(r) /\ pc[r] \in InFlight /\ pc'[r] = "find_roles"
      BY <1>11, <2>2, ConstantsAssumption DEF FindUser, TypeOK, Stages, Request, InFlight, Goto, tables, input, history
    <3>2. QED
      BY <3>1, <2>2, <1>4 DEF InFlight
  <2>3. QED
    BY <2>1, <2>2, <1>3
<1>12. ASSUME NEW r \in Login, FinishLogin(r) PROVE \A c \in Call : Good(c)'
  <2>1. ASSUME NEW c \in Call PROVE Frame(c)
    BY <1>12, ConstantsAssumption DEF FinishLogin, TypeOK, Request, Goto, tables, input, history, vars
  <2>2. QED
    BY <2>1, <1>3
<1>13. ASSUME NEW r \in Refresh, FinishRefresh(r) PROVE \A c \in Call : Good(c)'
  <2>1. ASSUME NEW c \in Call PROVE Frame(c)
    BY <1>13, ConstantsAssumption DEF FinishRefresh, TypeOK, Request, Goto, tables, input, history, vars
  <2>2. QED
    BY <2>1, <1>3
<1>14. ASSUME NEW r \in Call, Identify(r) PROVE \A c \in Call : Good(c)'
  <2>1. ASSUME NEW c \in Call, c # r PROVE Frame(c)
    BY <1>14, <2>1 DEF Identify, TypeOK, Request, Goto, tables, input, history
  <2>2. ASSUME r \in Call PROVE Good(r)'
    <3>1. hasRole' = hasRole /\ Same(r) /\ pc[r] \in InFlight /\ pc'[r] \in {"handler", "role_query"}
      BY <1>14 DEF Identify, TypeOK, Stages, Request, InFlight, Goto, tables, input, history
    <3>2. QED
      BY <3>1, <1>4 DEF InFlight
  <2>3. QED
    BY <2>1, <2>2, <1>3
<1>15. ASSUME NEW r \in Call, RoleBypass(r) PROVE \A c \in Call : Good(c)'
  <2>1. ASSUME NEW c \in Call, c # r PROVE Frame(c)
    BY <1>15, <2>1 DEF RoleBypass, TypeOK, Request, Goto, tables, input, history
  <2>2. ASSUME r \in Call PROVE Good(r)'
    <3>1. hasRole' = hasRole /\ Same(r) /\ pc[r] \in InFlight /\ broke'[r] = broke[r]
      BY <1>15 DEF RoleBypass, TypeOK, Stages, Request, InFlight, Goto, tables, input, history
    <3>2. CASE SuperRole \in RolesOf(who[r])
      <4>1. pc'[r] = "handler"
        BY <3>2, <1>15 DEF RoleBypass, TypeOK, Stages, Request, InFlight, Goto, tables, input, history
      <4>2. QED
        BY <3>1, <4>1, <1>4 DEF InFlight
    <3>3. CASE SuperRole \notin RolesOf(who[r])
      <4>1. pc'[r] = AfterBypass(r) /\ who[r] \in User /\ asks[r] \in SUBSET Action
        BY <3>3, <1>15 DEF RoleBypass, TypeOK, Stages, Request, InFlight, Goto, tables, input, history
      <4>2. asks[r] \subseteq Malformed => ~always[r]
        BY <3>1, <3>3, <4>1, HoldsMeans DEF StillEntitled
      <4>3. CASE pc'[r] = "permission_query"
        BY <3>1, <4>2, <4>3, <1>4 DEF InFlight
      <4>4. CASE pc'[r] = "unauthorized"
        <5>1. asks[r] \subseteq Malformed
          BY <4>1, <4>4 DEF AfterBypass
        <5>2. QED
          BY <3>1, <4>2, <4>4, <5>1, <1>6
      <4>5. QED
        BY <4>1, <4>3, <4>4 DEF AfterBypass
    <3>4. QED
      BY <3>2, <3>3
  <2>3. QED
    BY <2>1, <2>2, <1>3
<1>16. ASSUME NEW r \in Call, HasPermission(r) PROVE \A c \in Call : Good(c)'
  <2>1. ASSUME NEW c \in Call, c # r PROVE Frame(c)
    BY <1>16, <2>1 DEF HasPermission, TypeOK, Request, Goto, tables, input, history
  <2>2. ASSUME r \in Call PROVE Good(r)'
    <3>1. hasRole' = hasRole /\ Same(r) /\ pc[r] = "permission_query" /\ broke'[r] = broke[r]
      BY <1>16 DEF HasPermission, TypeOK, Stages, Request, InFlight, Goto, tables, input, history
    <3>2. CASE pc'[r] = "handler"
      BY <3>1, <3>2, <1>4 DEF InFlight
    <3>3. CASE pc'[r] # "handler"
      <4>1. pc'[r] = "unauthorized" /\ ~(asks[r] \subseteq Permissions(who[r])) /\ \E a \in Action : asks[r] = {a}
        BY <3>3, <1>16 DEF HasPermission, TypeOK, Stages, Request, InFlight, Goto, tables, input, history
      <4>2. who[r] \in User /\ asks[r] \in SUBSET Action
        BY <3>1 DEF TypeOK, Stages, Request, InFlight, Goto, tables, input, history
      <4>3. always[r] => Holds(who[r], asks[r]) /\ (asks[r] \subseteq Malformed => "role_query" \in broke[r])
        BY <3>1 DEF StillEntitled, InFlight
      <4>4. ~always[r] \/ asks[r] \subseteq Malformed
        BY <4>1, <4>2, <4>3, HoldsMeans
      <4>5. QED
        BY <3>1, <4>1, <4>3, <4>4, <1>6
    <3>4. QED
      BY <3>2, <3>3
  <2>3. QED
    BY <2>1, <2>2, <1>3
<1>17. ASSUME NEW r \in Call, GetPermissions(r) PROVE \A c \in Call : Good(c)'
  <2>1. ASSUME NEW c \in Call, c # r PROVE Frame(c)
    BY <1>17, <2>1 DEF GetPermissions, TypeOK, Request, Goto, tables, input, history
  <2>2. ASSUME r \in Call PROVE Good(r)'
    <3>1. hasRole' = hasRole /\ Same(r) /\ pc[r] = "permission_query" /\ broke'[r] = broke[r]
      BY <1>17 DEF GetPermissions, TypeOK, Stages, Request, InFlight, Goto, tables, input, history
    <3>2. CASE pc'[r] = "handler"
      BY <3>1, <3>2, <1>4 DEF InFlight
    <3>3. CASE pc'[r] # "handler"
      <4>1. pc'[r] = "unauthorized" /\ (asks[r] \ Malformed) \cap Permissions(who[r]) = {}
        BY <3>3, <1>17 DEF GetPermissions, TypeOK, Stages, Request, InFlight, Goto, tables, input, history
      <4>2. who[r] \in User /\ asks[r] \in SUBSET Action
        BY <3>1 DEF TypeOK, Stages, Request, InFlight, Goto, tables, input, history
      <4>3. always[r] => Holds(who[r], asks[r]) /\ (asks[r] \subseteq Malformed => "role_query" \in broke[r])
        BY <3>1 DEF StillEntitled, InFlight
      <4>4. ~always[r] \/ asks[r] \subseteq Malformed
        BY <4>1, <4>2, <4>3, HoldsMeans
      <4>5. QED
        BY <3>1, <4>1, <4>3, <4>4, <1>6
    <3>4. QED
      BY <3>2, <3>3
  <2>3. QED
    BY <2>1, <2>2, <1>3
<1>18. ASSUME NEW r \in Call, Handle(r) PROVE \A c \in Call : Good(c)'
  <2>1. ASSUME NEW c \in Call, c # r PROVE Frame(c)
    BY <1>18, <2>1 DEF Handle, TypeOK, Request, Goto, tables, input, history
  <2>2. ASSUME r \in Call PROVE Good(r)'
    <3>1. pc'[r] = "ok"
      BY <1>18 DEF Handle, TypeOK, Stages, Request, InFlight, Goto, tables, input, history
    <3>2. QED
      BY <3>1, <1>5
  <2>3. QED
    BY <2>1, <2>2, <1>3
<1>19. ASSUME NEW r \in Request, Fail(r) PROVE \A c \in Call : Good(c)'
  <2>1. ASSUME NEW c \in Call, c # r PROVE Frame(c)
    BY <1>19, <2>1 DEF Fail, TypeOK, Request, Goto, tables, input, history
  <2>2. ASSUME r \in Call PROVE Good(r)'
    <3>1. hasRole' = hasRole /\ Same(r) /\ pc[r] \in InFlight /\ broke'[r] = broke[r] \cup {pc[r]}
      BY <1>19, <2>2 DEF Fail, TypeOK, Stages, Request, InFlight, Goto, tables, input, history
    <3>2. pc'[r] = AfterFailure(r) /\ r \notin Login \cup Refresh
      BY <1>19, <2>2, ConstantsAssumption DEF Fail, TypeOK, Stages, Request, InFlight, Goto, tables, input, history
    <3>3. CASE pc[r] = "handler"
      BY <3>2, <3>3, <1>5, <2>2 DEF AfterFailure
    <3>4. CASE pc[r] = "role_query"
      <4>1. pc'[r] = AfterBypass(r)
        BY <3>2, <3>4 DEF AfterFailure
      <4>2. CASE pc'[r] = "permission_query"
        BY <3>1, <3>4, <4>2, <2>2, <1>4 DEF InFlight
      <4>3. CASE pc'[r] = "unauthorized"
        <5>1. asks[r] \subseteq Malformed
          BY <4>1, <4>3 DEF AfterBypass
        <5>2. QED
          BY <3>1, <3>4, <4>3, <5>1, <2>2, <1>6
      <4>4. QED
        BY <4>1, <4>2, <4>3 DEF AfterBypass
    <3>5. CASE pc[r] \in {"find_user", "find_roles", "permission_query"}
      <4>1. pc'[r] = "unauthorized"
        BY <3>2, <3>5 DEF AfterFailure
      <4>2. QED
        BY <3>1, <3>5, <4>1, <2>2, <1>6
    <3>6. QED
      BY <3>1, <3>3, <3>4, <3>5 DEF InFlight
  <2>3. QED
    BY <2>1, <2>2, <1>3
<1>20. ASSUME NEW u \in User, NEW X \in SUBSET Role, ChangeRoles(u, X) PROVE \A c \in Call : Good(c)'
  <2> SUFFICES ASSUME NEW c \in Call PROVE Good(c)'
    OBVIOUS
  <2>1. UNCHANGED <<pc, who, guard, asks, broke>>
    BY <1>20 DEF ChangeRoles, input
  <2>2. always'[c] => always[c]
    BY <1>20 DEF ChangeRoles
  <2>3. ASSUME pc[c] \in InFlight, always'[c] PROVE Holds(who[c], asks[c])'
    <3>1. who[c] \in User
      BY <2>3 DEF Stages
    <3>2. CASE who[c] = u
      <4>1. RolesOf(u)' = X
        BY <1>20 DEF ChangeRoles, RolesOf
      <4>2. SuperRole \in X \/ \E x \in X : asks[c] \cap RoleHas[x] # {}
        BY <2>3, <3>2, <1>20 DEF ChangeRoles
      <4>3. QED
        BY <2>1, <3>2, <4>1, <4>2 DEF Holds, Permissions, TypeOK
    <3>3. CASE who[c] # u
      <4>1. RolesOf(who[c])' = RolesOf(who[c])
        BY <2>1, <3>1, <3>3, <1>20 DEF ChangeRoles, RolesOf, TypeOK
      <4>2. Holds(who[c], asks[c])
        BY <2>2, <2>3 DEF StillEntitled
      <4>3. QED
        BY <2>1, <4>1, <4>2 DEF Holds, Permissions
    <3>4. QED
      BY <3>2, <3>3
  <2>4. QED
    BY <2>1, <2>2, <2>3 DEF Good, StillEntitled, EntitledAreAdmitted
<1>21. ASSUME NEW u \in User, NEW p \in Password, ChangePassword(u, p) PROVE \A c \in Call : Good(c)'
  <2>1. ASSUME NEW c \in Call PROVE Frame(c)
    BY <1>21, ConstantsAssumption DEF ChangePassword, TypeOK, Request, Goto, tables, input, history, vars
  <2>2. QED
    BY <2>1, <1>3
<1>22. ASSUME Tick PROVE \A c \in Call : Good(c)'
  <2>1. ASSUME NEW c \in Call PROVE Frame(c)
    BY <1>22, ConstantsAssumption DEF Tick, TypeOK, Request, Goto, tables, input, history, vars
  <2>2. QED
    BY <2>1, <1>3
<1>23. ASSUME UNCHANGED vars PROVE \A c \in Call : Good(c)'
  <2>1. ASSUME NEW c \in Call PROVE Frame(c)
    BY <1>23, ConstantsAssumption DEF vars, TypeOK, Request, Goto, tables, input, history, vars
  <2>2. QED
    BY <2>1, <1>3
<1>24. \A c \in Call : Good(c)'
  BY <1>7, <1>8, <1>9, <1>10, <1>11, <1>12, <1>13, <1>14, <1>15, <1>16, <1>17, <1>18, <1>19, <1>20, <1>21, <1>22, <1>23 DEF Next, Step, World
<1>25. QED
  BY <1>1, <1>24

------------------------------------------------------------------------------

\* The invariant holds throughout.
THEOREM Invariant == Spec => []IInv
<1>1. IInv /\ [Next]_vars => IInv'
  BY TypeNext, StagesNext, PasswordsReadNext, EarnedNext, ExpiriesNext, EntitledNext DEF IInv
<1>2. QED
  BY InitIInv, <1>1, PTL DEF Spec

\* Every variable keeps its type.
THEOREM TypeCorrect == Spec => []TypeOK
<1>1. IInv => TypeOK
  BY DEF IInv
<1>2. QED
  BY Invariant, <1>1, PTL

\* No token and no identity without a login that presented the password of the same user
\* while it was the password.
THEOREM Earned == Spec => []SessionsAreEarned
<1>1. IInv => SessionsAreEarned
  BY DEF IInv
<1>2. QED
  BY Invariant, <1>1, PTL

\* The guard refuses nobody who is entitled throughout and whose deciding query succeeds.
THEOREM Entitled == Spec => []EntitledAreAdmitted
<1>1. IInv => EntitledAreAdmitted
  BY DEF IInv
<1>2. QED
  BY Invariant, <1>1, PTL

\* No request is let in on a token later than a time to live after the last issue.
THEOREM IdleEnd == Spec => IdleSessionsEnd
<1> DEFINE Recent(r) ==
        pc[r] = "idle" /\ pc'[r] = "find_user" =>
            /\ issued[who'[r]] # None
            /\ now <= issued[who'[r]] + AccessTtl \/ now <= issued[who'[r]] + RefreshTtl
<1>1. ASSUME IInv, [Next]_vars, NEW r \in Refresh \cup Call, pc[r] = "idle", pc'[r] = "find_user"
      PROVE  Recent(r)
  <2> USE ConstantsAssumption DEF IInv, TypeOK, Request
  <2>1. \/ r \in Refresh /\ BeginRefresh(r)
        \/ r \in Call /\ BeginCall(r)
    <3> USE <1>1 DEF Goto, tables, input, history
    <3>1. ASSUME NEW q \in Login, BeginLogin(q) PROVE FALSE
      BY <3>1 DEF BeginLogin
    <3>2. ASSUME NEW q \in Refresh, BeginRefresh(q) PROVE q = r
      BY <3>2 DEF BeginRefresh
    <3>3. ASSUME NEW q \in Call, BeginCall(q) PROVE q = r
      BY <3>3 DEF BeginCall
    <3>4. ASSUME NEW q \in Request, Reject(q) \/ FindUser(q) PROVE FALSE
      BY <3>4 DEF Reject, FindUser
    <3>5. ASSUME NEW q \in Login, FinishLogin(q) PROVE FALSE
      BY <3>5 DEF FinishLogin
    <3>6. ASSUME NEW q \in Refresh, FinishRefresh(q) PROVE FALSE
      BY <3>6 DEF FinishRefresh
    <3>7. ASSUME NEW q \in Call, Identify(q) \/ Handle(q) PROVE FALSE
      BY <3>7 DEF Identify, Handle
    <3>8. ASSUME NEW q \in Call, RoleBypass(q) PROVE FALSE
      BY <3>8 DEF RoleBypass, AfterBypass
    <3>9. ASSUME NEW q \in Call, HasPermission(q) \/ GetPermissions(q) PROVE FALSE
      BY <3>9 DEF HasPermission, GetPermissions
    <3>10. ASSUME NEW q \in Request, Fail(q) PROVE FALSE
      BY <3>10 DEF Fail, InFlight, AfterFailure, AfterBypass
    <3>11. ASSUME World \/ UNCHANGED vars PROVE FALSE
      BY <3>11 DEF World, ChangeRoles, ChangePassword, Tick, vars
    <3>12. QED
      BY <3>1, <3>2, <3>3, <3>4, <3>5, <3>6, <3>7, <3>8, <3>9, <3>10, <3>11 DEF Next, Step
  <2>2. \E t \in {t \in tokens : ValidateToken(t)} : who' = [who EXCEPT ![r] = t.user]
    BY <2>1, Zenon DEF BeginRefresh, BeginCall
  <2>3. PICK t \in tokens : ValidateToken(t) /\ who'[r] = t.user
    BY <1>1, <2>2
  <2>4. t \in Token /\ t.user \in User
    BY <1>1 DEF Token
  <2>5. issued[t.user] \in Nat /\ (t.exp <= issued[t.user] + AccessTtl \/ t.exp <= issued[t.user] + RefreshTtl)
    BY <1>1, <2>4 DEF ExpiriesAreRecent
  <2>6. now <= t.exp /\ now \in Nat /\ t.exp \in Nat
    BY <1>1, <2>3, <2>4 DEF ValidateToken, Token
  <2>7. QED
    BY <2>3, <2>5, <2>6
<1>2. IInv /\ [Next]_vars => [\A r \in Refresh \cup Call : Recent(r)]_vars
  BY <1>1
<1>3. QED
  BY Invariant, <1>2, PTL DEF Spec, IdleSessionsEnd

------------------------------------------------------------------------------
(* The refinement *)

\* Every step of a request is a step of the gate, or none: the verdict falls with the answer
\* of one query, and when it is to admit, that query has seen the right.
LEMMA GateNext == TypeOK /\ Stages /\ [Next]_vars => [TheGate!Next]_(TheGate!vars)
<1> SUFFICES ASSUME TypeOK, Stages, [Next]_vars PROVE [TheGate!Next]_(TheGate!vars)
  OBVIOUS
<1> DEFINE Stutter == UNCHANGED <<GateHolds, GateCaller, GateVerdict>>
<1> DEFINE Verdict(c, v) == GateVerdict' = [GateVerdict EXCEPT ![c] = v]
<1> USE ConstantsAssumption DEF TypeOK, Stages, Request
\* What the mapping depends on.
<1>1. GateHolds' \in [Call -> SUBSET User] /\ GateVerdict \in [Call -> {"none", "waiting", "admitted", "refused"}]
  BY DEF GateHolds, GateVerdict
<1>2. ASSUME UNCHANGED <<hasRole, asks>> PROVE GateHolds' = GateHolds
  BY <1>2 DEF GateHolds, Holds, Permissions, RolesOf
<1>3. ASSUME guard' = guard, \A c \in Call : who'[c] = who[c] PROVE GateCaller' = GateCaller
  BY <1>3 DEF GateCaller
<1>4. ASSUME guard' = guard, \A c \in Call : pc'[c] = pc[c] PROVE GateVerdict' = GateVerdict
  BY <1>4 DEF GateVerdict
<1>5. ASSUME NEW r \in Call, guard' = guard, \A c \in Call \ {r} : pc'[c] = pc[c]
      PROVE  Verdict(r, GateVerdict'[r])
  BY <1>5 DEF GateVerdict
\* The steps of the gate.
<1>6. ASSUME Stutter PROVE UNCHANGED TheGate!vars
  BY <1>6 DEF TheGate!vars
<1>7. ASSUME NEW r \in Call, UNCHANGED <<hasRole, asks, guard, who>>, pc' = [pc EXCEPT ![r] = pc'[r]],
             GateVerdict[r] = GateVerdict'[r]
      PROVE  Stutter
  <2>1. GateHolds' = GateHolds /\ GateCaller' = GateCaller
    BY <1>2, <1>3, <1>7
  <2>2. Verdict(r, GateVerdict[r])
    BY <1>5, <1>7
  <2>3. QED
    BY <1>1, <2>1, <2>2
<1>8. ASSUME NEW r \in Call, UNCHANGED <<hasRole, asks, guard, who>>, pc' = [pc EXCEPT ![r] = pc'[r]],
             pc'[r] = "unauthorized", pc[r] \in {"idle", "find_user", "find_roles", "role_query", "permission_query"}
      PROVE  TheGate!Next
  <2>1. GateHolds' = GateHolds /\ GateCaller' = GateCaller /\ Verdict(r, "refused")
    <3>1. GateVerdict'[r] = "refused"
      BY <1>8 DEF GateVerdict
    <3>2. QED
      BY <1>2, <1>3, <1>5, <1>8, <3>1
  <2>2. GateVerdict[r] \in {"none", "waiting"}
    BY <1>8 DEF GateVerdict
  <2>3. TheGate!TurnAway(r) \/ TheGate!Refuse(r)
    BY <2>1, <2>2 DEF TheGate!TurnAway, TheGate!Refuse
  <2>4. QED
    BY <2>3 DEF TheGate!Next
<1>9. ASSUME NEW r \in Call, UNCHANGED <<hasRole, asks, guard, who>>, pc' = [pc EXCEPT ![r] = pc'[r]],
             pc'[r] = "handler", pc[r] \in {"role_query", "permission_query"}, Holds(who[r], asks[r])
      PROVE  TheGate!Next
  <2>1. GateHolds' = GateHolds /\ GateCaller' = GateCaller /\ Verdict(r, "admitted")
    <3>1. GateVerdict'[r] = "admitted"
      BY <1>9 DEF GateVerdict
    <3>2. QED
      BY <1>2, <1>3, <1>5, <1>9, <3>1
  <2>2. GateVerdict[r] = "waiting"
    BY <1>9 DEF GateVerdict
  <2>3. GateCaller[r] = who[r] /\ who[r] \in User
    BY <1>9 DEF GateCaller, InFlight
  <2>4. GateCaller[r] \in GateHolds[r]
    BY <1>9, <2>3 DEF GateHolds
  <2>5. TheGate!Admit(r)
    BY <2>1, <2>2, <2>4 DEF TheGate!Admit
  <2>6. QED
    BY <2>5 DEF TheGate!Next
<1> HIDE DEF Stutter, Verdict
\* The steps of the requests.
<1> USE DEF Goto, tables, input, history
<1>10. ASSUME NEW r \in Login \cup Refresh,
              \/ r \in Login /\ (BeginLogin(r) \/ FinishLogin(r))
              \/ r \in Refresh /\ (BeginRefresh(r) \/ FinishRefresh(r))
              \/ Reject(r) \/ FindUser(r) \/ Fail(r)
       PROVE  Stutter
  <2>1. UNCHANGED <<hasRole, asks, guard>> /\ \A c \in Call : pc'[c] = pc[c] /\ who'[c] = who[c]
    <3>1. CASE r \in Login /\ BeginLogin(r)
      BY <3>1 DEF BeginLogin
    <3>2. CASE r \in Login /\ FinishLogin(r)
      BY <3>2 DEF FinishLogin
    <3>3. CASE r \in Refresh /\ BeginRefresh(r)
      BY <3>3 DEF BeginRefresh
    <3>4. CASE r \in Refresh /\ FinishRefresh(r)
      BY <3>4 DEF FinishRefresh
    <3>5. CASE Reject(r)
      BY <3>5 DEF Reject
    <3>6. CASE FindUser(r)
      BY <3>6 DEF FindUser
    <3>7. CASE Fail(r)
      BY <3>7 DEF Fail
    <3>8. QED
      BY <1>10, <3>1, <3>2, <3>3, <3>4, <3>5, <3>6, <3>7
  <2>2. QED
    BY <2>1, <1>2, <1>3, <1>4 DEF Stutter
<1>11. ASSUME UNCHANGED vars \/ Tick \/ \E u \in User, p \in Password : ChangePassword(u, p) PROVE Stutter
  <2>1. UNCHANGED <<hasRole, asks, guard, pc, who>>
    BY <1>11 DEF vars, Tick, ChangePassword
  <2>2. QED
    BY <2>1, <1>2, <1>3, <1>4 DEF Stutter
<1>12. ASSUME NEW u \in User, NEW X \in SUBSET Role, ChangeRoles(u, X) PROVE TheGate!Next
  <2>1. UNCHANGED <<guard, pc, who>>
    BY <1>12 DEF ChangeRoles
  <2>2. TheGate!RightsChange
    BY <1>1, <1>3, <1>4, <2>1 DEF TheGate!RightsChange
  <2>3. QED
    BY <2>2 DEF TheGate!Next
<1>13. ASSUME NEW r \in Call, BeginCall(r) PROVE TheGate!Next
  <2>1. PICK t \in {t \in tokens : ValidateToken(t)} : who' = [who EXCEPT ![r] = t.user]
    BY ONLY <1>13, Zenon DEF BeginCall
  <2>2. t.user \in User
    BY <2>1 DEF Token
  <2>3. \E g \in {"none", "can", "can_any"} : guard' = [guard EXCEPT ![r] = g]
    BY ONLY <1>13, Zenon DEF BeginCall
  <2>4. pc[r] = "idle" /\ pc' = [pc EXCEPT ![r] = "find_user"] /\ guard[r] = "none" /\ hasRole' = hasRole
    BY <1>13 DEF BeginCall
  <2>5. GateVerdict[r] = "none"
    BY <2>4 DEF GateVerdict
  <2>6. CASE guard'[r] = "none"
    <3>1. GateCaller' = GateCaller
      BY <2>1, <2>3, <2>4, <2>6 DEF GateCaller
    <3>2. GateVerdict' = GateVerdict
      BY <2>3, <2>4, <2>6 DEF GateVerdict
    <3>3. TheGate!RightsChange
      BY <1>1, <3>1, <3>2 DEF TheGate!RightsChange
    <3>4. QED
      BY <3>3 DEF TheGate!Next
  <2>7. CASE guard'[r] # "none"
    <3>1. GateCaller' = [GateCaller EXCEPT ![r] = t.user]
      BY <2>1, <2>3, <2>4, <2>7 DEF GateCaller
    <3>2. GateVerdict' = [GateVerdict EXCEPT ![r] = "waiting"]
      BY <2>3, <2>4, <2>7 DEF GateVerdict
    <3>3. TheGate!Arrive(r, t.user)
      BY <1>1, <2>5, <3>1, <3>2 DEF TheGate!Arrive
    <3>4. QED
      BY <2>2, <3>3 DEF TheGate!Next
  <2>8. QED
    BY <2>6, <2>7
<1>14. ASSUME NEW r \in Call, Reject(r) PROVE TheGate!Next
  BY <1>14, <1>8 DEF Reject
<1>15. ASSUME NEW r \in Call, FindUser(r) PROVE Stutter
  <2>1. pc[r] = "find_user" /\ pc' = [pc EXCEPT ![r] = "find_roles"] /\ UNCHANGED <<hasRole, asks, guard, who>>
    BY <1>15 DEF FindUser, InFlight
  <2>2. GateVerdict[r] = GateVerdict'[r]
    BY <2>1 DEF GateVerdict
  <2>3. QED
    BY <2>1, <2>2, <1>7
<1>16. ASSUME NEW r \in Call, Identify(r) PROVE Stutter
  <2>1. pc[r] = "find_roles" /\ pc' = [pc EXCEPT ![r] = pc'[r]] /\ UNCHANGED <<hasRole, asks, guard, who>>
    BY <1>16 DEF Identify
  <2>2. pc'[r] = IF guard[r] = "none" THEN "handler" ELSE "role_query"
    BY <1>16 DEF Identify
  <2>3. GateVerdict[r] = GateVerdict'[r]
    BY <2>1, <2>2 DEF GateVerdict
  <2>4. QED
    BY <2>1, <2>3, <1>7
<1>17. ASSUME NEW r \in Call, RoleBypass(r) PROVE TheGate!Next \/ Stutter
  <2>1. /\ pc[r] = "role_query" /\ pc' = [pc EXCEPT ![r] = pc'[r]] /\ UNCHANGED <<hasRole, asks, guard, who>>
        /\ pc'[r] = IF SuperRole \in RolesOf(who[r]) THEN "handler" ELSE AfterBypass(r)
    BY <1>17 DEF RoleBypass
  <2>2. CASE pc'[r] = "handler"
    BY <2>1, <2>2, <1>9 DEF AfterBypass, Holds
  <2>3. CASE pc'[r] = "unauthorized"
    BY <2>1, <2>3, <1>8
  <2>4. CASE pc'[r] = "permission_query"
    BY <2>1, <2>4, <1>7 DEF GateVerdict
  <2>5. QED
    BY <2>1, <2>2, <2>3, <2>4 DEF AfterBypass
<1>18. ASSUME NEW r \in Call, HasPermission(r) \/ GetPermissions(r) PROVE TheGate!Next
  <2>1. /\ pc[r] = "permission_query" /\ pc' = [pc EXCEPT ![r] = pc'[r]] /\ UNCHANGED <<hasRole, asks, guard, who>>
        /\ pc'[r] \in {"handler", "unauthorized"}
    BY <1>18 DEF HasPermission, GetPermissions
  <2>2. pc'[r] = "handler" => Holds(who[r], asks[r])
    <3>1. CASE HasPermission(r)
      BY <3>1 DEF HasPermission, Holds
    <3>2. CASE GetPermissions(r)
      BY <3>2 DEF GetPermissions, Holds
    <3>3. QED
      BY <1>18, <3>1, <3>2
  <2>3. QED
    BY <2>1, <2>2, <1>8, <1>9
<1>19. ASSUME NEW r \in Call, Handle(r) PROVE Stutter
  BY <1>19, <1>7 DEF Handle, GateVerdict
<1>20. ASSUME NEW r \in Call, Fail(r) PROVE TheGate!Next \/ Stutter
  <2>1. /\ pc[r] \in InFlight /\ pc' = [pc EXCEPT ![r] = pc'[r]] /\ UNCHANGED <<hasRole, asks, guard, who>>
        /\ pc'[r] = AfterFailure(r)
    BY <1>20 DEF Fail
  <2>2. CASE pc[r] = "handler"
    <3>1. pc'[r] = "unknown"
      BY <2>1, <2>2 DEF AfterFailure
    <3>2. QED
      BY <2>1, <2>2, <3>1, <1>7 DEF GateVerdict
  <2>3. CASE pc[r] = "role_query"
    <3>1. pc'[r] = AfterBypass(r)
      BY <2>1, <2>3 DEF AfterFailure
    <3>2. CASE pc'[r] = "unauthorized"
      BY <2>1, <2>3, <3>2, <1>8
    <3>3. CASE pc'[r] = "permission_query"
      BY <2>1, <2>3, <3>3, <1>7 DEF GateVerdict
    <3>4. QED
      BY <3>1, <3>2, <3>3 DEF AfterBypass
  <2>4. CASE pc[r] \in {"find_user", "find_roles", "permission_query"}
    <3>1. pc'[r] = "unauthorized"
      BY <2>1, <2>4 DEF AfterFailure
    <3>2. QED
      BY <2>1, <2>4, <3>1, <1>8
  <2>5. QED
    BY <2>1, <2>2, <2>3, <2>4 DEF InFlight
<1>21. TheGate!Next \/ Stutter
  BY <1>10, <1>11, <1>12, <1>13, <1>14, <1>15, <1>16, <1>17, <1>18, <1>19, <1>20 DEF Next, Step, World
<1>22. QED
  BY <1>6, <1>21

\* Access implements the gate.
THEOREM DecidesOnce == Spec => DecidesAtOneMoment
<1>1. Init => TheGate!Init
  BY ConstantsAssumption
     DEF Init, TheGate!Init, GateHolds, GateCaller, GateVerdict, Request
<1>2. IInv /\ [Next]_vars => [TheGate!Next]_(TheGate!vars)
  BY GateNext DEF IInv
<1>3. QED
  BY Invariant, <1>1, <1>2, PTL DEF Spec, DecidesAtOneMoment, TheGate!Spec
==============================================================================
