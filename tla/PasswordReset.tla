---------------------------- MODULE PasswordReset ----------------------------
(***************************************************************************)
(* The forgotten-password flow of package/auth: POST /v1/forgot-password   *)
(* and POST /v1/reset-password, over iam.users and iam.password_resets.    *)
(*                                                                         *)
(* Every .await of the two service methods is a statement of its own, in   *)
(* autocommit: no transaction spans two of them.  So every statement is a  *)
(* step of its own here, and the steps of all requests in flight           *)
(* interleave.  A request may fail at any of them (the database, the       *)
(* connection pool or the mail server answers with an error, the client    *)
(* hangs up and the handler's future is dropped, the process stops): what  *)
(* it did stays, what it had left to do never happens.                     *)
(*                                                                         *)
(* A request is one element of Recovery or of Reset.  A token is drawn     *)
(* from 32 random bytes, so it is named by the recovery request that drew  *)
(* it; the password a reset request submits is named by that request.      *)
(***************************************************************************)
EXTENDS Integers, FiniteSets

CONSTANTS
    User,        \* rows of iam.users (no statement of the program removes one)
    Address,     \* email addresses
    Recovery,    \* requests to POST /v1/forgot-password
    Reset,       \* requests to POST /v1/reset-password
    None,        \* no address, no token; a password no reset chose
    Ttl,         \* PASSWORD_RESET_TTL_MINUTES, in ticks of the clock
    Skew,        \* how far a server's clock may be from the database's
    MaxTime      \* bound of the clock

ASSUME ConstantsAssumption ==
    /\ Recovery \cap Reset = {}
    /\ None \notin Address \cup Recovery \cup Reset
    /\ Ttl \in Nat /\ Skew \in Nat /\ MaxTime \in Nat

Request == Recovery \cup Reset

VARIABLES
    email,       \* iam.users.email of each user: unique
    password,    \* iam.users.password of each user: the reset that chose it, if one did
    resets,      \* the rows of iam.password_resets
    mailbox,     \* the mails delivered: which token went to which address
    now,         \* the database's clock
    pc,          \* the statement each request stands at, or how it was answered
    address,     \* the address a request is about, once it knows it
    token,       \* the token a reset request presents
    created_at,  \* NOW() of a recovery's INSERT; the created_at a reset has read
    admitted_at, \* the database's time when a reset's age check passed
    earlier      \* the requests (for a reset: resets) that were over before a request began

table == <<email, password, resets>>
locals == <<address, token, created_at, admitted_at, earlier>>
vars == <<table, mailbox, now, pc, locals>>

RecoverySteps == {"find_user", "delete_pending", "insert", "send_mail"}
ResetSteps == {"find_token", "check_age", "update", "delete_used"}
InFlight == RecoverySteps \cup ResetSteps \cup {"reply"}
Answered == {"ok", "not_found", "bad_request", "aborted"}

\* A row of iam.password_resets.  Nothing in the table is unique.
Row == [email : Address, token : Recovery, created_at : 0..MaxTime]

------------------------------------------------------------------------------
(* The statements of PostgresAuthStore. *)

Holders(a) == {u \in User : email[u] = a}
RowsOf(t) == {row \in resets : row.token = t}

\* Mutant: the DELETE without its WHERE.
DeletePasswordResetAll(a) == resets' = {}

\* Mutant: the two parameters of the INSERT bound in the wrong order.
CreatePasswordResetSwapped(a, t) ==
    resets' = resets \cup {[email |-> t, token |-> a, created_at |-> now]}

DeletePasswordReset(a) == resets' = {row \in resets : row.email # a}

CreatePasswordReset(a, t) ==
    resets' = resets \cup {[email |-> a, token |-> t, created_at |-> now]}

\* UPDATE ... WHERE email: when nobody holds the address it changes no row, and succeeds.
ResetPassword(a, new) ==
    password' = [u \in User |-> IF u \in Holders(a) THEN new ELSE password[u]]

Goto(r, step) == pc' = [pc EXCEPT ![r] = step]

\* The requests that have come to their end, whichever, with no statement left to run.
Over == {q \in Request : pc[q] \in Answered}

------------------------------------------------------------------------------
(* AuthService::password_recovery *)

\* The request arrives: the handler has validated the payload.
BeginRecovery(r, a) ==
    /\ pc[r] = "idle"
    /\ Goto(r, "find_user")
    /\ address' = [address EXCEPT ![r] = a]
    /\ earlier' = [earlier EXCEPT ![r] = Over]
    /\ UNCHANGED <<table, mailbox, now, token, created_at, admitted_at>>

FindUser(r) ==
    /\ pc[r] = "find_user"
    /\ Goto(r, IF Holders(address[r]) # {} THEN "delete_pending" ELSE "not_found")
    /\ UNCHANGED <<table, mailbox, now, locals>>

\* Mutant: the pending rows are kept.
DeletePendingSkipped(r) ==
    /\ pc[r] = "delete_pending"
    /\ Goto(r, "insert")
    /\ UNCHANGED <<table, mailbox, now, locals>>

DeletePending(r) ==
    /\ pc[r] = "delete_pending"
    /\ DeletePasswordReset(address[r])
    /\ Goto(r, "insert")
    /\ UNCHANGED <<email, password, mailbox, now, locals>>

Insert(r) ==
    /\ pc[r] = "insert"
    /\ CreatePasswordReset(address[r], r)
    /\ created_at' = [created_at EXCEPT ![r] = now]
    /\ Goto(r, "send_mail")
    /\ UNCHANGED <<email, password, mailbox, now, address, token, admitted_at, earlier>>

\* The mail is the only copy of the raw token; a client can present it from now on.
SendMail(r) ==
    /\ pc[r] = "send_mail"
    /\ mailbox' = mailbox \cup {[to |-> address[r], token |-> r]}
    /\ Goto(r, "reply")
    /\ UNCHANGED <<table, now, locals>>

------------------------------------------------------------------------------
(* AuthService::reset_password *)

BeginReset(r, t) ==
    /\ pc[r] = "idle"
    /\ \E mail \in mailbox : mail.token = t
    /\ Goto(r, "find_token")
    /\ token' = [token EXCEPT ![r] = t]
    /\ earlier' = [earlier EXCEPT ![r] = Over \cap Reset]
    /\ UNCHANGED <<table, mailbox, now, address, created_at, admitted_at>>

FindToken(r) ==
    /\ pc[r] = "find_token"
    /\ \/ \E row \in RowsOf(token[r]) :
            /\ address' = [address EXCEPT ![r] = row.email]
            /\ created_at' = [created_at EXCEPT ![r] = row.created_at]
            /\ Goto(r, "check_age")
       \/ /\ RowsOf(token[r]) = {}
          /\ Goto(r, "bad_request")
          /\ UNCHANGED <<address, created_at>>
    /\ UNCHANGED <<table, mailbox, now, token, admitted_at, earlier>>

\* Mutant: the age is not checked.
CheckAgeUnchecked(r) ==
    /\ pc[r] = "check_age"
    /\ Goto(r, "update")
    /\ admitted_at' = [admitted_at EXCEPT ![r] = now]
    /\ UNCHANGED <<table, mailbox, now, address, token, created_at, earlier>>

\* created_at is the database's NOW(), the age check reads the server's own clock.
CheckAge(r) ==
    /\ pc[r] = "check_age"
    /\ \E utc_now \in (now - Skew)..(now + Skew) :
         IF created_at[r] + Ttl < utc_now
         THEN /\ Goto(r, "bad_request")
              /\ UNCHANGED admitted_at
         ELSE /\ Goto(r, "update")
              /\ admitted_at' = [admitted_at EXCEPT ![r] = now]
    /\ UNCHANGED <<table, mailbox, now, address, token, created_at, earlier>>

UpdatePassword(r) ==
    /\ pc[r] = "update"
    /\ ResetPassword(address[r], r)
    /\ Goto(r, "delete_used")
    /\ UNCHANGED <<email, resets, mailbox, now, locals>>

\* Mutant: the token is not consumed.
DeleteUsedSkipped(r) ==
    /\ pc[r] = "delete_used"
    /\ Goto(r, "reply")
    /\ UNCHANGED <<table, mailbox, now, locals>>

DeleteUsed(r) ==
    /\ pc[r] = "delete_used"
    /\ DeletePasswordReset(address[r])
    /\ Goto(r, "reply")
    /\ UNCHANGED <<email, password, mailbox, now, locals>>

------------------------------------------------------------------------------
(* Both handlers, and what happens around them. *)

Reply(r) ==
    /\ pc[r] = "reply"
    /\ Goto(r, "ok")
    /\ UNCHANGED <<table, mailbox, now, locals>>

\* The statement r waits for fails, or its answer is lost (pc then stands at the
\* statement after it), or the future is dropped.  There is no compensation.
Abort(r) ==
    /\ pc[r] \in InFlight
    /\ Goto(r, "aborted")
    /\ UNCHANGED <<table, mailbox, now, locals>>

\* PATCH /v1/users/{id} with an email, a password or both: users.email is UNIQUE.
PatchUser(u, a, new_password) ==
    /\ Holders(a) \subseteq {u}
    /\ email' = [email EXCEPT ![u] = a]
    /\ password' = [password EXCEPT ![u] = IF new_password THEN None ELSE @]
    /\ UNCHANGED <<resets, mailbox, now, pc, locals>>

Tick ==
    /\ now < MaxTime
    /\ now' = now + 1
    /\ UNCHANGED <<table, mailbox, pc, locals>>

------------------------------------------------------------------------------

Init ==
    /\ email \in {e \in [User -> Address] : \A u, v \in User : e[u] = e[v] => u = v}
    /\ password = [u \in User |-> None]
    /\ resets = {} /\ mailbox = {} /\ now = 0
    /\ pc = [r \in Request |-> "idle"]
    /\ address = [r \in Request |-> None]
    /\ token = [r \in Request |-> None]
    /\ created_at = [r \in Request |-> 0]
    /\ admitted_at = [r \in Request |-> 0]
    /\ earlier = [r \in Request |-> {}]

\* What the runtime does with a request once it has begun.
RecoveryStep(r) == FindUser(r) \/ DeletePending(r) \/ Insert(r) \/ SendMail(r) \/ Reply(r)
ResetStep(r) == FindToken(r) \/ CheckAge(r) \/ UpdatePassword(r) \/ DeleteUsed(r) \/ Reply(r)

Next ==
    \/ \E r \in Recovery : RecoveryStep(r) \/ \E a \in Address : BeginRecovery(r, a)
    \/ \E r \in Reset : ResetStep(r) \/ \E t \in Recovery : BeginReset(r, t)
    \/ \E r \in Request : Abort(r)
    \/ \E u \in User, a \in Address, b \in BOOLEAN : PatchUser(u, a, b)
    \/ Tick

Spec == Init /\ [][Next]_vars

------------------------------------------------------------------------------
(* Properties *)

TypeOK ==
    /\ email \in [User -> Address]
    /\ password \in [User -> Reset \cup {None}]
    /\ resets \subseteq Row
    /\ mailbox \subseteq [to : Address, token : Recovery]
    /\ now \in 0..MaxTime
    /\ pc \in [Request -> {"idle"} \cup InFlight \cup Answered]
    /\ address \in [Request -> Address \cup {None}]
    /\ token \in [Request -> Recovery \cup {None}]
    /\ created_at \in [Request -> 0..MaxTime]
    /\ admitted_at \in [Request -> 0..MaxTime]
    /\ earlier \in [Request -> SUBSET Request]

\* A password a reset chose was set by a request that presented a token issued for, and
\* mailed to, the address it acted on, and no older than the TTL (up to the skew of the
\* clocks) when it was admitted: for every interleaving, every failure.
PasswordsAreAuthorised ==
    \A u \in User : password[u] # None =>
        LET r == password[u]
            t == token[r]
        IN  /\ t \in Recovery
            /\ address[r] = address[t]
            /\ [to |-> address[r], token |-> t] \in mailbox
            /\ admitted_at[r] - created_at[t] \in 0..(Ttl + Skew)

\* "Requesting a second time replaces the first request": holds for a client that
\* waits until the first request is over, with success or not.  Once the second request is
\* past its DELETE, the row of the first is gone for good.
SecondRequestReplacesFirst ==
    \A p, q \in Recovery :
        /\ p \in earlier[q]
        /\ address[p] = address[q]
        /\ pc[q] \in {"insert", "send_mail", "reply", "ok"}
        => RowsOf(p) = {}

\* A client that presents a token again, after a reset with it was answered with
\* success, is never let past the token lookup.
SpentTokenIsRefused ==
    \A q, r \in Reset :
        /\ q \in earlier[r] /\ pc[q] = "ok"
        /\ token[q] = token[r]
        => pc[r] \in {"idle", "find_token", "bad_request", "aborted"}

\* Requests about other addresses, and requests that were over before a link was asked
\* for, those that failed half-way among them, do not take its row away.
UndisturbedLinkIsLive ==
    \A q \in Recovery :
        /\ pc[q] = "ok"
        /\ \A r \in Request \ {q} : address[r] = address[q] => r \in earlier[q]
        => RowsOf(q) # {}

------------------------------------------------------------------------------
(* What the comments and the API's documentation say, which does not hold. *)

\* service.rs: "Only one pending request per address is kept."
OnePendingPerAddress ==
    \A x, y \in resets : x.email = y.email => x = y

\* openapi.yaml: the token "is consumed on use"; Reset Password.bru: "The token is
\* single use".  So no two resets are answered with success for one token.
TokenIsSingleUse ==
    \A q, r \in Reset : pc[q] = "ok" /\ pc[r] = "ok" /\ token[q] = token[r] => q = r

\* openapi.yaml, 200 of /v1/reset-password: "The password was changed."
SuccessMeansChanged ==
    [][\A r \in Reset :
        pc[r] = "update" /\ pc'[r] = "delete_used" => \E u \in User : password'[u] = r]_vars
==============================================================================
