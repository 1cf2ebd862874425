------------------------- MODULE PasswordResetProofs -------------------------
(***************************************************************************)
(* The safety properties of PasswordReset, for every set of users,         *)
(* addresses and requests, every TTL and every skew of the clocks.         *)
(*                                                                         *)
(* None of them is inductive: each speaks of the far ends of a chain (a    *)
(* password and the mail that allowed it; a row and an earlier request)    *)
(* whose middle links are what the requests in flight hold in their local  *)
(* variables.  IInv states those links.                                    *)
(***************************************************************************)
EXTENDS PasswordReset, TLAPS

\* Recovery requests only stand at recovery statements, reset requests at reset ones.
PcOK ==
    /\ \A r \in Recovery : pc[r] \notin ResetSteps
    /\ \A r \in Reset : pc[r] \notin RecoverySteps

\* A request that has not begun is about nothing; a reset knows its address from the row.
NotYetKnown ==
    /\ \A r \in Request : pc[r] = "idle" => address[r] = None
    /\ \A r \in Recovery : pc[r] # "idle" => address[r] # None
    /\ \A r \in Reset : pc[r] = "find_token" => address[r] = None

\* A recovery request whose INSERT may have happened, or can no longer happen.
Past(t) == pc[t] \in {"send_mail", "reply", "ok", "aborted"}

\* A row belongs to the request that inserted it.
RowsAreIssued ==
    \A row \in resets :
        /\ row.email = address[row.token]
        /\ row.created_at = created_at[row.token]
        /\ Past(row.token)

\* A mail went to the address its token was issued for.
MailsAreIssued ==
    \A mail \in mailbox : mail.to = address[mail.token] /\ Past(mail.token)

\* What a reset in flight knows: a mailed token and, once it has found it, the row.
Informed(r) ==
    /\ token[r] \in Recovery
    /\ \E mail \in mailbox : mail.token = token[r]
    /\ address[r] # None =>
        /\ address[r] = address[token[r]]
        /\ created_at[r] = created_at[token[r]]

ResetsAreInformed == \A r \in Reset : pc[r] # "idle" => Informed(r)

\* The age check has passed.
Admitted(r) ==
    /\ address[r] # None
    /\ admitted_at[r] - created_at[r] \in 0..(Ttl + Skew)

Found ==
    \A r \in Reset : pc[r] \in {"check_age", "update", "delete_used", "reply", "ok"} => address[r] # None

ChecksHold ==
    \A r \in Reset : pc[r] \in {"update", "delete_used", "reply", "ok"} => Admitted(r)

PasswordsAreAdmitted ==
    \A u \in User : password[u] # None =>
        /\ pc[password[u]] \in {"delete_used", "reply", "ok", "aborted"}
        /\ Admitted(password[u])

StampsArePast == \A r \in Request : created_at[r] <= now

\* What is over stays as it ended.
EarlierAreDone == \A r \in Request : \A q \in earlier[r] : q # r /\ pc[q] \in Answered

\* Deletion by address takes the presented token's row away.
SpentTokenIsGone ==
    \A q \in Reset : pc[q] \in {"reply", "ok"} => RowsOf(token[q]) = {}

\* UndisturbedLinkIsLive from the INSERT on.
UndisturbedRowIsLive ==
    \A q \in Recovery :
        /\ pc[q] \in {"send_mail", "reply", "ok"}
        /\ \A r \in Request \ {q} : address[r] = address[q] => r \in earlier[q]
        => RowsOf(q) # {}

Links ==
    /\ PcOK /\ NotYetKnown
    /\ RowsAreIssued /\ MailsAreIssued
    /\ ResetsAreInformed /\ Found /\ ChecksHold /\ PasswordsAreAdmitted
    /\ StampsArePast /\ EarlierAreDone

IInv ==
    /\ TypeOK /\ Links
    /\ SecondRequestReplacesFirst
    /\ SpentTokenIsGone /\ SpentTokenIsRefused
    /\ UndisturbedRowIsLive
------------------------------------------------------------------------------
(* Type correctness *)

\* The type invariant holds initially.
LEMMA TypeInit == Init => TypeOK
BY ConstantsAssumption DEF Init, TypeOK, InFlight, Request

\* Every step of every request keeps the types.  NotYetKnown says why the INSERT and
\* the mail have an address.
LEMMA TypeNext == TypeOK /\ NotYetKnown /\ [Next]_vars => TypeOK'
<1> SUFFICES ASSUME TypeOK, NotYetKnown, [Next]_vars PROVE TypeOK'
  OBVIOUS
<1> USE DEF TypeOK, Goto, table, locals, InFlight, RecoverySteps, ResetSteps, Answered
<1>1. ASSUME NEW r \in Recovery, NEW a \in Address, BeginRecovery(r, a) PROVE TypeOK'
  BY <1>1 DEF BeginRecovery, Over, Request
<1>2. ASSUME NEW r \in Recovery, FindUser(r) PROVE TypeOK'
  BY <1>2 DEF FindUser, Request
<1>3. ASSUME NEW r \in Recovery, DeletePending(r) PROVE TypeOK'
  BY <1>3 DEF DeletePending, DeletePasswordReset, Request
<1>4. ASSUME NEW r \in Recovery, Insert(r) PROVE TypeOK'
  BY <1>4 DEF Insert, CreatePasswordReset, Request, Row, NotYetKnown
<1>5. ASSUME NEW r \in Recovery, SendMail(r) PROVE TypeOK'
  BY <1>5 DEF SendMail, Request, NotYetKnown
<1>6. ASSUME NEW r \in Reset, NEW t \in Recovery, BeginReset(r, t) PROVE TypeOK'
  BY <1>6 DEF BeginReset, Over, Request
<1>7. ASSUME NEW r \in Reset, FindToken(r) PROVE TypeOK'
  BY <1>7 DEF FindToken, Request, Row, RowsOf
<1>8. ASSUME NEW r \in Reset, CheckAge(r) PROVE TypeOK'
  BY <1>8 DEF CheckAge, Request
<1>9. ASSUME NEW r \in Reset, UpdatePassword(r) PROVE TypeOK'
  BY <1>9 DEF UpdatePassword, ResetPassword, Request
<1>10. ASSUME NEW r \in Reset, DeleteUsed(r) PROVE TypeOK'
  BY <1>10 DEF DeleteUsed, DeletePasswordReset, Request
<1>11. ASSUME NEW r \in Request, Reply(r) PROVE TypeOK'
  BY <1>11 DEF Reply
<1>12. ASSUME NEW r \in Request, Abort(r) PROVE TypeOK'
  BY <1>12 DEF Abort
<1>13. ASSUME NEW u \in User, NEW a \in Address, NEW b \in BOOLEAN, PatchUser(u, a, b)
       PROVE TypeOK'
  BY <1>13 DEF PatchUser
<1>14. CASE Tick
  BY <1>14, ConstantsAssumption DEF Tick
<1>15. CASE UNCHANGED vars
  BY <1>15 DEF vars
<1>16. QED
  BY <1>1, <1>2, <1>3, <1>4, <1>5, <1>6, <1>7, <1>8, <1>9, <1>10, <1>11, <1>12, <1>13,
     <1>14, <1>15 DEF Next, RecoveryStep, ResetStep, Request

------------------------------------------------------------------------------
(* The links *)

\* Every step keeps the links between what requests in flight know, the table, the
\* mails and the passwords.  FindToken makes the link from a reset to the request that
\* issued its token (RowsAreIssued); CheckAge the one to the age of the row.
LEMMA LinksNext == TypeOK /\ TypeOK' /\ Links /\ [Next]_vars => Links'
<1> SUFFICES ASSUME TypeOK, TypeOK', Links, [Next]_vars PROVE Links'
  OBVIOUS
<1> USE ConstantsAssumption
    DEF TypeOK, Goto, table, locals, InFlight, RecoverySteps, ResetSteps, Answered, Request,
        Links, PcOK, NotYetKnown, RowsAreIssued, MailsAreIssued, Past, ResetsAreInformed,
        Informed, Found, ChecksHold, PasswordsAreAdmitted, Admitted, StampsArePast,
        EarlierAreDone
<1>1. ASSUME NEW r \in Recovery, NEW a \in Address, BeginRecovery(r, a) PROVE Links'
  BY <1>1 DEF BeginRecovery, Over
<1>2. ASSUME NEW r \in Recovery, FindUser(r) PROVE Links'
  BY <1>2 DEF FindUser
<1>3. ASSUME NEW r \in Recovery, DeletePending(r) PROVE Links'
  BY <1>3 DEF DeletePending, DeletePasswordReset
<1>4. ASSUME NEW r \in Recovery, Insert(r) PROVE Links'
  BY <1>4 DEF Insert, CreatePasswordReset
<1>5. ASSUME NEW r \in Recovery, SendMail(r) PROVE Links'
  BY <1>5 DEF SendMail
<1>6. ASSUME NEW r \in Reset, NEW t \in Recovery, BeginReset(r, t) PROVE Links'
  BY <1>6 DEF BeginReset, Over
<1>7. ASSUME NEW r \in Reset, FindToken(r) PROVE Links'
  BY <1>7 DEF FindToken, RowsOf, Row
<1>8. ASSUME NEW r \in Reset, CheckAge(r) PROVE Links'
  <2>1. PICK utc_now \in (now - Skew)..(now + Skew) :
          IF created_at[r] + Ttl < utc_now
          THEN Goto(r, "bad_request") /\ UNCHANGED admitted_at
          ELSE Goto(r, "update") /\ admitted_at' = [admitted_at EXCEPT ![r] = now]
    BY <1>8 DEF CheckAge
  <2>2. UNCHANGED <<table, mailbox, now, address, token, created_at, earlier>> /\ pc[r] = "check_age"
    BY <1>8 DEF CheckAge
  <2>3. CASE created_at[r] + Ttl < utc_now
    <3>1. Goto(r, "bad_request") /\ UNCHANGED admitted_at
      BY <2>1, <2>3
    <3>2. QED
      BY <2>2, <3>1
  <2>4. CASE ~(created_at[r] + Ttl < utc_now)
    <3>1. now - created_at[r] \in 0..(Ttl + Skew)
      BY <2>4
    <3>2. \A q \in Reset : pc'[q] \in {"update", "delete_used", "reply", "ok"} => Admitted(q)'
      BY <2>1, <2>2, <2>4, <3>1
    <3>3. PasswordsAreAdmitted'
      BY <2>1, <2>2, <2>4
    <3>4. Goto(r, "update") /\ admitted_at' = [admitted_at EXCEPT ![r] = now]
      BY <2>1, <2>4
    <3>5. QED
      BY <2>2, <3>2, <3>3, <3>4
  <2>5. QED
    BY <2>3, <2>4
<1>9. ASSUME NEW r \in Reset, UpdatePassword(r) PROVE Links'
  BY <1>9 DEF UpdatePassword, ResetPassword, Holders
<1>10. ASSUME NEW r \in Reset, DeleteUsed(r) PROVE Links'
  BY <1>10 DEF DeleteUsed, DeletePasswordReset
<1>11. ASSUME NEW r \in Request, Reply(r) PROVE Links'
  BY <1>11 DEF Reply
<1>12. ASSUME NEW r \in Request, Abort(r) PROVE Links'
  BY <1>12 DEF Abort
<1>13. ASSUME NEW u \in User, NEW a \in Address, NEW b \in BOOLEAN, PatchUser(u, a, b)
       PROVE Links'
  BY <1>13 DEF PatchUser
<1>14. CASE Tick
  BY <1>14 DEF Tick
<1>15. CASE UNCHANGED vars
  BY <1>15 DEF vars
<1>16. QED
  BY <1>1, <1>2, <1>3, <1>4, <1>5, <1>6, <1>7, <1>8, <1>9, <1>10, <1>11, <1>12, <1>13,
     <1>14, <1>15 DEF Next, RecoveryStep, ResetStep

------------------------------------------------------------------------------
(* Tokens over time *)

\* The second request's DELETE takes the first one's row, and the first, being done,
\* inserts no other.
LEMMA SecondRequestReplacesFirstNext ==
    TypeOK /\ Links /\ SecondRequestReplacesFirst /\ [Next]_vars => SecondRequestReplacesFirst'
<1> SUFFICES ASSUME TypeOK, Links, SecondRequestReplacesFirst, [Next]_vars PROVE SecondRequestReplacesFirst'
  OBVIOUS
<1> USE ConstantsAssumption
    DEF TypeOK, Goto, table, locals, Request, Links, PcOK, NotYetKnown, RecoverySteps,
        ResetSteps, Answered, InFlight, RowsAreIssued, Past, EarlierAreDone, SecondRequestReplacesFirst, RowsOf
<1>1. ASSUME NEW r \in Recovery, NEW a \in Address, BeginRecovery(r, a) PROVE SecondRequestReplacesFirst'
  BY <1>1 DEF BeginRecovery, Over
<1>2. ASSUME NEW r \in Recovery, FindUser(r) PROVE SecondRequestReplacesFirst'
  BY <1>2 DEF FindUser
<1>3. ASSUME NEW r \in Recovery, DeletePending(r) PROVE SecondRequestReplacesFirst'
  BY <1>3 DEF DeletePending, DeletePasswordReset
<1>4. ASSUME NEW r \in Recovery, Insert(r) PROVE SecondRequestReplacesFirst'
  BY <1>4 DEF Insert, CreatePasswordReset
<1>5. ASSUME NEW r \in Recovery, SendMail(r) PROVE SecondRequestReplacesFirst'
  BY <1>5 DEF SendMail
<1>6. ASSUME NEW r \in Reset, NEW t \in Recovery, BeginReset(r, t) PROVE SecondRequestReplacesFirst'
  BY <1>6 DEF BeginReset, Over
<1>7. ASSUME NEW r \in Reset, FindToken(r) PROVE SecondRequestReplacesFirst'
  BY <1>7 DEF FindToken, Row
<1>8. ASSUME NEW r \in Reset, CheckAge(r) PROVE SecondRequestReplacesFirst'
  BY <1>8 DEF CheckAge
<1>9. ASSUME NEW r \in Reset, UpdatePassword(r) PROVE SecondRequestReplacesFirst'
  BY <1>9 DEF UpdatePassword, ResetPassword, Holders
<1>10. ASSUME NEW r \in Reset, DeleteUsed(r) PROVE SecondRequestReplacesFirst'
  BY <1>10 DEF DeleteUsed, DeletePasswordReset
<1>11. ASSUME NEW r \in Request, Reply(r) PROVE SecondRequestReplacesFirst'
  BY <1>11 DEF Reply
<1>12. ASSUME NEW r \in Request, Abort(r) PROVE SecondRequestReplacesFirst'
  BY <1>12 DEF Abort
<1>13. ASSUME NEW u \in User, NEW a \in Address, NEW b \in BOOLEAN, PatchUser(u, a, b)
       PROVE SecondRequestReplacesFirst'
  BY <1>13 DEF PatchUser
<1>14. CASE Tick
  BY <1>14 DEF Tick
<1>15. CASE UNCHANGED vars
  BY <1>15 DEF vars
<1>16. QED
  BY <1>1, <1>2, <1>3, <1>4, <1>5, <1>6, <1>7, <1>8, <1>9, <1>10, <1>11, <1>12, <1>13,
     <1>14, <1>15 DEF Next, RecoveryStep, ResetStep

\* The DELETE is by address: the row of the token presented has that address, and its
\* request cannot insert it again.
LEMMA SpentTokenIsGoneNext ==
    TypeOK /\ Links /\ SpentTokenIsGone /\ [Next]_vars => SpentTokenIsGone'
<1> SUFFICES ASSUME TypeOK, Links, SpentTokenIsGone, [Next]_vars PROVE SpentTokenIsGone'
  OBVIOUS
<1> USE ConstantsAssumption
    DEF TypeOK, Goto, table, locals, Request, Links, PcOK, NotYetKnown, RecoverySteps,
        ResetSteps, RowsAreIssued, Past, MailsAreIssued, ResetsAreInformed, Informed,
        Found, SpentTokenIsGone, RowsOf
<1>1. ASSUME NEW r \in Recovery, NEW a \in Address, BeginRecovery(r, a) PROVE SpentTokenIsGone'
  BY <1>1 DEF BeginRecovery, Over
<1>2. ASSUME NEW r \in Recovery, FindUser(r) PROVE SpentTokenIsGone'
  BY <1>2 DEF FindUser
<1>3. ASSUME NEW r \in Recovery, DeletePending(r) PROVE SpentTokenIsGone'
  BY <1>3 DEF DeletePending, DeletePasswordReset
<1>4. ASSUME NEW r \in Recovery, Insert(r) PROVE SpentTokenIsGone'
  BY <1>4 DEF Insert, CreatePasswordReset
<1>5. ASSUME NEW r \in Recovery, SendMail(r) PROVE SpentTokenIsGone'
  BY <1>5 DEF SendMail
<1>6. ASSUME NEW r \in Reset, NEW t \in Recovery, BeginReset(r, t) PROVE SpentTokenIsGone'
  BY <1>6 DEF BeginReset, Over
<1>7. ASSUME NEW r \in Reset, FindToken(r) PROVE SpentTokenIsGone'
  BY <1>7 DEF FindToken, Row
<1>8. ASSUME NEW r \in Reset, CheckAge(r) PROVE SpentTokenIsGone'
  BY <1>8 DEF CheckAge
<1>9. ASSUME NEW r \in Reset, UpdatePassword(r) PROVE SpentTokenIsGone'
  BY <1>9 DEF UpdatePassword, ResetPassword, Holders
<1>10. ASSUME NEW r \in Reset, DeleteUsed(r) PROVE SpentTokenIsGone'
  BY <1>10 DEF DeleteUsed, DeletePasswordReset
<1>11. ASSUME NEW r \in Request, Reply(r) PROVE SpentTokenIsGone'
  BY <1>11 DEF Reply
<1>12. ASSUME NEW r \in Request, Abort(r) PROVE SpentTokenIsGone'
  BY <1>12 DEF Abort
<1>13. ASSUME NEW u \in User, NEW a \in Address, NEW b \in BOOLEAN, PatchUser(u, a, b)
       PROVE SpentTokenIsGone'
  BY <1>13 DEF PatchUser
<1>14. CASE Tick
  BY <1>14 DEF Tick
<1>15. CASE UNCHANGED vars
  BY <1>15 DEF vars
<1>16. QED
  BY <1>1, <1>2, <1>3, <1>4, <1>5, <1>6, <1>7, <1>8, <1>9, <1>10, <1>11, <1>12, <1>13,
     <1>14, <1>15 DEF Next, RecoveryStep, ResetStep

\* A lookup that starts after the success finds no row.
LEMMA SpentTokenIsRefusedNext ==
    TypeOK /\ Links /\ SpentTokenIsGone /\ SpentTokenIsRefused /\ [Next]_vars => SpentTokenIsRefused'
<1> SUFFICES ASSUME TypeOK, Links, SpentTokenIsGone /\ SpentTokenIsRefused, [Next]_vars PROVE SpentTokenIsRefused'
  OBVIOUS
<1> USE ConstantsAssumption
    DEF TypeOK, Goto, table, locals, Request, Links, PcOK, NotYetKnown, RecoverySteps,
        ResetSteps, Answered, InFlight, EarlierAreDone, SpentTokenIsGone, SpentTokenIsRefused, RowsOf
<1>1. ASSUME NEW r \in Recovery, NEW a \in Address, BeginRecovery(r, a) PROVE SpentTokenIsRefused'
  BY <1>1 DEF BeginRecovery, Over
<1>2. ASSUME NEW r \in Recovery, FindUser(r) PROVE SpentTokenIsRefused'
  BY <1>2 DEF FindUser
<1>3. ASSUME NEW r \in Recovery, DeletePending(r) PROVE SpentTokenIsRefused'
  BY <1>3 DEF DeletePending, DeletePasswordReset
<1>4. ASSUME NEW r \in Recovery, Insert(r) PROVE SpentTokenIsRefused'
  BY <1>4 DEF Insert, CreatePasswordReset
<1>5. ASSUME NEW r \in Recovery, SendMail(r) PROVE SpentTokenIsRefused'
  BY <1>5 DEF SendMail
<1>6. ASSUME NEW r \in Reset, NEW t \in Recovery, BeginReset(r, t) PROVE SpentTokenIsRefused'
  BY <1>6 DEF BeginReset, Over
<1>7. ASSUME NEW r \in Reset, FindToken(r) PROVE SpentTokenIsRefused'
  BY <1>7 DEF FindToken, Row
<1>8. ASSUME NEW r \in Reset, CheckAge(r) PROVE SpentTokenIsRefused'
  BY <1>8 DEF CheckAge
<1>9. ASSUME NEW r \in Reset, UpdatePassword(r) PROVE SpentTokenIsRefused'
  BY <1>9 DEF UpdatePassword, ResetPassword, Holders
<1>10. ASSUME NEW r \in Reset, DeleteUsed(r) PROVE SpentTokenIsRefused'
  BY <1>10 DEF DeleteUsed, DeletePasswordReset
<1>11. ASSUME NEW r \in Request, Reply(r) PROVE SpentTokenIsRefused'
  BY <1>11 DEF Reply
<1>12. ASSUME NEW r \in Request, Abort(r) PROVE SpentTokenIsRefused'
  BY <1>12 DEF Abort
<1>13. ASSUME NEW u \in User, NEW a \in Address, NEW b \in BOOLEAN, PatchUser(u, a, b)
       PROVE SpentTokenIsRefused'
  BY <1>13 DEF PatchUser
<1>14. CASE Tick
  BY <1>14 DEF Tick
<1>15. CASE UNCHANGED vars
  BY <1>15 DEF vars
<1>16. QED
  BY <1>1, <1>2, <1>3, <1>4, <1>5, <1>6, <1>7, <1>8, <1>9, <1>10, <1>11, <1>12, <1>13,
     <1>14, <1>15 DEF Next, RecoveryStep, ResetStep

\* A DELETE that takes the row is of a request about its address, still in flight.
LEMMA UndisturbedRowIsLiveNext ==
    TypeOK /\ Links /\ UndisturbedRowIsLive /\ [Next]_vars => UndisturbedRowIsLive'
<1> SUFFICES ASSUME TypeOK, Links, UndisturbedRowIsLive, [Next]_vars PROVE UndisturbedRowIsLive'
  OBVIOUS
<1> USE ConstantsAssumption
    DEF TypeOK, Goto, table, locals, Request, Links, PcOK, NotYetKnown, RecoverySteps,
        ResetSteps, Answered, InFlight, RowsAreIssued, Past, EarlierAreDone, UndisturbedRowIsLive, RowsOf
<1>1. ASSUME NEW r \in Recovery, NEW a \in Address, BeginRecovery(r, a) PROVE UndisturbedRowIsLive'
  BY <1>1 DEF BeginRecovery, Over
<1>2. ASSUME NEW r \in Recovery, FindUser(r) PROVE UndisturbedRowIsLive'
  BY <1>2 DEF FindUser
<1>3. ASSUME NEW r \in Recovery, DeletePending(r) PROVE UndisturbedRowIsLive'
  BY <1>3 DEF DeletePending, DeletePasswordReset
<1>4. ASSUME NEW r \in Recovery, Insert(r) PROVE UndisturbedRowIsLive'
  <2>1. [email |-> address[r], token |-> r, created_at |-> now] \in RowsOf(r)'
    BY <1>4 DEF Insert, CreatePasswordReset
  <2>2. \A q \in Recovery : RowsOf(q) \subseteq RowsOf(q)'
    BY <1>4 DEF Insert, CreatePasswordReset
  <2>3. \A q \in Recovery \ {r} : pc'[q] = pc[q] /\ address' = address /\ earlier' = earlier
    BY <1>4 DEF Insert
  <2>4. QED
    <3> HIDE DEF RowsOf
    <3>1. QED
      BY <2>1, <2>2, <2>3
<1>5. ASSUME NEW r \in Recovery, SendMail(r) PROVE UndisturbedRowIsLive'
  BY <1>5 DEF SendMail
<1>6. ASSUME NEW r \in Reset, NEW t \in Recovery, BeginReset(r, t) PROVE UndisturbedRowIsLive'
  BY <1>6 DEF BeginReset, Over
<1>7. ASSUME NEW r \in Reset, FindToken(r) PROVE UndisturbedRowIsLive'
  BY <1>7 DEF FindToken, Row
<1>8. ASSUME NEW r \in Reset, CheckAge(r) PROVE UndisturbedRowIsLive'
  BY <1>8 DEF CheckAge
<1>9. ASSUME NEW r \in Reset, UpdatePassword(r) PROVE UndisturbedRowIsLive'
  BY <1>9 DEF UpdatePassword, ResetPassword, Holders
<1>10. ASSUME NEW r \in Reset, DeleteUsed(r) PROVE UndisturbedRowIsLive'
  BY <1>10 DEF DeleteUsed, DeletePasswordReset
<1>11. ASSUME NEW r \in Request, Reply(r) PROVE UndisturbedRowIsLive'
  BY <1>11 DEF Reply
<1>12. ASSUME NEW r \in Request, Abort(r) PROVE UndisturbedRowIsLive'
  BY <1>12 DEF Abort
<1>13. ASSUME NEW u \in User, NEW a \in Address, NEW b \in BOOLEAN, PatchUser(u, a, b)
       PROVE UndisturbedRowIsLive'
  BY <1>13 DEF PatchUser
<1>14. CASE Tick
  BY <1>14 DEF Tick
<1>15. CASE UNCHANGED vars
  BY <1>15 DEF vars
<1>16. QED
  BY <1>1, <1>2, <1>3, <1>4, <1>5, <1>6, <1>7, <1>8, <1>9, <1>10, <1>11, <1>12, <1>13,
     <1>14, <1>15 DEF Next, RecoveryStep, ResetStep

------------------------------------------------------------------------------
(* The inductive invariant, and the theorems *)

\* The invariant holds initially: no request has begun.
LEMMA InvInit == Init => IInv
<1> SUFFICES ASSUME Init PROVE IInv
  OBVIOUS
<1>1. TypeOK
  BY TypeInit
<1>2. Links
  BY ConstantsAssumption DEF Init, Links, PcOK, NotYetKnown, RowsAreIssued, MailsAreIssued,
     ResetsAreInformed, Found, ChecksHold, PasswordsAreAdmitted, StampsArePast,
     EarlierAreDone, Request, RecoverySteps, ResetSteps
<1>3. /\ SecondRequestReplacesFirst /\ SpentTokenIsGone
      /\ SpentTokenIsRefused /\ UndisturbedRowIsLive
  BY DEF Init, SecondRequestReplacesFirst, SpentTokenIsGone, SpentTokenIsRefused,
     UndisturbedRowIsLive, Request
<1>4. QED
  BY <1>1, <1>2, <1>3 DEF IInv

\* Every step keeps the invariant.
LEMMA InvNext == IInv /\ [Next]_vars => IInv'
<1> SUFFICES ASSUME IInv, [Next]_vars PROVE IInv'
  OBVIOUS
<1> USE DEF IInv
<1>1. TypeOK'
  BY TypeNext DEF Links
<1>2. Links'
  BY <1>1, LinksNext
<1>3. SecondRequestReplacesFirst'
  BY SecondRequestReplacesFirstNext
<1>4. SpentTokenIsGone' /\ SpentTokenIsRefused'
  BY SpentTokenIsGoneNext, SpentTokenIsRefusedNext
<1>5. UndisturbedRowIsLive'
  BY UndisturbedRowIsLiveNext
<1>6. QED
  BY <1>1, <1>2, <1>3, <1>4, <1>5

\* The strengthening holds in every reachable state.
THEOREM Invariant == Spec => []IInv
<1>1. QED
  BY InvInit, InvNext, PTL DEF Spec

\* Type correctness of the forgotten-password flow.
THEOREM TypeCorrect == Spec => []TypeOK
<1>1. IInv => TypeOK
  BY DEF IInv
<1>2. QED
  BY <1>1, Invariant, PTL

\* Every password a reset chose was authorised: the links from the password back to the
\* mail are ChecksHold, ResetsAreInformed and MailsAreIssued.
THEOREM ResetsAreAuthorised == Spec => []PasswordsAreAuthorised
<1>1. ASSUME IInv PROVE PasswordsAreAuthorised
  <2> USE <1>1 DEF IInv
  <2> SUFFICES ASSUME NEW u \in User, password[u] # None
               PROVE  LET r == password[u]
                          t == token[r]
                      IN  /\ t \in Recovery
                          /\ address[r] = address[t]
                          /\ [to |-> address[r], token |-> t] \in mailbox
                          /\ admitted_at[r] - created_at[t] \in 0..(Ttl + Skew)
    BY DEF PasswordsAreAuthorised
  <2> DEFINE r == password[u]
  <2>1. r \in Reset /\ pc[r] # "idle" /\ Admitted(r)
    BY DEF TypeOK, Links, PasswordsAreAdmitted
  <2>2. Informed(r) /\ address[r] # None
    BY <2>1 DEF Links, ResetsAreInformed, Admitted
  <2>3. PICK mail \in mailbox : mail.token = token[r]
    BY <2>2 DEF Informed
  <2>4. mail = [to |-> address[r], token |-> token[r]]
    BY <2>2, <2>3 DEF TypeOK, Links, MailsAreIssued, Informed
  <2>5. QED
    BY <2>1, <2>2, <2>3, <2>4 DEF Informed, Admitted
<1>2. QED
  BY <1>1, Invariant, PTL

\* A client that waits for the end of the first sees the second request replace it.
THEOREM SecondReplacesFirst == Spec => []SecondRequestReplacesFirst
<1>1. IInv => SecondRequestReplacesFirst
  BY DEF IInv
<1>2. QED
  BY <1>1, Invariant, PTL

\* A token is never accepted after a reset with it has been answered with success.
THEOREM SpentTokensAreRefused == Spec => []SpentTokenIsRefused
<1>1. IInv => SpentTokenIsRefused
  BY DEF IInv
<1>2. QED
  BY <1>1, Invariant, PTL

\* Only requests about its own address, that it overlaps or precedes, take a link away.
THEOREM UndisturbedLinksAreLive == Spec => []UndisturbedLinkIsLive
<1>1. IInv => UndisturbedLinkIsLive
  BY DEF IInv, UndisturbedRowIsLive, UndisturbedLinkIsLive
<1>2. QED
  BY <1>1, Invariant, PTL
==============================================================================
