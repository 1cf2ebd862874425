-------------------------- MODULE SerialResetProofs --------------------------
(***************************************************************************)
(* SerialReset implements ResetContract, for every value of the constants. *)
(* On top of the invariant of PasswordReset, the proof needs what taking   *)
(* turns adds: an address has no row while a request is about to insert    *)
(* one, and the row a reset has found is still there at its UPDATE.        *)
(***************************************************************************)
EXTENDS SerialReset, PasswordResetProofs

NoRowBeforeInsert ==
    \A r \in Recovery : pc[r] = "insert" => \A row \in resets : row.email # address[r]

RowUntilUpdate ==
    \A r \in Reset : pc[r] \in {"check_age", "update"} => RowsOf(token[r]) # {}

TurnInv == IInv /\ OneAtATime /\ NoRowBeforeInsert /\ RowUntilUpdate

------------------------------------------------------------------------------

\* Nothing is in flight initially.
LEMMA TurnInit == Init => TurnInv
BY InvInit, ConstantsAssumption
   DEF Init, TurnInv, OneAtATime, NoRowBeforeInsert, RowUntilUpdate, Request, InFlight,
       RecoverySteps, ResetSteps

\* What two requests in flight with one address have in common: they are one request.
LEMMA SameAddress ==
    ASSUME IInv, OneAtATime, NEW q \in Request, NEW r \in Request,
           pc[q] \in InFlight, pc[r] \in InFlight,
           address[q] = address[r], address[q] # None
    PROVE  q = r
<1>1. ASSUME NEW s \in Request, pc[s] \in InFlight, address[s] # None
      PROVE  Target(s) = address[s]
  BY <1>1 DEF IInv, Links, ResetsAreInformed, Informed, Target, Request, InFlight,
     RecoverySteps, ResetSteps
<1>2. QED
  BY <1>1 DEF OneAtATime

\* Taking turns keeps the invariant.
LEMMA TurnNext == TurnInv /\ [SerialNext]_vars => TurnInv'
<1> SUFFICES ASSUME TurnInv, [SerialNext]_vars PROVE TurnInv'
  OBVIOUS
<1>1. IInv'
  BY InvNext DEF TurnInv, SerialNext
<1>2. CASE UNCHANGED vars
  BY <1>1, <1>2 DEF TurnInv, OneAtATime, NoRowBeforeInsert, RowUntilUpdate, vars, table,
     locals, Target, RowsOf
<1>3. CASE SerialNext
  <2>1. OneAtATime'
    BY <1>3 DEF SerialNext
  <2>2. NoRowBeforeInsert'
    <3> USE DEF IInv, TypeOK, TurnInv, Goto, table, locals, NoRowBeforeInsert, RowsOf, Request
    <3>1. ASSUME NEW q \in Recovery, NEW a \in Address, BeginRecovery(q, a) PROVE NoRowBeforeInsert'
      BY <3>1, ConstantsAssumption DEF BeginRecovery
    <3>2. ASSUME NEW q \in Recovery, FindUser(q) PROVE NoRowBeforeInsert'
      BY <3>2, ConstantsAssumption DEF FindUser
    <3>3. ASSUME NEW q \in Recovery, DeletePending(q) PROVE NoRowBeforeInsert'
      BY <3>3, ConstantsAssumption DEF DeletePending, DeletePasswordReset
    <3>4. ASSUME NEW q \in Recovery, Insert(q) PROVE NoRowBeforeInsert'
      <4>1. ASSUME NEW r \in Recovery, pc[r] = "insert", address[r] = address[q] PROVE r = q
        BY <3>4, <4>1, SameAddress DEF Insert, Links, NotYetKnown, InFlight, RecoverySteps
      <4>2. QED
        BY <3>4, <4>1 DEF Insert, CreatePasswordReset
    <3>5. ASSUME NEW q \in Recovery, SendMail(q) PROVE NoRowBeforeInsert'
      BY <3>5, ConstantsAssumption DEF SendMail
    <3>6. ASSUME NEW q \in Reset, NEW t \in Recovery, BeginReset(q, t) PROVE NoRowBeforeInsert'
      BY <3>6, ConstantsAssumption DEF BeginReset
    <3>7. ASSUME NEW q \in Reset, FindToken(q) PROVE NoRowBeforeInsert'
      BY <3>7, ConstantsAssumption DEF FindToken, Row
    <3>8. ASSUME NEW q \in Reset, CheckAge(q) PROVE NoRowBeforeInsert'
      BY <3>8, ConstantsAssumption DEF CheckAge
    <3>9. ASSUME NEW q \in Reset, UpdatePassword(q) PROVE NoRowBeforeInsert'
      BY <3>9, ConstantsAssumption DEF UpdatePassword, ResetPassword, Holders
    <3>10. ASSUME NEW q \in Reset, DeleteUsed(q) PROVE NoRowBeforeInsert'
      BY <3>10, ConstantsAssumption DEF DeleteUsed, DeletePasswordReset
    <3>11. ASSUME NEW q \in Request, Reply(q) PROVE NoRowBeforeInsert'
      BY <3>11, ConstantsAssumption DEF Reply
    <3>12. ASSUME NEW q \in Request, Abort(q) PROVE NoRowBeforeInsert'
      BY <3>12, ConstantsAssumption DEF Abort
    <3>13. ASSUME NEW u \in User, NEW a \in Address, NEW b \in BOOLEAN, PatchUser(u, a, b) PROVE NoRowBeforeInsert'
      BY <3>13, ConstantsAssumption DEF PatchUser
    <3>14. CASE Tick
      BY <3>14 DEF Tick
    <3>15. QED
      BY <1>3, <3>1, <3>2, <3>3, <3>4, <3>5, <3>6, <3>7, <3>8, <3>9, <3>10, <3>11, <3>12, <3>13, <3>14 DEF SerialNext, Next, RecoveryStep, ResetStep
  <2>3. RowUntilUpdate'
    <3> USE DEF IInv, TypeOK, TurnInv, Goto, table, locals, RowUntilUpdate, RowsOf, Request
    <3>1. ASSUME NEW q \in Recovery, NEW a \in Address, BeginRecovery(q, a) PROVE RowUntilUpdate'
      BY <3>1, ConstantsAssumption DEF BeginRecovery
    <3>2. ASSUME NEW q \in Recovery, FindUser(q) PROVE RowUntilUpdate'
      BY <3>2, ConstantsAssumption DEF FindUser
    <3>3. ASSUME NEW q \in Recovery, DeletePending(q) PROVE RowUntilUpdate'
      <4>1. ASSUME NEW r \in Reset, pc[r] \in {"check_age", "update"} PROVE address[r] # address[q]
        BY <3>3, <4>1, SameAddress, ConstantsAssumption
           DEF DeletePending, Links, Found, NotYetKnown, InFlight, RecoverySteps, ResetSteps
      <4>2. ASSUME NEW r \in Reset, pc[r] \in {"check_age", "update"}
            PROVE  \A row \in RowsOf(token[r]) : row.email = address[r]
        BY <4>2 DEF Links, RowsAreIssued, ResetsAreInformed, Informed, Found
      <4>3. QED
        BY <3>3, <4>1, <4>2, ConstantsAssumption DEF DeletePending, DeletePasswordReset
    <3>4. ASSUME NEW q \in Recovery, Insert(q) PROVE RowUntilUpdate'
      BY <3>4, ConstantsAssumption DEF Insert, CreatePasswordReset
    <3>5. ASSUME NEW q \in Recovery, SendMail(q) PROVE RowUntilUpdate'
      BY <3>5, ConstantsAssumption DEF SendMail
    <3>6. ASSUME NEW q \in Reset, NEW t \in Recovery, BeginReset(q, t) PROVE RowUntilUpdate'
      BY <3>6, ConstantsAssumption DEF BeginReset
    <3>7. ASSUME NEW q \in Reset, FindToken(q) PROVE RowUntilUpdate'
      BY <3>7, ConstantsAssumption DEF FindToken, Row
    <3>8. ASSUME NEW q \in Reset, CheckAge(q) PROVE RowUntilUpdate'
      BY <3>8, ConstantsAssumption DEF CheckAge
    <3>9. ASSUME NEW q \in Reset, UpdatePassword(q) PROVE RowUntilUpdate'
      BY <3>9, ConstantsAssumption DEF UpdatePassword, ResetPassword, Holders
    <3>10. ASSUME NEW q \in Reset, DeleteUsed(q) PROVE RowUntilUpdate'
      <4>1. ASSUME NEW r \in Reset, pc[r] \in {"check_age", "update"} PROVE address[r] # address[q]
        BY <3>10, <4>1, SameAddress, ConstantsAssumption
           DEF DeleteUsed, Links, Found, NotYetKnown, InFlight, RecoverySteps, ResetSteps
      <4>2. ASSUME NEW r \in Reset, pc[r] \in {"check_age", "update"}
            PROVE  \A row \in RowsOf(token[r]) : row.email = address[r]
        BY <4>2 DEF Links, RowsAreIssued, ResetsAreInformed, Informed, Found
      <4>3. QED
        BY <3>10, <4>1, <4>2, ConstantsAssumption DEF DeleteUsed, DeletePasswordReset
    <3>11. ASSUME NEW q \in Request, Reply(q) PROVE RowUntilUpdate'
      BY <3>11, ConstantsAssumption DEF Reply
    <3>12. ASSUME NEW q \in Request, Abort(q) PROVE RowUntilUpdate'
      BY <3>12, ConstantsAssumption DEF Abort
    <3>13. ASSUME NEW u \in User, NEW a \in Address, NEW b \in BOOLEAN, PatchUser(u, a, b) PROVE RowUntilUpdate'
      BY <3>13, ConstantsAssumption DEF PatchUser
    <3>14. CASE Tick
      BY <3>14 DEF Tick
    <3>15. QED
      BY <1>3, <3>1, <3>2, <3>3, <3>4, <3>5, <3>6, <3>7, <3>8, <3>9, <3>10, <3>11, <3>12, <3>13, <3>14 DEF SerialNext, Next, RecoveryStep, ResetStep
  <2>4. QED
    BY <1>1, <2>1, <2>2, <2>3 DEF TurnInv
<1>4. QED
  BY <1>2, <1>3

------------------------------------------------------------------------------
(* The refinement *)

\* The program starts with no token pending and none used.
LEMMA RefinementInit == Init => Contract!Init
BY ConstantsAssumption
   DEF Init, Contract!Init, pending, TokensOf, used, BeingConsumed, Request

\* The DELETE by address empties one address and leaves the others alone.
LEMMA DeleteByAddress ==
    ASSUME NEW a \in Address, DeletePasswordReset(a)
    PROVE  /\ TokensOf(a)' = {}
           /\ \A b \in Address \ {a} : TokensOf(b)' = TokensOf(b)
<1>1. TokensOf(a)' = {}
  BY DEF DeletePasswordReset, TokensOf
<1>2. ASSUME NEW b \in Address \ {a} PROVE {x \in resets' : x.email = b} = {x \in resets : x.email = b}
  BY <1>2 DEF DeletePasswordReset
<1>3. QED
  BY <1>1, <1>2 DEF TokensOf

\* The INSERT gives one address, that has no row, its one token.
LEMMA InsertForAddress ==
    ASSUME NEW a \in Address, NEW t \in Recovery, CreatePasswordReset(a, t),
           \A row \in resets : row.email # a
    PROVE  /\ TokensOf(a) = {}
           /\ TokensOf(a)' = {t}
           /\ \A b \in Address \ {a} : TokensOf(b)' = TokensOf(b)
<1> DEFINE new == [email |-> a, token |-> t, created_at |-> now]
<1>1. resets' = resets \cup {new}
  BY DEF CreatePasswordReset
<1>2. {x \in resets : x.email = a} = {} /\ {x \in resets' : x.email = a} = {new}
  BY <1>1
<1>3. ASSUME NEW b \in Address \ {a} PROVE {x \in resets' : x.email = b} = {x \in resets : x.email = b}
  BY <1>1
<1>4. TokensOf(a) = {}
  BY <1>2 DEF TokensOf
<1>5. TokensOf(a)' = {new.token}
  <2> HIDE DEF new
  <2>1. QED
    BY <1>2 DEF TokensOf
<1>6. QED
  BY <1>3, <1>4, <1>5 DEF TokensOf

\* Every step of the statements is a step of the contract, or none.
LEMMA RefinementNext == TurnInv /\ TurnInv' /\ [SerialNext]_vars => [Contract!Next]_Contract!vars
<1> SUFFICES ASSUME TurnInv, TurnInv', [SerialNext]_vars PROVE [Contract!Next]_Contract!vars
  OBVIOUS
<1>1. CASE UNCHANGED vars
  BY <1>1 DEF vars, table, locals, Contract!vars, pending, TokensOf, used, BeingConsumed
<1>2. CASE SerialNext
  <2> USE DEF TurnInv, IInv, TypeOK, Request, Goto, table, locals
  <2>1. ASSUME pending' = pending, used' = used, UNCHANGED <<email, password>>
        PROVE  UNCHANGED Contract!vars
    BY <2>1 DEF Contract!vars
  \* Steps that touch neither the table nor the users.
  <2>2. ASSUME UNCHANGED resets, \A a \in Address : BeingConsumed(a)' = BeingConsumed(a)
        PROVE  pending' = pending
    BY <2>2 DEF pending, TokensOf
  <2>3. ASSUME NEW r \in Recovery, NEW a \in Address, BeginRecovery(r, a)
        PROVE  UNCHANGED Contract!vars
    <3>1. used' = used
      BY <2>3 DEF BeginRecovery, used
    <3>2. \A b \in Address : BeingConsumed(b)' = BeingConsumed(b)
      BY <2>3, ConstantsAssumption DEF BeginRecovery, BeingConsumed
    <3>3. QED
      BY <2>1, <2>2, <2>3, <3>1, <3>2 DEF BeginRecovery
  <2>4. ASSUME NEW r \in Recovery, FindUser(r)
        PROVE  Contract!GiveUp(r) \/ UNCHANGED Contract!vars
    <3>1. \A b \in Address : BeingConsumed(b)' = BeingConsumed(b)
      BY <2>4, ConstantsAssumption DEF FindUser, BeingConsumed
    <3>2. pending' = pending
      BY <2>2, <2>4, <3>1 DEF FindUser
    <3>3. used' = used \/ used' = used \cup {r}
      BY <2>4 DEF FindUser, used
    <3>4. QED
      BY <2>1, <2>4, <3>2, <3>3 DEF FindUser, Contract!GiveUp
  <2>5. ASSUME NEW r \in Recovery, DeletePending(r) PROVE Contract!Withdraw(address[r])
    <3>1. \A b \in Address : BeingConsumed(b)' = BeingConsumed(b)
      BY <2>5, ConstantsAssumption DEF DeletePending, BeingConsumed
    <3>2. pending' = [pending EXCEPT ![address[r]] = {}]
      <4>1. address[r] \in Address /\ DeletePasswordReset(address[r])
        BY <2>5 DEF DeletePending, Links, NotYetKnown
      <4>2. QED
        BY <4>1, <3>1, DeleteByAddress DEF pending
    <3>3. used' = used
      BY <2>5 DEF DeletePending, used
    <3>4. QED
      BY <2>5, <3>2, <3>3 DEF DeletePending, Contract!Withdraw
  <2>6. ASSUME NEW r \in Recovery, Insert(r)
        PROVE  address[r] \in Address /\ Contract!Issue(r, address[r])
    <3>1. address[r] \in Address /\ pc[r] = "insert"
      BY <2>6 DEF Insert, Links, NotYetKnown
    <3>2. ~BeingConsumed(address[r])
      <4>1. SUFFICES ASSUME NEW q \in Reset, pc[q] = "delete_used", address[q] = address[r]
                     PROVE  FALSE
        BY DEF BeingConsumed
      <4>2. QED
        BY <3>1, <4>1, SameAddress, ConstantsAssumption DEF InFlight, RecoverySteps, ResetSteps
    <3>3. \A b \in Address : BeingConsumed(b)' = BeingConsumed(b)
      BY <2>6, ConstantsAssumption DEF Insert, BeingConsumed
    <3>4. pending[address[r]] = {}
      BY <3>1 DEF pending, TokensOf, NoRowBeforeInsert
    <3>5. pending' = [pending EXCEPT ![address[r]] = {r}]
      <4>1. CreatePasswordReset(address[r], r) /\ \A row \in resets : row.email # address[r]
        BY <2>6, <3>1 DEF Insert, NoRowBeforeInsert
      <4>2. QED
        BY <3>1, <3>2, <3>3, <4>1, InsertForAddress DEF pending
    <3>6. r \notin used /\ used' = used \cup {r}
      BY <2>6 DEF Insert, used
    <3>7. QED
      BY <2>6, <3>1, <3>4, <3>5, <3>6 DEF Insert, Contract!Issue
  <2>7. ASSUME NEW r \in Recovery, SendMail(r) PROVE UNCHANGED Contract!vars
    <3>1. \A b \in Address : BeingConsumed(b)' = BeingConsumed(b)
      BY <2>7, ConstantsAssumption DEF SendMail, BeingConsumed
    <3>2. QED
      BY <2>1, <2>2, <2>7, <3>1 DEF SendMail, used
  <2>8. ASSUME NEW r \in Reset, NEW t \in Recovery, BeginReset(r, t)
        PROVE  UNCHANGED Contract!vars
    <3>1. \A b \in Address : BeingConsumed(b)' = BeingConsumed(b)
      BY <2>8 DEF BeginReset, BeingConsumed
    <3>2. QED
      BY <2>1, <2>2, <2>8, <3>1, ConstantsAssumption DEF BeginReset, used
  <2>9. ASSUME NEW r \in Reset, FindToken(r) PROVE UNCHANGED Contract!vars
    <3>1. \A b \in Address : BeingConsumed(b)' = BeingConsumed(b)
      BY <2>9 DEF FindToken, BeingConsumed
    <3>2. used' = used
      BY <2>9, ConstantsAssumption DEF FindToken, used
    <3>3. QED
      BY <2>1, <2>2, <2>9, <3>1, <3>2 DEF FindToken
  <2>10. ASSUME NEW r \in Reset, CheckAge(r) PROVE UNCHANGED Contract!vars
    <3>1. pc' = [pc EXCEPT ![r] = "bad_request"] \/ pc' = [pc EXCEPT ![r] = "update"]
      BY <2>10 DEF CheckAge
    <3>2. \A b \in Address : BeingConsumed(b)' = BeingConsumed(b)
      BY <2>10, <3>1 DEF CheckAge, BeingConsumed
    <3>3. used' = used
      BY <3>1, ConstantsAssumption DEF used
    <3>4. QED
      BY <2>1, <2>2, <2>10, <3>2, <3>3 DEF CheckAge
  <2>11. ASSUME NEW r \in Reset, UpdatePassword(r)
         PROVE  address[r] \in Address /\ Contract!Redeem(address[r], r)
    <3>1. address[r] \in Address /\ pc[r] = "update"
      BY <2>11 DEF UpdatePassword, Links, Found
    <3>2. ~BeingConsumed(address[r])
      <4>1. SUFFICES ASSUME NEW q \in Reset, pc[q] = "delete_used", address[q] = address[r]
                     PROVE  FALSE
        BY DEF BeingConsumed
      <4>2. QED
        BY <3>1, <4>1, SameAddress, ConstantsAssumption DEF InFlight, ResetSteps
    <3>3. PICK row \in resets : row.token = token[r]
      BY <3>1 DEF RowUntilUpdate, RowsOf
    <3>4. row.email = address[r]
      BY <3>1, <3>3 DEF Links, RowsAreIssued, ResetsAreInformed, Informed, Found
    <3>5. pending[address[r]] # {}
      <4>1. row \in {x \in resets : x.email = address[r]}
        BY <3>3, <3>4
      <4>2. row.token \in TokensOf(address[r])
        BY <4>1, Zenon DEF TokensOf
      <4>3. QED
        BY <3>1, <3>2, <4>2 DEF pending
    <3>6. BeingConsumed(address[r])' /\ \A b \in Address \ {address[r]} : BeingConsumed(b)' = BeingConsumed(b)
      BY <2>11 DEF UpdatePassword, BeingConsumed
    <3>7. pending' = [pending EXCEPT ![address[r]] = {}]
      BY <2>11, <3>1, <3>6 DEF UpdatePassword, pending, TokensOf
    <3>8. used' = used
      BY <2>11, ConstantsAssumption DEF UpdatePassword, used
    <3>9. QED
      BY <2>11, <3>1, <3>5, <3>7, <3>8 DEF UpdatePassword, ResetPassword, Holders, Contract!Redeem
  <2>12. ASSUME NEW r \in Reset, DeleteUsed(r) PROVE UNCHANGED Contract!vars
    <3>1. address[r] \in Address /\ pc[r] = "delete_used"
      BY <2>12 DEF DeleteUsed, Links, Found
    <3>2. \A b \in Address \ {address[r]} : BeingConsumed(b)' = BeingConsumed(b)
      BY <2>12 DEF DeleteUsed, BeingConsumed
    <3>3. BeingConsumed(address[r])
      BY <3>1 DEF BeingConsumed
    <3>4. pending' = pending
      <4>1. TokensOf(address[r])' = {} /\ \A b \in Address \ {address[r]} : TokensOf(b)' = TokensOf(b)
        BY <2>12, <3>1, DeleteByAddress DEF DeleteUsed
      <4>2. pending[address[r]] = {}
        BY <3>1, <3>3 DEF pending
      <4>3. pending'[address[r]] = {}
        BY <2>12, <3>1, <4>1 DEF DeleteUsed, pending
      <4>4. \A b \in Address \ {address[r]} : pending'[b] = pending[b]
        BY <3>2, <4>1 DEF pending
      <4>5. QED
        BY <3>1, <4>2, <4>3, <4>4 DEF pending
    <3>5. used' = used
      BY <2>12, ConstantsAssumption DEF DeleteUsed, used
    <3>6. QED
      BY <2>1, <2>12, <3>4, <3>5 DEF DeleteUsed
  <2>13. ASSUME NEW r \in Request, Reply(r) PROVE UNCHANGED Contract!vars
    <3>1. \A b \in Address : BeingConsumed(b)' = BeingConsumed(b)
      BY <2>13 DEF Reply, BeingConsumed
    <3>2. used' = used
      BY <2>13 DEF Reply, used
    <3>3. QED
      BY <2>1, <2>2, <2>13, <3>1, <3>2 DEF Reply
  <2>14. ASSUME NEW r \in Request, Abort(r)
         PROVE  (r \in Recovery /\ Contract!GiveUp(r)) \/ UNCHANGED Contract!vars
    <3>1. \A b \in Address : BeingConsumed(b)' = BeingConsumed(b)
      BY <1>2, <2>14 DEF Abort, BeingConsumed, SerialNext, ConsumeDoesNotFail
    <3>2. pending' = pending
      BY <2>2, <2>14, <3>1 DEF Abort
    <3>3. (r \in Recovery /\ used' = used \cup {r}) \/ used' = used
      BY <2>14 DEF Abort, used
    <3>4. QED
      BY <2>1, <2>14, <3>2, <3>3 DEF Abort, Contract!GiveUp
  <2>15. ASSUME NEW u \in User, NEW a \in Address, NEW b \in BOOLEAN, PatchUser(u, a, b)
         PROVE  Contract!PatchUser(u, a)
    <3>1. pending' = pending /\ used' = used
      BY <2>15 DEF PatchUser, pending, TokensOf, used, BeingConsumed
    <3>2. password' = password \/ password' = [password EXCEPT ![u] = None]
      BY <2>15 DEF PatchUser
    <3>3. QED
      BY <2>15, <3>1, <3>2 DEF PatchUser, Contract!PatchUser
  <2>16. CASE Tick
    BY <2>16 DEF Tick, Contract!vars, pending, TokensOf, used, BeingConsumed
  <2>17. QED
    <3>1. \/ \E r \in Recovery : RecoveryStep(r) \/ \E a \in Address : BeginRecovery(r, a)
          \/ \E r \in Reset : ResetStep(r) \/ \E t \in Recovery : BeginReset(r, t)
          \/ \E r \in Request : Abort(r)
          \/ \E u \in User, a \in Address, b \in BOOLEAN : PatchUser(u, a, b)
          \/ Tick
      BY <1>2 DEF SerialNext, Next
    <3>2. ASSUME NEW r \in Recovery, DeletePending(r) PROVE address[r] \in Address
      BY <3>2 DEF DeletePending, Links, NotYetKnown
    <3>3. QED
      BY <2>3, <2>4, <2>5, <2>6, <2>7, <2>8, <2>9, <2>10, <2>11, <2>12, <2>13, <2>14, <2>15,
         <2>16, <3>1, <3>2 DEF RecoveryStep, ResetStep, Contract!Next
<1>3. QED
  BY <1>1, <1>2

\* Under the two conditions of SerialReset, the statements of password_recovery and
\* reset_password amount to the atomic contract the API documents.
THEOREM SerialImplementsContract == SerialSpec => KeepsContract
<1>1. Init => TurnInv
  BY TurnInit
<1>2. TurnInv /\ [SerialNext]_vars => TurnInv'
  BY TurnNext
<1>3. SerialSpec => []TurnInv
  BY <1>1, <1>2, PTL DEF SerialSpec
<1>4. QED
  BY <1>3, RefinementInit, RefinementNext, PTL DEF SerialSpec, Contract!Spec, KeepsContract
==============================================================================
