----------------------------- MODULE SerialReset -----------------------------
(***************************************************************************)
(* The forgotten-password flow when the requests about one address do not  *)
(* overlap, and no reset fails between its UPDATE and its DELETE.  Under   *)
(* these two conditions, and not without them, it keeps the contract of    *)
(* ResetContract.  Requests about different addresses interleave freely,   *)
(* and a request may fail at every other statement.                        *)
(***************************************************************************)
EXTENDS PasswordReset

\* The address a request is about: a reset token is about the address it was issued for.
Target(r) ==
    IF r \in Recovery THEN address[r]
    ELSE IF token[r] \in Recovery THEN address[token[r]] ELSE None

OneAtATime ==
    \A q, r \in Request :
        pc[q] \in InFlight /\ pc[r] \in InFlight /\ Target(q) = Target(r) => q = r

ConsumeDoesNotFail ==
    \A r \in Reset : pc[r] = "delete_used" => pc'[r] # "aborted"

SerialNext == Next /\ OneAtATime' /\ ConsumeDoesNotFail

SerialSpec == Init /\ [][SerialNext]_vars

------------------------------------------------------------------------------
(* The refinement mapping. *)

\* A reset past its UPDATE has redeemed the token; its row is only still to be deleted.
BeingConsumed(a) == \E r \in Reset : pc[r] = "delete_used" /\ address[r] = a

TokensOf(a) == {row.token : row \in {x \in resets : x.email = a}}

pending == [a \in Address |-> IF BeingConsumed(a) THEN {} ELSE TokensOf(a)]

used == {t \in Recovery : pc[t] \notin {"idle", "find_user", "delete_pending", "insert"}}

Contract == INSTANCE ResetContract

\* The statements of requests about one address, taken one request at a time, amount to
\* issuing, replacing and redeeming tokens atomically.
KeepsContract == Contract!Spec
==============================================================================
