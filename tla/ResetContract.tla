---------------------------- MODULE ResetContract ----------------------------
(***************************************************************************)
(* What the API's documentation promises of password resets, each promise  *)
(* one atomic step: an address has at most one pending token, a second     *)
(* request replaces the first, and a token is consumed by the one reset    *)
(* that changes the password.  The TTL is not part of it.                  *)
(***************************************************************************)
CONSTANTS User, Address, Recovery, Reset, None

VARIABLES
    email,      \* who holds which address
    password,   \* the reset that chose each user's password
    pending,    \* the token that can be redeemed for each address: a set of at most one
    used        \* the tokens that have been issued, or never will be

vars == <<email, password, pending, used>>

Init ==
    /\ email \in [User -> Address]
    /\ password = [u \in User |-> None]
    /\ pending = [a \in Address |-> {}]
    /\ used = {}

\* A token is issued once, for one address, when the address has none.
Issue(t, a) ==
    /\ t \notin used
    /\ pending[a] = {}
    /\ pending' = [pending EXCEPT ![a] = {t}]
    /\ used' = used \cup {t}
    /\ UNCHANGED <<email, password>>

\* A request ends before it issues its token.
GiveUp(t) ==
    /\ used' = used \cup {t}
    /\ UNCHANGED <<email, password, pending>>

\* A newer request for the address.
Withdraw(a) ==
    /\ pending' = [pending EXCEPT ![a] = {}]
    /\ UNCHANGED <<email, password, used>>

\* The password changes and the token is consumed, in one step.
Redeem(a, new) ==
    /\ pending[a] # {}
    /\ pending' = [pending EXCEPT ![a] = {}]
    /\ password' = [u \in User |-> IF email[u] = a THEN new ELSE password[u]]
    /\ UNCHANGED <<email, used>>

\* An administrator gives a user another address, another password or both.
PatchUser(u, a) ==
    /\ email' = [email EXCEPT ![u] = a]
    /\ password' \in {password, [password EXCEPT ![u] = None]}
    /\ UNCHANGED <<pending, used>>

Next ==
    \/ \E t \in Recovery : GiveUp(t) \/ \E a \in Address : Issue(t, a)
    \/ \E a \in Address : Withdraw(a) \/ \E r \in Reset : Redeem(a, r)
    \/ \E u \in User, a \in Address : PatchUser(u, a)

Spec == Init /\ [][Next]_vars
==============================================================================
