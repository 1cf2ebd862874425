-------------------------------- MODULE Gate --------------------------------
(***************************************************************************)
(* What the permission check of a route promises, abstractly: a call is    *)
(* admitted in one step, at a moment when its caller holds the right the   *)
(* route asks for.  Rights come and go at any time.  Nothing is promised   *)
(* about refusals: a query that fails may refuse a call that has the right.*)
(***************************************************************************)
CONSTANTS Caller, Call, Nobody

VARIABLES
    holds,    \* holds[c]: who holds, now, the right that call c asks for
    caller,   \* whom a call is made for; Nobody: not known (yet)
    verdict   \* of each call

vars == <<holds, caller, verdict>>

Init ==
    /\ holds \in [Call -> SUBSET Caller]
    /\ caller = [c \in Call |-> Nobody]
    /\ verdict = [c \in Call |-> "none"]

\* A commit elsewhere changes who may do what.
RightsChange ==
    /\ holds' \in [Call -> SUBSET Caller]
    /\ UNCHANGED <<caller, verdict>>

\* A call becomes known, with the right it asks for.
Arrive(c, u) ==
    /\ verdict[c] = "none"
    /\ caller' = [caller EXCEPT ![c] = u]
    /\ verdict' = [verdict EXCEPT ![c] = "waiting"]
    /\ holds' \in [Call -> SUBSET Caller]

\* A call without credentials.
TurnAway(c) ==
    /\ verdict[c] = "none"
    /\ verdict' = [verdict EXCEPT ![c] = "refused"]
    /\ UNCHANGED <<holds, caller>>

Admit(c) ==
    /\ verdict[c] = "waiting"
    /\ caller[c] \in holds[c]
    /\ verdict' = [verdict EXCEPT ![c] = "admitted"]
    /\ UNCHANGED <<holds, caller>>

Refuse(c) ==
    /\ verdict[c] = "waiting"
    /\ verdict' = [verdict EXCEPT ![c] = "refused"]
    /\ UNCHANGED <<holds, caller>>

Next ==
    \/ RightsChange
    \/ \E c \in Call : TurnAway(c) \/ Admit(c) \/ Refuse(c) \/ \E u \in Caller : Arrive(c, u)

Spec == Init /\ [][Next]_vars
==============================================================================
