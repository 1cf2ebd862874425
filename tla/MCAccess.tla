------------------------------ MODULE MCAccess ------------------------------
(* Access on small instances. *)
EXTENDS Access, TLC

\* The seed: every permission for Admin, none for a role the seed does not mention.
SeedRoleHas == [x \in Role |-> IF x = SuperRole THEN Action \ Malformed
                               ELSE IF x = "Viewer" THEN {"Users.View All"} ELSE {}]

\* No definition tells two users or two passwords apart.
Symmetry == Permutations(User) \cup Permutations(Password)
==============================================================================
