---------------------------- MODULE MCUserService ----------------------------
(* UserService on small instances. *)
EXTENDS UserService, TLC

\* No definition tells two users, two requests of one kind, or two addresses apart.
Symmetry ==
    Permutations(Existing) \cup Permutations(Create) \cup Permutations(Patch)
        \cup Permutations(Address) \cup Permutations(Role)
==============================================================================
