--------------------------- MODULE MCPasswordReset ---------------------------
EXTENDS PasswordReset, TLC

\* Users and requests of one kind are interchangeable; so are the addresses.
Symmetry ==
    Permutations(User) \cup Permutations(Address)
        \cup Permutations(Recovery) \cup Permutations(Reset)
==============================================================================
