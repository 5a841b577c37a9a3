--------------------------- MODULE MCUserAccounts ---------------------------
EXTENDS UserAccounts, TLC

Interchangeable ==
    Permutations(Handlers) \cup Permutations(Users) \cup Permutations(Emails)
        \cup Permutations(Phones)
=============================================================================
