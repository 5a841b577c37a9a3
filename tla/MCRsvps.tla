------------------------------ MODULE MCRsvps ------------------------------
EXTENDS GuestAnswers, TLC

\* "Ali " is "Ali" once it is trimmed
MCTyped == {"Ali", "Ali ", "Sara"}
MCTrim(t) == IF t = "Ali " THEN "Ali" ELSE t

Interchangeable == Permutations(RsvpHandlers) \cup Permutations(RsvpRows)
=============================================================================
