--------------------------- MODULE MCAbuseCounters ---------------------------
(* A small instance of AbuseCounters for TLC. *)
EXTENDS AbuseCounters, TLC

CONSTANTS e1, a1, v1, r1

MCEmails == {e1}
MCAddresses == {a1}
MCVisitors == {v1}
MCRates == {r1}
MCLimit == [k \in {e1, a1, v1, r1} |-> IF k \in {e1, a1} THEN 2 ELSE 1]

Symmetry == Permutations(Handlers)
=============================================================================
