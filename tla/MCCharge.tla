------------------------------- MODULE MCCharge -------------------------------
(* Charge's instances for TLC: the first request's payload against the rest. *)
EXTENDS Charge, TLC

CONSTANTS q1, q2, q3, q4

\* q1 and q2 are one request and its retry; q3 and q4 reuse the reference for
\* something else.
Payloads == [r \in Request |-> IF r \in {q1, q2} THEN "first" ELSE "second"]
=============================================================================
