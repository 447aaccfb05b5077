----------------------------- MODULE MCConnPool -----------------------------
(* Constants for TLC. *)
EXTENDS ConnPool

CONSTANTS a1, a2, c1, c2

\* Two calls to one address.
SameAddr == [c \in {c1, c2} |-> a1]
=============================================================================
