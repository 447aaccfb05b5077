----------------------------- MODULE MCQuicRpc -----------------------------
(* Constants for TLC. *)
EXTENDS QuicRpc

\* Every call has one address and tries it twice.
OneAddr == [c \in Call |-> 1]

\* Every call has two addresses, so its message can arrive four times.
TwoAddrs == [c \in Call |-> 2]
=============================================================================
