-------------------------------- MODULE Rpc --------------------------------
(***************************************************************************)
(* What a caller of the transport may rely on (the trait Transport and      *)
(* send_request_any): a call ends once, as answered or as failed.  It is    *)
(* answered only after the peer has handled the message; a failure says     *)
(* nothing, the peer may have handled the message, may handle it later, and *)
(* may handle it once for every attempt to deliver it.                      *)
(***************************************************************************)
CONSTANTS Call,
          Attempt   \* the attempts to deliver the message of each call

VARIABLES call,  \* what the caller knows of each call
          runs   \* the attempts whose message the peer has handled

Init ==
    /\ call = [c \in Call |-> "idle"]
    /\ runs = [c \in Call |-> {}]

Start(c) ==
    /\ call[c] = "idle"
    /\ call' = [call EXCEPT ![c] = "sent"]
    /\ UNCHANGED runs

Run(c) ==
    /\ call[c] # "idle"
    /\ \E s \in Attempt[c] \ runs[c] : runs' = [runs EXCEPT ![c] = @ \cup {s}]
    /\ UNCHANGED call

Answer(c) ==
    /\ call[c] = "sent"
    /\ runs[c] # {}
    /\ call' = [call EXCEPT ![c] = "ok"]
    /\ UNCHANGED runs

Fail(c) ==
    /\ call[c] = "sent"
    /\ call' = [call EXCEPT ![c] = "failed"]
    /\ UNCHANGED runs

Next == \E c \in Call : Start(c) \/ Run(c) \/ Answer(c) \/ Fail(c)

Spec == Init /\ [][Next]_<<call, runs>>
=============================================================================
