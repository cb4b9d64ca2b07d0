------------------------------ MODULE MCFraming ------------------------------
(* An instance of Framing for TLC: two sockets, the client of the first has *)
(* an account, that of the second writes guid 0 as one who registers.       *)
EXTENDS Framing

TwoFds == {1, 2}
Guids == [fd \in TwoFds |-> IF fd = 1 THEN "u" ELSE "0"]
TwoKinds == {[type |-> "a", sub |-> 1], [type |-> "a", sub |-> 2]}
Window == [fd \in TwoFds |-> IF fd = 1 THEN 6 ELSE 3]

(* For the claim: one known client, with room for two requests in a read.   *)
OneGuid == [fd \in {1} |-> "u"]
Wide == [fd \in {1} |-> 7]

=============================================================================
