------------------------------ MODULE MCProcess ------------------------------
(* An instance of Process for TLC: three descriptors, so that a number is   *)
(* given out again while the read thread still closes its last connection.  *)
EXTENDS Process

=============================================================================
