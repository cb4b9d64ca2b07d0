------------------------------ MODULE NetClaims ------------------------------
(***************************************************************************)
(* What the comments of the repository say of the server and a run of it   *)
(* contradicts.  Each run checks one of these and shows a counterexample.  *)
(***************************************************************************)
EXTENDS ChatClients

(* read_thread.cpp:281 "delete from the public chat room": an account that  *)
(* is deleted is no longer in the public room.                              *)
PublicRoomOfAccounts ==
    \A u \in Guid : InGroup(groups[1], u) => u \in Known

(* struct_def.h:354 "2 private message", read_thread.cpp:1059 "prompt to    *)
(* add the friend first": once the server gets to its queue, a private      *)
(* message is dealt with and the queue moves on.                            *)
PrivateMessageLeaves == draining ~> (~draining \/ ~alive)

=============================================================================
