----------------------------- MODULE MCGroupRoom -----------------------------
(* Instances of GroupRoom for TLC. *)
EXTENDS GroupRoom

Entry(u, p, job) == [user_guid |-> u, permissions |-> p, job |-> job, msg_count |-> 0]

(* A leader with a plain member, a user who is sent twice, and users nobody  *)
(* registered ahead of a registered one (the walk stops there).              *)
MCRosters == { << >>,
               <<Entry(1, 8, "leader"), Entry(2, 8, "member")>>,
               <<Entry(2, 8, "member"), Entry(2, 8, "manager")>>,
               <<Entry(1, 8, "manager"), Entry(3, 6, "manager")>> }

=============================================================================
