------------------------------- MODULE Presence -------------------------------
(***************************************************************************)
(* What the pair of maps conn_user_map and user_conn_map of NetInfo is     *)
(* for: it knows who is signed on and over which line, one line for each   *)
(* person and one person for each line.                                    *)
(***************************************************************************)
EXTENDS Functions

CONSTANTS People, Lines

VARIABLE online    \* the line of everybody who is signed on

Init == online = [u \in {} |-> {}]

SignOn(u, line) ==
    /\ u \notin DOMAIN online /\ line \notin Range(online)
    /\ online' = [v \in DOMAIN online \cup {u} |-> IF v = u THEN line ELSE online[v]]

SignOff(u) ==
    /\ u \in DOMAIN online
    /\ online' = Restrict(online, DOMAIN online \ {u})

Next == \/ \E u \in People, line \in Lines : SignOn(u, line)
        \/ \E u \in People : SignOff(u)

Spec == Init /\ [][Next]_online

=============================================================================
