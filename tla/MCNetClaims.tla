----------------------------- MODULE MCNetClaims -----------------------------
(* Instances of NetClaims for TLC: just the requests each counterexample     *)
(* needs.                                                                    *)
EXTENDS NetClaims

Nothing == [acount_add |-> {}, acount_modify |-> {}, acount_delete |-> {},
            acount_login |-> {}, acount_logout |-> {}, acount_can_reg |-> {},
            group_add |-> {}, group_modify |-> {}, group_delete |-> {},
            user_info |-> {}, user_brief_info |-> {}, group_info |-> {},
            msg_list |-> {}, msg_send |-> {}, garbage |-> FALSE]

Person(guid, p) == [user_guid |-> guid, phone |-> p, secret |-> "s",
                    online |-> TRUE, owner_groups |-> 0]
Send(u, to, kind) == [guid |-> u, msg |-> [send_guid |-> u, recv_guid |-> to,
                                           msg_type |-> kind, msg_num |-> 0]]

(* Two people who register and log in. *)
TwoPeople == [Nothing EXCEPT
    !.acount_add = {Person(0, "p"), Person(0, "q")},
    !.acount_login = {[phone |-> p, secret |-> "s"] : p \in {"p", "q"}}]

LeaderGoneInput == [TwoPeople EXCEPT !.acount_delete = {2}]
PrivateInput == [TwoPeople EXCEPT !.msg_send = {Send(2, 3, "USER")}]

=============================================================================
