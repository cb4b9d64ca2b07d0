---------------------------- MODULE MCChatClients ----------------------------
(* An instance of ChatClients for TLC. *)
EXTENDS ChatClients

Nothing == [acount_add |-> {}, acount_modify |-> {}, acount_delete |-> {},
            acount_login |-> {}, acount_logout |-> {}, group_add |-> {},
            group_modify |-> {}, group_delete |-> {}, msg_send |-> {}]

Person(guid, p) == [user_guid |-> guid, phone |-> p, secret |-> "s",
                    online |-> TRUE, owner_groups |-> 0]
Send(u, g) == [guid |-> u, msg |-> [send_guid |-> u, recv_guid |-> g,
                                    msg_type |-> "GROUP", msg_num |-> 0]]
Change(type, op, u, p) == [type |-> type, group_guid |-> 1, operate_guid |-> op,
                           target_guid |-> u, permission |-> p]
Entry(u, job) == [user_guid |-> u, permissions |-> 1, job |-> job, msg_count |-> 0]

(* Two people; the second mistypes his password, changes his account, talks, *)
(* is muted, thrown out, and deletes his account.  The first creates a       *)
(* group for both and deletes it, or goes and leaves it behind.             *)
ClientInput ==
    [Nothing EXCEPT
        !.acount_add = {Person(0, "p"), Person(0, "q")},
        !.acount_modify = {Person(3, "q")},
        !.acount_delete = {2, 3},
        !.acount_login = {[phone |-> p, secret |-> "s"] : p \in {"p", "q"}} \cup
                         {[phone |-> "q", secret |-> "x"]},
        !.acount_logout = {3},
        !.group_add = {[group_guid |-> 0, learder_guid |-> 2, member_count |-> 2,
                        roster |-> <<Entry(2, "leader"), Entry(3, "member")>>]},
        !.group_modify = {Change(t, 2, 3, 8) : t \in {1, 2}},
        !.group_delete = {[group_guid |-> 2, operate_guid |-> 2]},
        !.msg_send = {Send(2, 2), Send(3, 1)}]

=============================================================================
