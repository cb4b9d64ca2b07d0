------------------------------ MODULE MCNetInfo ------------------------------
(* Instances of NetInfo for TLC: the payloads of each run. *)
EXTENDS NetInfo

Nothing == [acount_add |-> {}, acount_modify |-> {}, acount_delete |-> {},
            acount_login |-> {}, acount_logout |-> {}, acount_can_reg |-> {},
            group_add |-> {}, group_modify |-> {}, group_delete |-> {},
            user_info |-> {}, user_brief_info |-> {}, group_info |-> {},
            msg_list |-> {}, msg_send |-> {}, garbage |-> FALSE]

Person(guid, p) == [user_guid |-> guid, phone |-> p, secret |-> p,
                    online |-> TRUE, owner_groups |-> 0]
Entry(u, job) == [user_guid |-> u, permissions |-> 8, job |-> job, msg_count |-> 0]
Group(id, leader, roster) ==
    [group_guid |-> id, learder_guid |-> leader, roster |-> roster,
     member_count |-> Len(roster)]
Change(type, g, op, u, p) == [type |-> type, group_guid |-> g, operate_guid |-> op,
                              target_guid |-> u, permission |-> p]
Text(u, to, kind) == [send_guid |-> u, recv_guid |-> to, msg_type |-> kind, msg_num |-> 0]
Login(p) == [phone |-> p, secret |-> p]
Send(guid, m) == [guid |-> guid, msg |-> m]

(* Two people with two phone numbers, one of whom mistypes his password. *)
AccountInput ==
    [Nothing EXCEPT
        !.acount_add = {Person(0, "p"), Person(0, "q")},
        !.acount_modify = {Person(u, p) : u \in {0, 2, 3}, p \in {"p", "q", "r"}},
        !.acount_delete = {0, 2, 3},
        !.acount_login = {[phone |-> p, secret |-> s] : p \in {"p", "q"}, s \in {"p"}},
        !.acount_logout = {0, 2},
        !.acount_can_reg = {"p"}, !.user_info = {2}, !.user_brief_info = {2}]

(* Two leaders, groups 2 and 3, and everything that changes their members.  *)
(* Group 3 comes with a count that wraps to one its roster covers.          *)
GroupInput ==
    [Nothing EXCEPT
        !.acount_add = {Person(0, "p"), Person(0, "q")},
        !.acount_modify = {Person(2, "p")},
        !.group_add = {Group(0, u, <<Entry(2, "leader")>>) : u \in {2, 3}} \cup
                      {[Group(3, 3, <<Entry(2, "leader")>>) EXCEPT !.member_count = 8]},
        !.group_modify = {Change(t, 2, op, u, 6) :
                              t \in 0 .. 4, op \in {2, 3}, u \in {2, 3}},
        !.group_delete = {[group_guid |-> g, operate_guid |-> u] :
                              g \in {2, 3}, u \in {2, 3}},
        !.msg_send = {Send(2, Text(2, 2, "GROUP"))}]

(* A talker, and a leader who restricts or mutes it, makes it a manager and   *)
(* adds it once more; messages to the public room, to everybody and to one   *)
(* person.                                                                   *)
DispatchInput ==
    [Nothing EXCEPT
        !.acount_add = {Person(0, "p"), Person(0, "q")},
        !.acount_login = {Login("q")},
        !.group_modify = {Change(2, 1, 2, 3, 8)} \cup
                         {Change(t, 1, 2, 3, 0) : t \in {0, 1, 3, 4}},
        !.msg_send = {Send(3, Text(3, 1, "GROUP")), Send(3, Text(3, 0, "ALL")),
                      Send(3, Text(3, 2, "USER"))}]

(* What no tidy client would do: guids of its own choice, rosters of people *)
(* who are not members, other people's names, requests that make no sense.  *)
WildInput ==
    [Nothing EXCEPT
        !.acount_add = {Person(0, "p"), Person(3, "q")},
        !.acount_modify = {Person(3, "q")},
        !.acount_delete = {0, 2},
        !.acount_login = {Login("p")},
        !.acount_logout = {2},
        !.group_add = {Group(1, 2, <<Entry(2, "leader"), Entry(3, "member")>>)},
        !.group_modify = {Change(t, 1, 2, 3, 0) : t \in 0 .. 6} \cup
                         {Change(0, 4, 2, 2, 0), Change(0, 1, 0, 2, 0),
                          Change(0, 1, 3, 2, 0), Change(0, 1, 2, 2, 0)},
        !.group_delete = {[group_guid |-> 1, operate_guid |-> 2]},
        !.group_info = {1},
        !.msg_list = {[guid |-> 2, reg_type |-> t, reg_guid |-> 1] : t \in 0 .. 2},
        !.msg_send = {Send(2, Text(3, 1, "GROUP")), Send(2, Text(3, 2, "USER")),
                      Send(2, Text(2, 0, "OTHER"))},
        !.garbage = TRUE]

=============================================================================
