------------------------------- MODULE NetInfo -------------------------------
(***************************************************************************)
(* The chat server: class NetInfo and the loop of common::read_thread that *)
(* drives it (include/read_thread.h, source/read_thread.cpp).              *)
(*                                                                         *)
(* One thread does everything.  A turn of its loop takes new connections   *)
(* from the accept thread, handles the requests of every readable socket   *)
(* and notices closed ones, and then sends out every queued message.  So   *)
(* requests and closes of different sockets interleave in any order, a     *)
(* request is one atomic step, and "draining" is TRUE while the queue is   *)
(* sent out, when nothing else happens.                                    *)
(*                                                                         *)
(* users_map with the list users is one function from guids to accounts,   *)
(* groups_map with the list groups one from guids to groups.  std::hash is *)
(* taken to be injective on phones and passwords.  Times, names and icons  *)
(* are left out, and so are friends: on_add_friend has no caller, so no    *)
(* account ever has one.  A null or dangling pointer that is followed ends *)
(* the process: alive becomes FALSE and nothing happens any more.          *)
(***************************************************************************)
EXTENDS GroupInfo

CONSTANTS
    Fds,          \* the sockets clients connect with
    OwnGroupMax,  \* OWN_GROUP_MAX, 50 in the code
    LimitHigh,    \* 50, of SEND_MSG_COUNT_LIMIT_50
    LimitLow,     \* 10, of SEND_MSG_COUNT_LIMIT_10
    MaxRoster,    \* members a roster can have to fit send_buf, 170 in the code
    MaxQueue,     \* bound: the messages waiting in msg_list
    Input         \* the payloads clients send, a set for each request

ASSUME NetAssumption ==
    /\ Fds \subseteq Nat \ {0}
    /\ {OwnGroupMax, LimitHigh, LimitLow, MaxRoster, MaxQueue} \subseteq Nat

(* What the wire formats guarantee: the numbers of a payload have the width *)
(* of their fields, and a status is one of two.  (A roster can be longer    *)
(* than the bound of the model.)                                            *)
ASSUME InputAssumption ==
    /\ \A w \in Input.acount_add : w.user_guid \in Nat /\ w.owner_groups \in Nat
    /\ \A w \in Input.acount_modify : w.online \in BOOLEAN /\ w.owner_groups \in Nat
    /\ \A w \in Input.group_add : /\ w.group_guid \in Nat
                                  /\ w.member_count \in 0 .. UintMod - 1
                                  /\ w.roster \in Seq(Member) /\ Len(w.roster) <= MaxNodes
    /\ \A w \in Input.group_modify : w.permission \in Permission
    /\ \A s \in Input.msg_send : s.msg.msg_num \in 0 .. NumMod - 1

VARIABLES
    users,             \* users_map: guid -> account
    phone_hash_map,    \* phone -> guid
    global_user_guid,  \* the last guid given out, 1 at the start
    conn_user_map,     \* fd -> guid
    user_conn_map,     \* guid -> fd
    open,              \* the sockets that are connected
    groups,            \* groups_map: guid -> group
    msg_list,          \* messages waiting to be sent out
    draining,          \* the loop is at its last part
    alive,             \* the process runs
    out                \* what the last step has sent

accounts == <<users, phone_hash_map, global_user_guid>>
sessions == <<conn_user_map, user_conn_map, open>>
server == <<draining, alive>>
vars == <<accounts, sessions, groups, msg_list, server, out>>

-----------------------------------------------------------------------------
(* std::map::operator[] gives 0 for a key that is not there (and files it). *)
At(f, k) == IF k \in DOMAIN f THEN f[k] ELSE 0

Sent(fds, type, err) == {[to |-> fd, type |-> type, err |-> err] : fd \in fds}

(* send_client_ack, and the acks with a guid in them. *)
Ack(fd, type, err) == Sent({fd}, type, err)

Known == DOMAIN users

Account(w, online) ==
    [phone |-> w.phone, secret |-> w.secret, online |-> online,
     owner_groups |-> w.owner_groups, join_groups |-> {}]

(* UserInfo::from_data: guid 0 asks for the next one.  global_user_guid is   *)
(* passed by value, so asking does not take it.                              *)
GivenGuid(w) == IF w.user_guid = 0 THEN global_user_guid + 1 ELSE w.user_guid

(* The loop is at its socket events, and fd is one of its sockets. *)
Serving == alive /\ ~draining
Ready(fd) == Serving /\ fd \in open

(* A pointer that leads nowhere is followed. *)
Crash == /\ alive' = FALSE
         /\ out' = {}
         /\ UNCHANGED <<accounts, sessions, groups, msg_list, draining>>

(* The sockets that a walk over the members of g reaches. *)
Recipients(g, known) ==
    {user_conn_map[u] : u \in VisitedUsers(g, known) \cap DOMAIN user_conn_map}

(* GroupInfo::to_data fits send_buf, and counts as many members as it says. *)
RosterFits(g) == /\ g.member_count = Cardinality(Nodes(g))
                 /\ g.member_count <= MaxRoster

(* The iterators that the walk after a serialised roster follows. *)
Announced(g, known) == IF RosterFits(g) THEN TouchedHandles(g, known) ELSE {}

-----------------------------------------------------------------------------
(* Connections. *)

Init ==
    /\ users = EmptyMap
    /\ phone_hash_map = EmptyMap
    /\ global_user_guid = 1
    /\ conn_user_map = EmptyMap
    /\ user_conn_map = EmptyMap
    /\ open = {}
    /\ groups = [g \in {1} |-> NewGroup(0)]
    /\ msg_list = << >>
    /\ draining = FALSE
    /\ alive = TRUE
    /\ out = {}

Connect(fd) ==
    /\ fd \notin open
    /\ open' = open \cup {fd}
    /\ out' = {}
    /\ UNCHANGED <<accounts, conn_user_map, user_conn_map, groups, msg_list, server>>

SetOnline(us, u, on) == IF u \in DOMAIN us THEN [us EXCEPT ![u].online = on] ELSE us

BindingKept(fd) == conn_user_map

(* conn_user_map.erase(fd) of func_close *)
Unbound(fd) == Erase(conn_user_map, fd)

LineKept(u) == user_conn_map

(* user_conn_map.erase(u) *)
LineDropped(u) == Erase(user_conn_map, u)

func_close(fd) ==
    LET u == At(conn_user_map, fd)
    IN  /\ users' = SetOnline(users, u, FALSE)
        /\ user_conn_map' = LineDropped(u)
        /\ conn_user_map' = Unbound(fd)
        /\ open' = open \ {fd}
        /\ out' = {}
        /\ UNCHANGED <<phone_hash_map, global_user_guid, groups, msg_list, server>>

-----------------------------------------------------------------------------
(* Accounts. *)

on_phone_unique(p) == p \notin DOMAIN phone_hash_map

JoinsByLeader(g, u, size) ==
    LET h == IF size = 1 THEN SetLeader(g, u) ELSE g
    IN  IF CanAddMember(h, h.learder_guid, u)
        THEN {AddMember(h, h.learder_guid, u, n) : n \in Places(h)} ELSE {h}

(* The first account leads the public room; every account joins it.  (A set: *)
(* the allocator chooses.)                                                   *)
InPublicRoom(g, u, size) ==
    LET h == IF size = 1 THEN SetLeader(g, u) ELSE g
    IN  IF CanAddMember(h, 0, u)
        THEN {AddMember(h, 0, u, n) : n \in Places(h)} ELSE {h}

GuidKept(n) == n

(* ++global_user_guid *)
GuidTaken(n) == n + 1

on_acount_add(fd, w) ==
    \/ /\ ~on_phone_unique(w.phone)
       /\ out' = Ack(fd, "ACOUNT_ADD", "PHONE_EXIST")
       /\ UNCHANGED <<accounts, sessions, groups, msg_list, server>>
    \/ LET u == GivenGuid(w)
           known == Known \cup {u}
       IN  /\ on_phone_unique(w.phone)
           /\ 1 \in DOMAIN groups
           /\ u <= MaxGuid /\ global_user_guid < MaxGuid /\ HasRoom(groups[1])
           /\ \E g \in InPublicRoom(groups[1], u, Cardinality(known)) :
                 \/ /\ Readable(g, Announced(g, known))
                    /\ users' = Put(users, u, Account(w, TRUE))
                    /\ phone_hash_map' = Put(phone_hash_map, w.phone, u)
                    /\ global_user_guid' = GuidTaken(global_user_guid)
                    /\ groups' = Put(groups, 1, g)
                    /\ out' = Ack(fd, "ACOUNT_ADD", "OK") \cup
                              IF RosterFits(g)
                              THEN Sent(Recipients(g, known), "GROUP_INFO", "OK")
                              ELSE {}
                    /\ UNCHANGED <<sessions, msg_list, server>>
                 \/ Dangling(g, Announced(g, known)) /\ Crash
    \/ /\ on_phone_unique(w.phone)
       /\ 1 \notin DOMAIN groups
       /\ Crash

OldPhoneKept(u, p) == Put(phone_hash_map, p, u)

(* The old phone is erased, the new one filed whoever has it already. *)
Rephoned(u, p) == Put(Erase(phone_hash_map, users[u].phone), p, u)

(* The account is replaced by what the client sends, join_groups included.  *)
(* The next free guid is refused without an answer, an unknown one is       *)
(* looked up with operator[], which gives a null iterator.                  *)
on_acount_modify(fd, w) ==
    LET u == GivenGuid(w)
    IN  \/ /\ u = global_user_guid + 1
           /\ out' = {}
           /\ UNCHANGED <<accounts, sessions, groups, msg_list, server>>
        \/ /\ u # global_user_guid + 1 /\ u \in Known
           /\ users' = Put(users, u, Account(w, w.online))
           /\ phone_hash_map' = Rephoned(u, w.phone)
           /\ out' = Ack(fd, "ACOUNT_MODIFY", "OK")
           /\ UNCHANGED <<global_user_guid, sessions, groups, msg_list, server>>
        \/ u # global_user_guid + 1 /\ u \notin Known /\ Crash

(* Out of a group the account has joined: a manager is only demoted. *)
Demotes(g, u) == CanDeleteManager(g, g.learder_guid, u)

Demoted(g, u) == IF Demotes(g, u) THEN DeleteManager(g, g.learder_guid, u) ELSE g

Removed(g, u) == IF CanDeleteMember(g, g.learder_guid, u)
                 THEN DeleteMember(g, g.learder_guid, u) ELSE g

LeftJoined(g, u) == IF Demotes(g, u) THEN Demoted(g, u) ELSE Removed(g, u)

(* Out of the public room: demoted first, then removed, in the name of the  *)
(* leader both times.                                                       *)
Expelled(g, u) == Removed(Demoted(g, u), u)

Joined(u) == IF u \in Known THEN users[u].join_groups ELSE {}

AfterLeaving(u) ==
    [g \in DOMAIN groups |-> IF g \in Joined(u) THEN LeftJoined(groups[g], u)
                                                ELSE groups[g]]

(* The iterators through which u is demoted and removed. *)
DemotedBy(g, u) == IF Demotes(g, u) THEN {g.managers_map[u]} ELSE {}

RemovedBy(g, u) == IF CanDeleteMember(g, g.learder_guid, u) THEN {Deletable(g, u)} ELSE {}

(* What u leaves goes on after each of them... *)
LeavesJoined(g, u) == IF Demotes(g, u) THEN Readable(g, DemotedBy(g, u))
                                       ELSE RemovedBy(g, u) \subseteq Nodes(g)

LeavesPublicRoom(g, u) == /\ Readable(g, DemotedBy(g, u))
                          /\ RemovedBy(Demoted(g, u), u) \subseteq Nodes(g)

(* ...or one of them faults. *)
FaultsLeavingJoined(g, u) ==
    Dangling(g, IF Demotes(g, u) THEN DemotedBy(g, u) ELSE RemovedBy(g, u))

FaultsLeavingPublicRoom(g, u) ==
    Dangling(g, DemotedBy(g, u) \cup RemovedBy(Demoted(g, u), u))

LogoutKeepsBinding(fd, u) == conn_user_map

(* conn_user_map.erase(user_conn_map[u]), after conn_user_map[fd] was read *)
SignedOff(fd, u) ==
    Erase(Put(conn_user_map, fd, At(conn_user_map, fd)), At(user_conn_map, u))

(* The roster goes to the one who asks, once for every connected member. *)
on_acount_delete(fd, u) ==
    LET left == AfterLeaving(u)
        g == Expelled(left[1], u)
        known == Known \ {u}
        told == VisitedUsers(g, known) \cap (DOMAIN user_conn_map \ {u}) # {}
    IN  \/ /\ u # At(conn_user_map, fd)
           /\ conn_user_map' = Put(conn_user_map, fd, At(conn_user_map, fd))
           /\ out' = Ack(fd, "ACOUNT_DELETE", "CANT_DELETE_OTHER")
           /\ UNCHANGED <<accounts, user_conn_map, open, groups, msg_list, server>>
        \/ /\ u = At(conn_user_map, fd)
           /\ \A k \in Joined(u) \cap DOMAIN groups : LeavesJoined(groups[k], u)
           /\ 1 \in DOMAIN groups
           /\ LeavesPublicRoom(left[1], u) /\ Readable(g, Announced(g, known))
           /\ users' = Erase(users, u)
           /\ phone_hash_map' = IF u \in Known THEN Erase(phone_hash_map, users[u].phone)
                                               ELSE phone_hash_map
           /\ conn_user_map' = SignedOff(fd, u)
           /\ user_conn_map' = LineDropped(u)
           /\ groups' = [left EXCEPT ![1] = g]
           /\ out' = Ack(fd, "ACOUNT_DELETE", "OK") \cup
                     IF RosterFits(g) /\ told THEN Ack(fd, "GROUP_INFO", "OK") ELSE {}
           /\ UNCHANGED <<global_user_guid, open, msg_list, server>>
        \/ /\ u = At(conn_user_map, fd)
           /\ \/ \E k \in Joined(u) \cap DOMAIN groups : FaultsLeavingJoined(groups[k], u)
              \/ 1 \notin DOMAIN groups
              \/ 1 \in DOMAIN groups /\ FaultsLeavingPublicRoom(left[1], u)
              \/ 1 \in DOMAIN groups /\ Dangling(g, Announced(g, known))
           /\ Crash

(* on_login *)
LoginError(l) ==
    IF l.phone \notin DOMAIN phone_hash_map THEN "PHONE_MAP"
    ELSE IF phone_hash_map[l.phone] \notin Known THEN "USER_ISNOT_EXIST"
    ELSE IF users[phone_hash_map[l.phone]].secret # l.secret THEN "PASSWD"
    ELSE "OK"

(* A login that fails binds the socket too, to guid 0. *)
on_acount_login(fd, l) ==
    LET err == LoginError(l)
        u == IF err = "OK" THEN phone_hash_map[l.phone] ELSE 0
    IN  /\ users' = SetOnline(users, u, TRUE)
        /\ user_conn_map' = Put(user_conn_map, u, fd)
        /\ conn_user_map' = Put(conn_user_map, fd, u)
        /\ out' = Ack(fd, "ACOUNT_LOGIN", err)
        /\ UNCHANGED <<phone_hash_map, global_user_guid, open, groups, msg_list, server>>

on_acount_logout(fd, u) ==
    \/ /\ u # At(conn_user_map, fd)
       /\ conn_user_map' = Put(conn_user_map, fd, At(conn_user_map, fd))
       /\ out' = Ack(fd, "ACOUNT_LOGOUT", "CANT_LOGOUT_OTHER")
       /\ UNCHANGED <<accounts, user_conn_map, open, groups, msg_list, server>>
    \/ /\ u = At(conn_user_map, fd)
       /\ users' = SetOnline(users, u, FALSE)
       /\ conn_user_map' = SignedOff(fd, u)
       /\ user_conn_map' = LineDropped(u)
       /\ out' = Ack(fd, "ACOUNT_LOGOUT", "OK")
       /\ UNCHANGED <<phone_hash_map, global_user_guid, open, groups, msg_list, server>>

on_acount_can_reg(fd, p) ==
    /\ out' = Ack(fd, "ACOUNT_CAN_REG", IF on_phone_unique(p) THEN "OK" ELSE "PHONE_EXIST")
    /\ UNCHANGED <<accounts, sessions, groups, msg_list, server>>

-----------------------------------------------------------------------------
(* Groups. *)

(* global_group_guid is never incremented. *)
GivenGroup(w) == IF w.group_guid = 0 THEN 2 ELSE w.group_guid

can_create_group(u) == users[u].owner_groups < OwnGroupMax

JoinsGroup(us, who, g) ==
    [u \in DOMAIN us |-> IF u \in who THEN [us[u] EXCEPT !.join_groups = @ \cup {g}]
                                      ELSE us[u]]

LeavesGroup(us, who, g) ==
    [u \in DOMAIN us |-> IF u \in who THEN [us[u] EXCEPT !.join_groups = @ \ {g}]
                                      ELSE us[u]]

ChargedBelowZero(us, u, d) == [us EXCEPT ![u].owner_groups = @ + d]

(* on_create_group and on_delete_group, which stops at 0 *)
Charged(us, u, d) ==
    [us EXCEPT ![u].owner_groups = IF @ + d < 0 THEN 0 ELSE @ + d]

GroupAddError(w) ==
    IF w.learder_guid \notin Known THEN "GROUP_OPERATOR_NOT_EXIST"
    ELSE IF ~can_create_group(w.learder_guid) THEN "CREATE_GROUP_MAX"
    ELSE "OK"

(* A group with that guid, if there is one, is replaced. *)
on_group_add(fd, w) ==
    LET id == GivenGroup(w)
        parsed == FromData(w.learder_guid, w.roster, w.member_count)
    IN  /\ CanParse(w.roster, w.member_count)
        /\ out' = Ack(fd, "GROUP_ADD", GroupAddError(w))
        /\ IF GroupAddError(w) = "OK"
           THEN /\ groups' = Put(groups, id, CopyOf(Normalised(parsed, Known)))
                /\ users' = Charged(JoinsGroup(users, VisitedUsers(parsed, Known), id),
                                    w.learder_guid, 1)
           ELSE UNCHANGED <<groups, users>>
        /\ UNCHANGED <<phone_hash_map, global_user_guid, sessions, msg_list, server>>

ModifyTypeMAX == 5

GroupModifyError(w) ==
    IF w.type > ModifyTypeMAX THEN "GROUP_MODIFY_TYPE"
    ELSE IF w.group_guid \notin DOMAIN groups THEN "GROUP_NOT_EXIST"
    ELSE IF w.operate_guid # 0 /\ w.operate_guid \notin Known THEN "GROUP_OPERATOR_NOT_EXIST"
    ELSE IF w.target_guid # 0 /\ w.target_guid \notin Known THEN "GROUP_TARGET_NOT_EXIST"
    ELSE "OK"

(* The answer is OK although nothing is done: operator or target 0, a type   *)
(* that is none, or a call that returns false.                               *)
Granted(w) ==
    LET g == groups[w.group_guid]
        op == w.operate_guid
        u == w.target_guid
    IN  /\ op # 0 /\ u # 0
        /\ \/ w.type = 0 /\ CanAddMember(g, op, u)
           \/ w.type = 1 /\ CanDeleteMember(g, op, u)
           \/ w.type = 2 /\ CanChangePermissions(g, op, u, w.permission)
           \/ w.type = 3 /\ CanAddManager(g, op, u)
           \/ w.type = 4 /\ CanDeleteManager(g, op, u)

(* The groups a granted call may leave: the allocator chooses the new node. *)
Modified(w) ==
    LET g == groups[w.group_guid]
        op == w.operate_guid
        u == w.target_guid
    IN  CASE w.type = 0 -> {AddMember(g, op, u, n) : n \in Places(g)}
          [] w.type = 1 -> {DeleteMember(g, op, u)}
          [] w.type = 2 -> {ChangePermissions(g, op, u, w.permission)}
          [] w.type = 3 -> {AddManager(g, op, u)}
          [] w.type = 4 -> {DeleteManager(g, op, u)}

(* MEMBER_ADD and MEMBER_DELETE note the group with the user. *)
Noted(w) == CASE w.type = 0 -> JoinsGroup(users, {w.target_guid}, w.group_guid)
              [] w.type = 1 -> LeavesGroup(users, {w.target_guid}, w.group_guid)
              [] OTHER -> users

(* MEMBER_SET_PERMISSION reads the operator's entry before it refuses. *)
OperatorRead(w) ==
    LET g == groups[w.group_guid]
    IN  IF /\ w.type = 2 /\ w.operate_guid # 0 /\ w.target_guid # 0
           /\ w.operate_guid \in Managers(g)
        THEN {g.managers_map[w.operate_guid]} ELSE {}

(* The target's entry, which a granted call writes or erases... *)
TargetUsed(w) == IF w.type = 0 THEN {}
                 ELSE {Deletable(groups[w.group_guid], w.target_guid)}

(* ...and goes on. *)
GoesOn(w) ==
    LET g == groups[w.group_guid]
    IN  IF w.type = 1 THEN TargetUsed(w) \subseteq Nodes(g) ELSE Readable(g, TargetUsed(w))

(* The walk after MEMBER_ADD. *)
AfterModify(w, g) == IF w.type = 0 THEN Announced(g, Known) ELSE {}

(* After MEMBER_ADD the roster goes to the one who asks. *)
on_group_modify(fd, w) ==
    \/ /\ GroupModifyError(w) = "OK"
           => ~Granted(w) /\ Readable(groups[w.group_guid], OperatorRead(w))
       /\ out' = Ack(fd, "GROUP_MODIFY", GroupModifyError(w))
       /\ UNCHANGED <<accounts, sessions, groups, msg_list, server>>
    \/ /\ GroupModifyError(w) = "OK" /\ Granted(w) /\ GoesOn(w)
       /\ w.type = 0 => HasRoom(groups[w.group_guid])
       /\ \E g \in Modified(w) :
             \/ /\ Readable(g, AfterModify(w, g))
                /\ groups' = [groups EXCEPT ![w.group_guid] = g]
                /\ users' = Noted(w)
                /\ out' = Ack(fd, "GROUP_MODIFY", "OK") \cup
                          IF w.type = 0 /\ RosterFits(g) /\ Recipients(g, Known) # {}
                          THEN Ack(fd, "GROUP_INFO", "OK") ELSE {}
                /\ UNCHANGED <<phone_hash_map, global_user_guid, sessions, msg_list, server>>
             \/ Dangling(g, AfterModify(w, g)) /\ Crash
    \/ /\ GroupModifyError(w) = "OK"
       /\ \/ Dangling(groups[w.group_guid], OperatorRead(w))
          \/ Granted(w) /\ Dangling(groups[w.group_guid], TargetUsed(w))
       /\ Crash

GroupDeleteError(g, op) ==
    IF g \notin DOMAIN groups THEN "GROUP_NOT_EXIST"
    ELSE IF op # groups[g].learder_guid THEN "GROUP_NOT_LEADER"
    ELSE IF op \notin Known THEN "GROUP_OPERATOR_NOT_EXIST"
    ELSE "OK"

on_group_delete(fd, w) ==
    LET g == w.group_guid
        op == w.operate_guid
        err == GroupDeleteError(g, op)
    IN  \/ /\ err # "OK"
           /\ out' = Ack(fd, "GROUP_DELETE", err)
           /\ UNCHANGED <<accounts, sessions, groups, msg_list, server>>
        \/ /\ err = "OK"
           /\ Readable(groups[g], TouchedHandles(groups[g], Known))
           /\ users' = Charged(LeavesGroup(users, VisitedUsers(groups[g], Known), g), op, -1)
           /\ groups' = Erase(groups, g)
           /\ out' = Ack(fd, "GROUP_DELETE", "OK")
           /\ UNCHANGED <<phone_hash_map, global_user_guid, sessions, msg_list, server>>
        \/ /\ err = "OK"
           /\ Dangling(groups[g], TouchedHandles(groups[g], Known))
           /\ Crash

-----------------------------------------------------------------------------
(* Questions, which change nothing.  What does not exist is not answered. *)

Answers(sends) == /\ out' = sends
                  /\ UNCHANGED <<accounts, sessions, groups, msg_list, server>>

on_user_info_req(fd, u) ==
    Answers(IF u \in Known THEN Ack(fd, "USER_INFO", "OK") ELSE {})

on_user_brief_info_req(fd, u) ==
    Answers(IF u \in Known THEN Ack(fd, "USER_INFO_BRIEF", "OK") ELSE {})

on_group_info_req(fd, g) ==
    Answers(IF g \in DOMAIN groups /\ RosterFits(groups[g])
            THEN Ack(fd, "GROUP_INFO", "OK") ELSE {})

(* q.guid is the sender of the header, q.reg_guid what is asked for. *)
on_msg_list_req(fd, q) ==
    LET found == IF q.reg_type = 1 THEN q.reg_guid \in DOMAIN groups
                                   ELSE q.guid \in Known
    IN  Answers(CASE q.reg_type \notin {1, 2} -> {}
                  [] q.reg_type \in {1, 2} /\ found -> Ack(fd, "MSG_LIST", "OK")
                  [] OTHER -> Ack(fd, "ACK_SEND", "MSG_LIST_REQ"))

(* parse_msg: a payload that is too short, or a type it does not know; one   *)
(* above SERVER_MSG_TYPE_MAX is not even answered.                           *)
parse_error(fd) == Answers(Ack(fd, "ACK_SEND", "PARSE_MSG")) \/ Answers({})

-----------------------------------------------------------------------------
(* Messages. *)

(* The socket is bound to the guid in the header of the package. *)
SenderBound(fd, guid) == fd \in DOMAIN conn_user_map /\ conn_user_map[fd] = guid

(* m.send_guid is a field of the payload, and is not looked at. *)
on_msg_send(fd, guid, m) ==
    /\ Len(msg_list) < MaxQueue
    /\ IF SenderBound(fd, guid)
       THEN msg_list' = Append(msg_list, m) /\ out' = {}
       ELSE /\ out' = Ack(fd, "MSG_SEND", "USER_NOT_EXIST_OR_SEND_GUID")
            /\ UNCHANGED msg_list
    /\ UNCHANGED <<accounts, sessions, groups, server>>

(* The last part of the loop: while (!msg_list.empty()).  The loop gets      *)
(* there when every socket of the turn has no more to read.                 *)
BeginDrain ==
    /\ Serving /\ msg_list # << >>
    /\ draining' = TRUE
    /\ out' = {}
    /\ UNCHANGED <<accounts, sessions, groups, msg_list, alive>>

KeptInQueue(n) == UNCHANGED <<msg_list, draining>>

(* n messages leave the queue. *)
Popped(n) == /\ msg_list' = SubSeq(msg_list, n + 1, Len(msg_list))
             /\ draining' = (n < Len(msg_list))

(* "> 50" and "> 10": the limit itself is not over it. *)
Limited(m) ==
    \/ m.permissions = SEND_MSG_COUNT_LIMIT_50 /\ m.msg_count > LimitHigh
    \/ m.permissions = SEND_MSG_COUNT_LIMIT_10 /\ m.msg_count > LimitLow
    \/ m.permissions = CANT_SEND_MSG

(* ++msg_count, of a uint16_t, "times" times *)
Spoken(m, times) == [m EXCEPT !.msg_count = (@ + times) % NumMod]

(* How often the walk comes to a member. *)
Passes(g, n) ==
    LET By(map) == Cardinality({u \in Reached(g, map, Known) : Holds(g, map[u]) = n})
    IN  By(g.managers_map) + By(g.members_map)

(* ... each time the walk reaches an entry of a connected sender. *)
CountedFor(g, u) ==
    [g EXCEPT !.members_list =
        [n \in DOMAIN @ |->
            IF @[n].user_guid = u /\ u \in DOMAIN user_conn_map
            THEN Spoken(@[n], Passes(g, n)) ELSE @[n]]]

deliver_to_group(m) ==
    /\ m.msg_type = "GROUP"
    /\ \/ /\ m.recv_guid \notin DOMAIN groups
          /\ Popped(1)
          /\ out' = {}
          /\ UNCHANGED <<user_conn_map, groups, alive>>
       \/ LET g == groups[m.recv_guid]
              u == m.send_guid
          IN  /\ m.recv_guid \in DOMAIN groups
              /\ InGroup(g, u)
              /\ Readable(g, {HandleOf(g, u)})
              /\ \/ /\ Limited(MemberOf(g, u))
                    /\ out' = Ack(At(user_conn_map, u), "MSG_SEND", "GROUP_MSG_LIMIT")
                    /\ user_conn_map' = Put(user_conn_map, u, At(user_conn_map, u))
                    /\ UNCHANGED groups
                 \/ /\ ~Limited(MemberOf(g, u))
                    /\ Readable(g, TouchedHandles(g, Known))
                    /\ groups' = [groups EXCEPT ![m.recv_guid] =
                                      CountedFor(AddMsg(g, m.msg_num), u)]
                    /\ out' = Sent(Recipients(g, Known), "CLIENT_MSG_SEND", "OK")
                    /\ UNCHANGED user_conn_map
              /\ Popped(1)
              /\ UNCHANGED alive
    /\ UNCHANGED <<accounts, conn_user_map, open>>

(* A sender who is not in the group is a null pointer. *)
group_delivery_faults(m) ==
    /\ m.msg_type = "GROUP"
    /\ m.recv_guid \in DOMAIN groups
    /\ LET g == groups[m.recv_guid]
           u == m.send_guid
       IN  \/ ~InGroup(g, u)
           \/ InGroup(g, u) /\ Dangling(g, {HandleOf(g, u)})
           \/ /\ InGroup(g, u) /\ Readable(g, {HandleOf(g, u)})
              /\ ~Limited(MemberOf(g, u)) /\ Dangling(g, TouchedHandles(g, Known))
    /\ Crash

(* Nobody has friends, so a private message to a registered user is never   *)
(* popped: the loop "continue"s with the same message for ever.             *)
deliver_to_user(m) ==
    /\ m.msg_type = "USER"
    /\ IF m.recv_guid \in Known
       THEN UNCHANGED <<msg_list, draining, out>>
       ELSE Popped(1) /\ out' = {}
    /\ UNCHANGED <<accounts, sessions, groups, alive>>

(* user_conn_map is walked in the order of its guids.  At the sender's entry *)
(* the message is popped, and after the walk once more, so that the next     *)
(* message goes unsent; without a next one the empty list is popped, which   *)
(* frees its sentinel.  The entries after the sender's use a message that    *)
(* has been freed.                                                           *)
PoppedTwice(m) == m.send_guid \in DOMAIN user_conn_map

deliver_to_all(m) ==
    LET others == DOMAIN user_conn_map \ {m.send_guid}
    IN  /\ m.msg_type = "ALL"
        /\ \/ /\ PoppedTwice(m) => Len(msg_list) > 1
              /\ Popped(IF PoppedTwice(m) THEN 2 ELSE 1)
              /\ out' = Sent({user_conn_map[u] : u \in others}, "CLIENT_MSG_SEND", "OK")
              /\ UNCHANGED <<accounts, sessions, groups, alive>>
           \/ /\ PoppedTwice(m)
              /\ Len(msg_list) = 1 \/ \E u \in others : u > m.send_guid
              /\ Crash

(* A type that is none of the three. *)
deliver_other(m) ==
    /\ m.msg_type = "OTHER"
    /\ Popped(1)
    /\ out' = {}
    /\ UNCHANGED <<accounts, sessions, groups, alive>>

-----------------------------------------------------------------------------
(* parse_msg hands a request to its handler. *)
Request ==
    \/ \E fd \in Fds, w \in Input.acount_add : Ready(fd) /\ on_acount_add(fd, w)
    \/ \E fd \in Fds, w \in Input.acount_modify : Ready(fd) /\ on_acount_modify(fd, w)
    \/ \E fd \in Fds, u \in Input.acount_delete : Ready(fd) /\ on_acount_delete(fd, u)
    \/ \E fd \in Fds, l \in Input.acount_login : Ready(fd) /\ on_acount_login(fd, l)
    \/ \E fd \in Fds, u \in Input.acount_logout : Ready(fd) /\ on_acount_logout(fd, u)
    \/ \E fd \in Fds, p \in Input.acount_can_reg : Ready(fd) /\ on_acount_can_reg(fd, p)
    \/ \E fd \in Fds, w \in Input.group_add : Ready(fd) /\ on_group_add(fd, w)
    \/ \E fd \in Fds, w \in Input.group_modify : Ready(fd) /\ on_group_modify(fd, w)
    \/ \E fd \in Fds, w \in Input.group_delete : Ready(fd) /\ on_group_delete(fd, w)
    \/ \E fd \in Fds, u \in Input.user_info : Ready(fd) /\ on_user_info_req(fd, u)
    \/ \E fd \in Fds, u \in Input.user_brief_info : Ready(fd) /\ on_user_brief_info_req(fd, u)
    \/ \E fd \in Fds, g \in Input.group_info : Ready(fd) /\ on_group_info_req(fd, g)
    \/ \E fd \in Fds, q \in Input.msg_list : Ready(fd) /\ on_msg_list_req(fd, q)
    \/ \E fd \in Fds, s \in Input.msg_send : Ready(fd) /\ on_msg_send(fd, s.guid, s.msg)
    \/ \E fd \in Fds : Ready(fd) /\ Input.garbage /\ parse_error(fd)

Draining == alive /\ draining

Deliver == \/ Draining /\ deliver_to_group(Head(msg_list))
           \/ Draining /\ group_delivery_faults(Head(msg_list))
           \/ Draining /\ deliver_to_user(Head(msg_list))
           \/ Draining /\ deliver_to_all(Head(msg_list))
           \/ Draining /\ deliver_other(Head(msg_list))

Next == \/ \E fd \in Fds : Serving /\ Connect(fd)
        \/ \E fd \in Fds : Ready(fd) /\ func_close(fd)
        \/ Request
        \/ BeginDrain
        \/ Deliver

Spec == Init /\ [][Next]_vars

(* Once the loop is at its last part, the queue is sent out message by       *)
(* message.  That it gets there is not assumed: a client that keeps sending *)
(* holds it at its socket (read_thread.cpp:976).                            *)
FairSpec == Spec /\ WF_vars(Deliver)

-----------------------------------------------------------------------------
Payloads == Input.acount_add \cup Input.acount_modify

AccountType == [phone : {w.phone : w \in Payloads}, secret : {w.secret : w \in Payloads},
                online : BOOLEAN, owner_groups : Nat, join_groups : SUBSET Nat]

(* The values the variables take.  Guid 0 can be bound, and to socket 0.    *)
TypeOK ==
    /\ IsMap(users, Guid \ {0}, AccountType)
    /\ IsMap(phone_hash_map, {w.phone : w \in Payloads}, Guid)
    /\ global_user_guid \in Guid
    /\ IsMap(conn_user_map, Fds, Guid)
    /\ IsMap(user_conn_map, Guid, Fds \cup {0})
    /\ open \subseteq Fds
    /\ DOMAIN groups \subseteq Nat /\ \A g \in DOMAIN groups : IsGroup(groups[g])
    /\ msg_list \in Seq({s.msg : s \in Input.msg_send})
    /\ draining \in BOOLEAN /\ alive \in BOOLEAN
    /\ \A s \in out : s.to \in Nat

(* Whatever clients send and in whatever order they close, every entry of   *)
(* conn_user_map is a socket that is still connected: a socket whose number *)
(* is used again (accept returns the lowest free one) starts out bound to   *)
(* nobody.  operator[] files entries all over the code (read_thread.cpp:243,*)
(* 345, 818), and only func_close takes them away.                          *)
ConnFdsOpen == DOMAIN conn_user_map \subseteq open

(* Every group of the server stays well formed under every mix of requests: *)
(* account deletion, group requests and deliveries all change its list, its *)
(* two maps and its history.  The maps of a group that a client made are    *)
(* vouched for only while the memory they lead into has not been used again.*)
RoomsWellFormed == \A g \in DOMAIN groups : WellFormed(groups[g])

(* A phone number leads to a registered account that has this number: a     *)
(* login is checked against the password of the right account, through any  *)
(* sequence of registrations, renumberings and deletions.  (Clients let the *)
(* server choose the guid of a new account.)                                *)
PhoneIndexSound ==
    \A p \in DOMAIN phone_hash_map :
        /\ phone_hash_map[p] \in Known
        /\ users[phone_hash_map[p]].phone = p

(* A new account does not take over what an earlier one left behind: no     *)
(* socket is bound to its guid yet, nothing is delivered to it, no phone    *)
(* leads to it, and the public room has no member of that guid.             *)
NewcomerIsNew ==
    [][\A u \in DOMAIN users' \ Known :
           /\ \A fd \in DOMAIN conn_user_map : conn_user_map[fd] # u
           /\ u \notin DOMAIN user_conn_map
           /\ \A p \in DOMAIN phone_hash_map : phone_hash_map[p] # u
           /\ ~InGroup(groups[1], u)]_vars

(* Every account is in the public room, from its registration to its end,   *)
(* whoever leads the room and whoever was deleted before (comment of        *)
(* read_thread.cpp:159).                                                    *)
AllInPublicRoom == \A u \in Known : InGroup(groups[1], u)

(* The message the loop is about to send to a group that its sender is in.   *)
Speaks(m) == /\ Draining /\ m = Head(msg_list) /\ m.msg_type = "GROUP"
             /\ m.recv_guid \in DOMAIN groups /\ InGroup(groups[m.recv_guid], m.send_guid)


(* Once the server gets to its queue, the queue runs empty, message by       *)
(* message, and the thread gets back to its sockets; unless it has ended, or *)
(* comes to a private message to a registered user, which it never leaves    *)
(* (read_thread.cpp:1060).                                                   *)
HeldUp == /\ msg_list # << >>
          /\ Head(msg_list).msg_type = "USER" /\ Head(msg_list).recv_guid \in Known
QueueDrains == draining ~> (msg_list = << >> \/ ~alive \/ HeldUp)

=============================================================================
