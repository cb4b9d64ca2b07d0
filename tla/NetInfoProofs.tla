---------------------------- MODULE NetInfoProofs ----------------------------
(***************************************************************************)
(* What is proved about the server for every number of sockets, every      *)
(* bound and every payload clients may send.  What needs clients that      *)
(* leave something to the server says so as a hypothesis: ServerChooses    *)
(* and PublicRoomStays.                                                    *)
(***************************************************************************)
EXTENDS NetRoomProofs

-----------------------------------------------------------------------------
(* The values the variables take. *)

AccountMap(us) == IsMap(us, Guid \ {0}, AccountType)

Phones == {w.phone : w \in Payloads}

(* vs has the accounts of us, with the same phones. *)
SamePhones(vs, us) ==
    DOMAIN vs = DOMAIN us /\ \A u \in DOMAIN us : vs[u].phone = us[u].phone

(* ... and as many of them online. *)
SameOnline(vs, us) == \A u \in DOMAIN us : vs[u].online = us[u].online

(* Fields are written in accounts, which stay accounts. *)
LEMMA SetOnlineAccounts ==
    ASSUME NEW us, AccountMap(us), NEW u, NEW on \in BOOLEAN
    PROVE  AccountMap(SetOnline(us, u, on)) /\ SamePhones(SetOnline(us, u, on), us)
BY DEF AccountMap, SamePhones, IsMap, AccountType, SetOnline

LEMMA JoinsGroupAccounts ==
    ASSUME NEW us, AccountMap(us), NEW who, NEW g \in Nat
    PROVE  /\ AccountMap(JoinsGroup(us, who, g)) /\ SamePhones(JoinsGroup(us, who, g), us)
           /\ SameOnline(JoinsGroup(us, who, g), us)
BY DEF AccountMap, SamePhones, SameOnline, IsMap, AccountType, JoinsGroup

LEMMA LeavesGroupAccounts ==
    ASSUME NEW us, AccountMap(us), NEW who, NEW g
    PROVE  /\ AccountMap(LeavesGroup(us, who, g)) /\ SamePhones(LeavesGroup(us, who, g), us)
           /\ SameOnline(LeavesGroup(us, who, g), us)
BY DEF AccountMap, SamePhones, SameOnline, IsMap, AccountType, LeavesGroup

LEMMA ChargedAccounts ==
    ASSUME NEW us, AccountMap(us), NEW u, NEW d \in Int
    PROVE  /\ AccountMap(Charged(us, u, d)) /\ SamePhones(Charged(us, u, d), us)
           /\ SameOnline(Charged(us, u, d), us)
<1> DEFINE n == IF us[u].owner_groups + d < 0 THEN 0 ELSE us[u].owner_groups + d
<1>1. \A v \in DOMAIN us : us[v] \in AccountType
  BY DEF AccountMap, IsMap
<1>2. u \in DOMAIN us => n \in Nat
  BY <1>1 DEF AccountType
<1>3. Charged(us, u, d) = [us EXCEPT ![u].owner_groups = n]
  BY DEF Charged
<1> HIDE DEF n
<1>4. DOMAIN Charged(us, u, d) = DOMAIN us
  BY <1>3
<1>5. \A v \in DOMAIN us : /\ Charged(us, u, d)[v] \in AccountType
                           /\ Charged(us, u, d)[v].phone = us[v].phone
                           /\ Charged(us, u, d)[v].online = us[v].online
  BY <1>1, <1>2, <1>3 DEF AccountType
<1>6. Charged(us, u, d) = [v \in DOMAIN us |-> Charged(us, u, d)[v]]
  BY <1>3
<1> QED
  BY <1>4, <1>5, <1>6 DEF AccountMap, SamePhones, SameOnline, IsMap

(* The four ways a step changes the accounts. *)
Rewrites ==
    /\ AccountMap(users') /\ SamePhones(users', users)
    /\ UNCHANGED <<phone_hash_map, global_user_guid>>

Registers(w) ==
    /\ on_phone_unique(w.phone)
    /\ GivenGuid(w) <= MaxGuid /\ global_user_guid < MaxGuid
    /\ users' = Put(users, GivenGuid(w), Account(w, TRUE))
    /\ phone_hash_map' = Put(phone_hash_map, w.phone, GivenGuid(w))
    /\ global_user_guid' = global_user_guid + 1

Replaces(w) ==
    /\ GivenGuid(w) \in Known
    /\ users' = Put(users, GivenGuid(w), Account(w, w.online))
    /\ phone_hash_map' = Rephoned(GivenGuid(w), w.phone)
    /\ UNCHANGED global_user_guid

Closes(u) ==
    /\ users' = Erase(users, u)
    /\ phone_hash_map' = IF u \in Known THEN Erase(phone_hash_map, users[u].phone)
                                        ELSE phone_hash_map
    /\ UNCHANGED global_user_guid

AccountsMove ==
    \/ Rewrites
    \/ \E w \in Input.acount_add : Registers(w)
    \/ \E w \in Input.acount_modify : Replaces(w)
    \/ \E u \in Input.acount_delete : Closes(u)

RoomGuids == DOMAIN groups \subseteq Nat

(* A step that leaves the accounts alone. *)
LEMMA KeptAccounts ==
    ASSUME AccountMap(users), UNCHANGED accounts
    PROVE  Rewrites
BY DEF Rewrites, SamePhones, accounts

(* Group requests note the group with the users, and count it. *)
LEMMA GroupAddAccounts ==
    ASSUME AccountMap(users), NEW fd, NEW w \in Input.group_add, on_group_add(fd, w)
    PROVE  Rewrites /\ SameOnline(users', users)
<1> DEFINE id == GivenGroup(w)
           parsed == FromData(w.learder_guid, w.roster, w.member_count)
           us == JoinsGroup(users, VisitedUsers(parsed, Known), id)
           vs == Charged(us, w.learder_guid, 1)
<1>1. id \in Nat
  BY InputAssumption DEF GivenGroup
<1>2. AccountMap(us) /\ SamePhones(us, users) /\ SameOnline(us, users)
  BY <1>1, JoinsGroupAccounts
<1>3. AccountMap(vs) /\ SamePhones(vs, us) /\ SameOnline(vs, us)
  BY <1>2, ChargedAccounts
<1>4. UNCHANGED <<phone_hash_map, global_user_guid>> /\ (users' = users \/ users' = vs)
  BY DEF on_group_add
<1> HIDE DEF us, vs
<1> QED
  BY <1>2, <1>3, <1>4 DEF Rewrites, SamePhones, SameOnline

LEMMA GroupModifyAccounts ==
    ASSUME AccountMap(users), RoomGuids,
           NEW fd, NEW w \in Input.group_modify, on_group_modify(fd, w)
    PROVE  Rewrites /\ SameOnline(users', users)
<1>1. \/ UNCHANGED accounts
      \/ /\ GroupModifyError(w) = "OK"
         /\ users' = Noted(w) /\ UNCHANGED <<phone_hash_map, global_user_guid>>
  BY DEF on_group_modify, Crash
<1>2. GroupModifyError(w) = "OK" => w.group_guid \in Nat
  BY DEF GroupModifyError, RoomGuids
<1>3. GroupModifyError(w) = "OK" => /\ AccountMap(Noted(w)) /\ SamePhones(Noted(w), users)
                                    /\ SameOnline(Noted(w), users)
  BY <1>2, JoinsGroupAccounts, LeavesGroupAccounts DEF Noted, SamePhones, SameOnline
<1>4. UNCHANGED accounts => Rewrites /\ SameOnline(users', users)
  BY KeptAccounts DEF SameOnline, accounts
<1> QED
  BY <1>1, <1>3, <1>4 DEF Rewrites

LEMMA GroupDeleteAccounts ==
    ASSUME AccountMap(users), NEW fd, NEW w, on_group_delete(fd, w)
    PROVE  Rewrites /\ SameOnline(users', users)
<1> DEFINE us == LeavesGroup(users, VisitedUsers(groups[w.group_guid], Known), w.group_guid)
           vs == Charged(us, w.operate_guid, -1)
<1>1. AccountMap(us) /\ SamePhones(us, users) /\ SameOnline(us, users)
  BY LeavesGroupAccounts
<1>2. AccountMap(vs) /\ SamePhones(vs, us) /\ SameOnline(vs, us)
  BY <1>1, ChargedAccounts
<1>3. \/ UNCHANGED accounts
      \/ users' = vs /\ UNCHANGED <<phone_hash_map, global_user_guid>>
  BY DEF on_group_delete, Crash
<1>4. UNCHANGED accounts => Rewrites /\ SameOnline(users', users)
  BY KeptAccounts DEF SameOnline, accounts
<1> HIDE DEF us, vs
<1> QED
  BY <1>1, <1>2, <1>3, <1>4 DEF Rewrites, SamePhones, SameOnline

LEMMA RequestAccounts ==
    ASSUME AccountMap(users), RoomGuids, Request
    PROVE  AccountsMove
<1>1. ASSUME NEW fd \in Fds, NEW w \in Input.acount_add, on_acount_add(fd, w)
      PROVE  Rewrites \/ Registers(w)
  BY <1>1, KeptAccounts DEF on_acount_add, Crash, Registers, GuidTaken
<1>2. ASSUME NEW fd \in Fds, NEW w \in Input.acount_modify, on_acount_modify(fd, w)
      PROVE  Rewrites \/ Replaces(w)
  BY <1>2, KeptAccounts DEF on_acount_modify, Crash, Replaces
<1>3. ASSUME NEW fd \in Fds, NEW u \in Input.acount_delete, on_acount_delete(fd, u)
      PROVE  Rewrites \/ Closes(u)
  BY <1>3, KeptAccounts DEF on_acount_delete, Crash, Closes
<1>4. ASSUME NEW fd \in Fds, NEW l \in Input.acount_login, on_acount_login(fd, l)
      PROVE  Rewrites
  BY <1>4, SetOnlineAccounts DEF on_acount_login, Rewrites
<1>5. ASSUME NEW fd \in Fds, NEW u \in Input.acount_logout, on_acount_logout(fd, u)
      PROVE  Rewrites
  BY <1>5, KeptAccounts, SetOnlineAccounts DEF on_acount_logout, Rewrites
<1>6. ASSUME NEW fd \in Fds, NEW w \in Input.group_add, on_group_add(fd, w)
      PROVE  Rewrites
  BY <1>6, GroupAddAccounts
<1>7. ASSUME NEW fd \in Fds, NEW w \in Input.group_modify, on_group_modify(fd, w)
      PROVE  Rewrites
  BY <1>7, GroupModifyAccounts
<1>8. ASSUME NEW fd \in Fds, NEW w \in Input.group_delete, on_group_delete(fd, w)
      PROVE  Rewrites
  BY <1>8, GroupDeleteAccounts
<1>9. ASSUME NEW fd, NEW s, on_msg_send(fd, s.guid, s.msg)
      PROVE  Rewrites
  BY <1>9, KeptAccounts DEF on_msg_send
<1>10. ASSUME NEW sends, Answers(sends)
       PROVE  Rewrites
  BY <1>10, KeptAccounts DEF Answers
<1>11. ASSUME NEW fd, NEW p, on_acount_can_reg(fd, p)
       PROVE  Rewrites
  BY <1>11, KeptAccounts DEF on_acount_can_reg
<1> QED
  BY <1>1, <1>2, <1>3, <1>4, <1>5, <1>6, <1>7, <1>8, <1>9, <1>10, <1>11
     DEF Request, AccountsMove, on_user_info_req, on_user_brief_info_req,
         on_group_info_req, on_msg_list_req, parse_error

LEMMA AccountsStep ==
    ASSUME AccountMap(users), RoomGuids, [Next]_vars
    PROVE  AccountsMove
<1>1. CASE \E fd \in Fds : Serving /\ Connect(fd)
  BY <1>1, KeptAccounts DEF Connect, AccountsMove
<1>2. CASE \E fd \in Fds : Ready(fd) /\ func_close(fd)
  BY <1>2, SetOnlineAccounts DEF func_close, AccountsMove, Rewrites
<1>3. CASE Request
  BY <1>3, RequestAccounts
<1>4. CASE BeginDrain
  BY <1>4, KeptAccounts DEF BeginDrain, AccountsMove
<1>5. CASE Deliver
  BY <1>5, KeptAccounts
     DEF Deliver, deliver_to_group, group_delivery_faults, deliver_to_user,
         deliver_to_all, deliver_other, Crash, AccountsMove
<1>6. CASE UNCHANGED vars
  BY <1>6, KeptAccounts DEF vars, AccountsMove
<1> QED
  BY <1>1, <1>2, <1>3, <1>4, <1>5, <1>6 DEF Next

AccountsTyped == /\ AccountMap(users)
                 /\ IsMap(phone_hash_map, Phones, Guid)
                 /\ global_user_guid \in Guid

(* The guid of a new account is given or the next one, and it is not 0. *)
LEMMA GivenGuidTyped ==
    ASSUME AccountsTyped, NEW w \in Input.acount_add, GivenGuid(w) <= MaxGuid
    PROVE  GivenGuid(w) \in Guid \ {0}
<1>1. w.user_guid \in Nat /\ global_user_guid \in Nat /\ MaxGuid \in Nat
  BY InputAssumption, BoundsAssumption DEF AccountsTyped, Guid
<1>2. GivenGuid(w) \in Nat \ {0}
  BY <1>1 DEF GivenGuid
<1> QED
  BY <1>1, <1>2 DEF Guid

LEMMA AccountsTypedStep ==
    ASSUME AccountsTyped, RoomGuids, [Next]_vars
    PROVE  AccountsTyped'
<1>1. CASE Rewrites
  BY <1>1 DEF Rewrites, AccountsTyped
<1>2. ASSUME NEW w \in Input.acount_add, Registers(w)
      PROVE  AccountsTyped'
  <2>1. w \in Payloads /\ w.phone \in Phones
    BY DEF Payloads, Phones
  <2>2. GivenGuid(w) \in Guid \ {0}
    BY <1>2, GivenGuidTyped DEF Registers
  <2>3. Account(w, TRUE) \in AccountType
    BY <2>1, InputAssumption DEF Account, AccountType
  <2>4. AccountMap(users') /\ IsMap(phone_hash_map', Phones, Guid)
    BY <1>2, <2>1, <2>2, <2>3, PutIsMap DEF Registers, AccountsTyped, AccountMap
  <2>5. global_user_guid' \in Guid
    <3>1. global_user_guid \in Nat /\ MaxGuid \in Nat
      BY BoundsAssumption DEF AccountsTyped, Guid
    <3>2. global_user_guid < MaxGuid /\ global_user_guid' = global_user_guid + 1
      BY <1>2 DEF Registers
    <3> QED
      BY <3>1, <3>2 DEF Guid
  <2> QED
    BY <2>4, <2>5 DEF AccountsTyped
<1>3. ASSUME NEW w \in Input.acount_modify, Replaces(w)
      PROVE  AccountsTyped'
  <2>1. w \in Payloads /\ w.phone \in Phones
    BY DEF Payloads, Phones
  <2>2. GivenGuid(w) \in Guid \ {0}
    BY <1>3 DEF Replaces, AccountsTyped, AccountMap, IsMap, Known
  <2>3. Account(w, w.online) \in AccountType
    BY <2>1, InputAssumption DEF Account, AccountType
  <2>4. AccountMap(users') /\ IsMap(phone_hash_map', Phones, Guid)
    BY <1>3, <2>1, <2>2, <2>3, PutIsMap, EraseIsMap
       DEF Replaces, AccountsTyped, AccountMap, Rephoned
  <2> QED
    BY <1>3, <2>4 DEF Replaces, AccountsTyped
<1>4. ASSUME NEW u, Closes(u)
      PROVE  AccountsTyped'
  BY <1>4, EraseIsMap DEF Closes, AccountsTyped, AccountMap
<1> QED
  BY <1>1, <1>2, <1>3, <1>4, AccountsStep DEF AccountsMove, AccountsTyped

SessionsTyped == /\ IsMap(conn_user_map, Fds, Guid)
                 /\ IsMap(user_conn_map, Guid, Fds \cup {0})
                 /\ open \subseteq Fds

(* operator[] gives an entry, or 0. *)
LEMMA AtTyped ==
    ASSUME NEW K, NEW V, NEW f, IsMap(f, K, V), 0 \in V, NEW k
    PROVE  At(f, k) \in V
BY DEF At, IsMap

(* The ways a step changes the two maps and the sockets. *)
Files(fd) == /\ conn_user_map' = Put(conn_user_map, fd, At(conn_user_map, fd))
             /\ UNCHANGED <<user_conn_map, open>>

LogsIn(fd, l) ==
    LET u == IF LoginError(l) = "OK" THEN phone_hash_map[l.phone] ELSE 0
    IN  /\ user_conn_map' = Put(user_conn_map, u, fd)
        /\ conn_user_map' = Put(conn_user_map, fd, u)
        /\ UNCHANGED open

SignsOff(fd, u) == /\ u = At(conn_user_map, fd)
                   /\ conn_user_map' = SignedOff(fd, u)
                   /\ user_conn_map' = LineDropped(u)
                   /\ UNCHANGED open

FilesSender == /\ \E g \in DOMAIN groups : \E u :
                      /\ InGroup(groups[g], u)
                      /\ user_conn_map' = Put(user_conn_map, u, At(user_conn_map, u))
               /\ UNCHANGED <<conn_user_map, open>>

(* What a request does to the sessions. *)
LEMMA RequestSessions ==
    ASSUME Request
    PROVE  \/ UNCHANGED sessions
           \/ \E fd \in Fds : Ready(fd) /\ Files(fd)
           \/ \E fd \in Fds, l \in Input.acount_login : Ready(fd) /\ LogsIn(fd, l)
           \/ \E fd \in Fds : \E u : Ready(fd) /\ SignsOff(fd, u)
<1>1. ASSUME NEW fd \in Fds, NEW w,
             \/ on_acount_add(fd, w) \/ on_acount_modify(fd, w) \/ on_acount_can_reg(fd, w)
             \/ on_group_add(fd, w) \/ on_group_modify(fd, w) \/ on_group_delete(fd, w)
      PROVE  UNCHANGED sessions
  BY <1>1 DEF on_acount_add, on_acount_modify, on_acount_can_reg, on_group_add,
              on_group_modify, on_group_delete, Crash
<1>2. ASSUME NEW fd \in Fds, NEW u, on_acount_delete(fd, u)
      PROVE  UNCHANGED sessions \/ Files(fd) \/ SignsOff(fd, u)
  BY <1>2 DEF on_acount_delete, Crash, Files, SignsOff
<1>3. ASSUME NEW fd \in Fds, NEW l \in Input.acount_login, on_acount_login(fd, l)
      PROVE  LogsIn(fd, l)
  BY <1>3 DEF on_acount_login, LogsIn
<1>4. ASSUME NEW fd \in Fds, NEW u, on_acount_logout(fd, u)
      PROVE  Files(fd) \/ SignsOff(fd, u)
  BY <1>4 DEF on_acount_logout, Files, SignsOff
<1>5. ASSUME NEW fd, NEW s, on_msg_send(fd, s.guid, s.msg)
      PROVE  UNCHANGED sessions
  BY <1>5 DEF on_msg_send
<1>6. ASSUME NEW sends, Answers(sends)
      PROVE  UNCHANGED sessions
  BY <1>6 DEF Answers
<1> QED
  BY <1>1, <1>2, <1>3, <1>4, <1>5, <1>6
     DEF Request, on_user_info_req, on_user_brief_info_req, on_group_info_req,
         on_msg_list_req, parse_error

(* What sending the queue out does to the sessions. *)
LEMMA DeliverSessions ==
    ASSUME Deliver
    PROVE  UNCHANGED sessions \/ FilesSender
BY DEF Deliver, deliver_to_group, group_delivery_faults, deliver_to_user,
       deliver_to_all, deliver_other, Crash, FilesSender, sessions

LEMMA SessionsTypedStep ==
    ASSUME SessionsTyped, AccountsTyped, RoomsWellFormed, [Next]_vars
    PROVE  SessionsTyped'
<1>0. 0 \in Guid /\ 0 \in Fds \cup {0}
  BY BoundsAssumption DEF Guid
<1>1. CASE UNCHANGED sessions
  BY <1>1 DEF SessionsTyped, sessions
<1>2. ASSUME NEW fd \in Fds, Files(fd)
      PROVE  SessionsTyped'
  BY <1>0, <1>2, AtTyped, PutIsMap DEF Files, SessionsTyped
<1>3. ASSUME NEW fd \in Fds, NEW l, LogsIn(fd, l)
      PROVE  SessionsTyped'
  <2> DEFINE u == IF LoginError(l) = "OK" THEN phone_hash_map[l.phone] ELSE 0
  <2>1. u \in Guid
    BY <1>0 DEF LoginError, AccountsTyped, IsMap
  <2> QED
    BY <1>3, <2>1, PutIsMap DEF LogsIn, SessionsTyped
<1>4. ASSUME NEW fd \in Fds, NEW u, SignsOff(fd, u)
      PROVE  SessionsTyped'
  BY <1>0, <1>4, AtTyped, PutIsMap, EraseIsMap
     DEF SignsOff, SignedOff, LineDropped, SessionsTyped
<1>5. CASE FilesSender
  BY <1>0, <1>5, AtTyped, PutIsMap, InGroupGuid
     DEF FilesSender, SessionsTyped, RoomsWellFormed
<1>6. CASE \E fd \in Fds : Serving /\ Connect(fd)
  BY <1>6 DEF Connect, SessionsTyped
<1>7. CASE \E fd \in Fds : Ready(fd) /\ func_close(fd)
  BY <1>7, EraseIsMap DEF func_close, Unbound, LineDropped, SessionsTyped
<1>8. CASE Request
  BY <1>1, <1>2, <1>3, <1>4, <1>8, RequestSessions
<1>9. CASE BeginDrain
  BY <1>1, <1>9 DEF BeginDrain
<1>10. CASE Deliver
  BY <1>1, <1>5, <1>10, DeliverSessions
<1>11. CASE UNCHANGED vars
  BY <1>1, <1>11 DEF vars
<1> QED
  BY <1>6, <1>7, <1>8, <1>9, <1>10, <1>11 DEF Next

(* Groups are numbered. *)
LEMMA RoomGuidsStep ==
    ASSUME RoomGuids, [Next]_vars
    PROVE  RoomGuids'
<1>1. CASE DOMAIN groups' \subseteq DOMAIN groups
  BY <1>1 DEF RoomGuids
<1>2. ASSUME NEW fd, NEW w, on_acount_add(fd, w)
      PROVE  DOMAIN groups' \subseteq DOMAIN groups
  BY <1>2 DEF on_acount_add, Crash, Put
<1>3. ASSUME NEW fd, NEW u, on_acount_delete(fd, u)
      PROVE  DOMAIN groups' \subseteq DOMAIN groups
  BY <1>3 DEF on_acount_delete, Crash, AfterLeaving
<1>4. ASSUME NEW fd, NEW w \in Input.group_add, on_group_add(fd, w)
      PROVE  RoomGuids'
  <2>1. GivenGroup(w) \in Nat
    BY InputAssumption DEF GivenGroup
  <2> QED
    BY <1>1, <1>4, <2>1 DEF on_group_add, Put, RoomGuids
<1>5. ASSUME NEW fd, NEW w, on_group_modify(fd, w) \/ on_group_delete(fd, w)
      PROVE  DOMAIN groups' \subseteq DOMAIN groups
  BY <1>5 DEF on_group_modify, on_group_delete, Crash, Erase, Restrict
<1>6. ASSUME NEW fd, NEW w,
             \/ on_acount_modify(fd, w) \/ on_acount_login(fd, w)
             \/ on_acount_logout(fd, w) \/ on_acount_can_reg(fd, w)
      PROVE  UNCHANGED groups
  BY <1>6 DEF on_acount_modify, on_acount_login, on_acount_logout, on_acount_can_reg, Crash
<1>7. ASSUME NEW fd, NEW s, on_msg_send(fd, s.guid, s.msg)
      PROVE  UNCHANGED groups
  BY <1>7 DEF on_msg_send
<1>8. ASSUME NEW sends, Answers(sends)
      PROVE  UNCHANGED groups
  BY <1>8 DEF Answers
<1>9. CASE Request
  BY <1>1, <1>2, <1>3, <1>4, <1>5, <1>6, <1>7, <1>8, <1>9
     DEF Request, on_user_info_req, on_user_brief_info_req, on_group_info_req,
         on_msg_list_req, parse_error
<1>10. CASE Deliver
  BY <1>1, <1>10 DEF Deliver, deliver_to_group, group_delivery_faults, deliver_to_user,
                     deliver_to_all, deliver_other, Crash
<1>11. CASE \/ \E fd \in Fds : Serving /\ (Connect(fd) \/ func_close(fd))
            \/ BeginDrain \/ UNCHANGED vars
  BY <1>1, <1>11 DEF Connect, func_close, BeginDrain, vars
<1> QED
  BY <1>9, <1>10, <1>11 DEF Next, Ready

OutTyped == \A s \in out : s.to \in Nat

LEMMA SentTyped ==
    ASSUME NEW fds, fds \subseteq Nat, NEW type, NEW err
    PROVE  \A s \in Sent(fds, type, err) : s.to \in Nat
<1> SUFFICES ASSUME NEW s \in Sent(fds, type, err) PROVE s.to \in Nat
  OBVIOUS
<1>1. PICK fd \in fds : s = [to |-> fd, type |-> type, err |-> err]
  BY DEF Sent
<1> QED
  BY <1>1

(* Everything is sent to the number of a socket, or to 0. *)
LEMMA OutStep ==
    ASSUME OutTyped, SessionsTyped, [Next]_vars
    PROVE  OutTyped'
<1>1. Fds \subseteq Nat
  BY NetAssumption
<1>2. \A u \in DOMAIN user_conn_map : user_conn_map[u] \in Nat
  BY <1>1 DEF SessionsTyped, IsMap
<1>3. \A g, known : Recipients(g, known) \subseteq Nat
  BY <1>2 DEF Recipients
<1>4. \A type, err : \A fd \in Nat : \A s \in Ack(fd, type, err) : s.to \in Nat
  BY DEF Ack, Sent
<1>5. \A g, known, type, err : \A s \in Sent(Recipients(g, known), type, err) : s.to \in Nat
  BY <1>3, SentTyped
<1>6. ASSUME NEW fd \in Fds, NEW w, on_acount_add(fd, w)
      PROVE  OutTyped'
  BY <1>1, <1>4, <1>5, <1>6 DEF on_acount_add, Crash, OutTyped
<1>7. ASSUME NEW fd \in Fds, NEW u, on_acount_modify(fd, u) \/ on_acount_delete(fd, u)
      PROVE  OutTyped'
  BY <1>1, <1>4, <1>7 DEF on_acount_modify, on_acount_delete, Crash, OutTyped
<1>8. ASSUME NEW fd \in Fds, NEW u,
             on_acount_login(fd, u) \/ on_acount_logout(fd, u) \/ on_acount_can_reg(fd, u)
      PROVE  OutTyped'
  BY <1>1, <1>4, <1>8 DEF on_acount_login, on_acount_logout, on_acount_can_reg, OutTyped
<1>9. ASSUME NEW fd \in Fds, NEW w,
             on_group_add(fd, w) \/ on_group_modify(fd, w) \/ on_group_delete(fd, w)
      PROVE  OutTyped'
  BY <1>1, <1>4, <1>9 DEF on_group_add, on_group_modify, on_group_delete, Crash, OutTyped
<1>10. ASSUME NEW fd \in Fds, NEW s, on_msg_send(fd, s.guid, s.msg)
       PROVE  OutTyped'
  BY <1>1, <1>4, <1>10 DEF on_msg_send, OutTyped
<1>11. ASSUME NEW sends, \A s \in sends : s.to \in Nat, Answers(sends)
       PROVE  OutTyped'
  BY <1>11 DEF Answers, OutTyped
<1>12. CASE Request
  <2>1. ASSUME NEW fd \in Fds, NEW q,
               \/ on_user_info_req(fd, q) \/ on_user_brief_info_req(fd, q)
               \/ on_group_info_req(fd, q) \/ on_msg_list_req(fd, q) \/ parse_error(fd)
        PROVE  OutTyped'
    BY <1>1, <1>4, <1>11, <2>1 DEF on_user_info_req, on_user_brief_info_req,
       on_group_info_req, on_msg_list_req, parse_error
  <2> QED
    BY <1>6, <1>7, <1>8, <1>9, <1>10, <1>12, <2>1 DEF Request
<1>13. CASE Deliver
  <2>1. ASSUME NEW m, deliver_to_group(m)
        PROVE  OutTyped'
    <3>1. \A u : At(user_conn_map, u) \in Nat
      BY <1>2 DEF At
    <3> QED
      BY <1>4, <1>5, <2>1, <3>1 DEF deliver_to_group, OutTyped
  <2>2. ASSUME NEW m, deliver_to_all(m)
        PROVE  OutTyped'
    <3>1. {user_conn_map[u] : u \in DOMAIN user_conn_map \ {m.send_guid}} \subseteq Nat
      BY <1>2
    <3> QED
      BY <2>2, <3>1, SentTyped DEF deliver_to_all, Crash, OutTyped
  <2> QED
    BY <1>13, <2>1, <2>2 DEF Deliver, group_delivery_faults, deliver_to_user,
                             deliver_other, Crash, OutTyped
<1>14. CASE \/ \E fd \in Fds : Serving /\ (Connect(fd) \/ func_close(fd))
            \/ BeginDrain \/ UNCHANGED vars
  BY <1>14 DEF Connect, func_close, BeginDrain, vars, OutTyped
<1> QED
  BY <1>12, <1>13, <1>14 DEF Next, Ready

FlagsTyped == draining \in BOOLEAN /\ alive \in BOOLEAN

LEMMA FlagsStep ==
    ASSUME FlagsTyped, [Next]_vars
    PROVE  FlagsTyped'
<1>1. CASE UNCHANGED server
  BY <1>1 DEF FlagsTyped, server
<1>2. CASE Crash
  BY <1>2 DEF FlagsTyped, Crash
<1>3. CASE BeginDrain
  BY <1>3 DEF FlagsTyped, BeginDrain
<1>4. CASE Deliver
  <2>1. ASSUME NEW n, Popped(n), UNCHANGED alive
        PROVE  FlagsTyped'
    <3>1. draining' = (n < Len(msg_list))
      BY <2>1, Zenon DEF Popped
    <3>2. (n < Len(msg_list)) \in BOOLEAN
      OBVIOUS
    <3> QED
      BY <2>1, <3>1, <3>2, Zenon DEF FlagsTyped
  <2>2. Crash \/ UNCHANGED server \/ (UNCHANGED alive /\ \E n : Popped(n))
    BY <1>4 DEF Deliver, deliver_to_group, group_delivery_faults, deliver_to_user,
                deliver_to_all, deliver_other, server
  <2> QED
    BY <1>1, <1>2, <2>1, <2>2
<1>5. CASE Request
  <2>1. ASSUME NEW fd, NEW w,
               \/ on_acount_add(fd, w) \/ on_acount_modify(fd, w) \/ on_acount_delete(fd, w)
               \/ on_acount_login(fd, w) \/ on_acount_logout(fd, w) \/ on_acount_can_reg(fd, w)
        PROVE  Crash \/ UNCHANGED server
    BY <2>1 DEF on_acount_add, on_acount_modify, on_acount_delete, on_acount_login,
                on_acount_logout, on_acount_can_reg
  <2>2. ASSUME NEW fd, NEW w,
               on_group_add(fd, w) \/ on_group_modify(fd, w) \/ on_group_delete(fd, w)
        PROVE  Crash \/ UNCHANGED server
    BY <2>2 DEF on_group_add, on_group_modify, on_group_delete
  <2>3. ASSUME NEW fd, NEW s, on_msg_send(fd, s.guid, s.msg)
        PROVE  UNCHANGED server
    BY <2>3 DEF on_msg_send
  <2>4. ASSUME NEW sends, Answers(sends)
        PROVE  UNCHANGED server
    BY <2>4 DEF Answers
  <2> QED
    BY <1>1, <1>2, <1>5, <2>1, <2>2, <2>3, <2>4
       DEF Request, on_user_info_req, on_user_brief_info_req, on_group_info_req,
           on_msg_list_req, parse_error
<1>6. CASE (\E fd \in Fds : Serving /\ (Connect(fd) \/ func_close(fd))) \/ UNCHANGED vars
  BY <1>1, <1>6 DEF Connect, func_close, vars
<1> QED
  BY <1>3, <1>4, <1>5, <1>6 DEF Next, Ready

(* The variables, together with what the groups need to stay typed. *)
ServerInv ==
    /\ AccountsTyped /\ SessionsTyped
    /\ RoomsWellFormed /\ RoomGuids
    /\ KnownTyped /\ QueueTyped
    /\ OutTyped /\ FlagsTyped

LEMMA ServerInit == Init => ServerInv
<1> SUFFICES ASSUME Init PROVE ServerInv
  OBVIOUS
<1>1. 0 \in Guid /\ 1 \in Guid
  BY BoundsAssumption DEF Guid
<1>2. \A K, V : IsMap(EmptyMap, K, V)
  BY DEF IsMap, EmptyMap
<1>3. AccountsTyped /\ SessionsTyped
  BY <1>1, <1>2 DEF Init, AccountsTyped, AccountMap, SessionsTyped
<1>4. RoomsWellFormed /\ RoomGuids
  BY <1>1, NewGroupWellFormed DEF Init, RoomsWellFormed, RoomGuids
<1>5. KnownTyped /\ OutTyped /\ FlagsTyped
  BY DEF Init, KnownTyped, OutTyped, FlagsTyped, Known, EmptyMap
<1>6. QueueTyped
  BY DEF Init, QueueTyped
<1> QED
  BY <1>3, <1>4, <1>5, <1>6 DEF ServerInv

LEMMA ServerStep ==
    ASSUME ServerInv, [Next]_vars
    PROVE  ServerInv'
<1>1. AccountsTyped' /\ SessionsTyped'
  BY AccountsTypedStep, SessionsTypedStep DEF ServerInv
<1>2. RoomsWellFormed' /\ KnownTyped' /\ QueueTyped' /\ RoomGuids'
  BY RoomsStep, KnownStep, QueueStep, RoomGuidsStep DEF ServerInv
<1>3. OutTyped' /\ FlagsTyped'
  BY OutStep, FlagsStep DEF ServerInv
<1> QED
  BY <1>1, <1>2, <1>3 DEF ServerInv

LEMMA ServerAlways == Spec => []ServerInv
<1>1. ServerInv /\ [Next]_vars => ServerInv'
  BY ServerStep
<1> QED
  BY <1>1, ServerInit, PTL DEF Spec

(* The variables keep their types whatever clients send: no guid of an      *)
(* account is 0, no phone leads out of the guids, and operator[] files      *)
(* nothing in the two maps but sockets, guids and 0.                        *)
THEOREM ServerTypeOK == Spec => []TypeOK
<1>1. ServerInv => TypeOK
  BY DEF ServerInv, TypeOK, AccountsTyped, AccountMap, Phones, SessionsTyped, RoomGuids,
         RoomsWellFormed, WellFormed, QueueTyped, Msgs, OutTyped, FlagsTyped
<1> QED
  BY <1>1, ServerAlways, PTL

-----------------------------------------------------------------------------
(* Bindings. *)

(* Erasing an entry of a map leaves the rest of its keys. *)
LEMMA EraseDomain == ASSUME NEW f, NEW k
                     PROVE  DOMAIN Erase(f, k) = DOMAIN f \ {k}
BY DEF Erase, Restrict

(* Filing an entry adds its key. *)
LEMMA PutDomain == ASSUME NEW f, NEW k, NEW v
                   PROVE  DOMAIN Put(f, k, v) = DOMAIN f \cup {k}
BY DEF Put

(* Logout and deletion file an entry for the socket they serve at most. *)
LEMMA SignedOffDomain ==
    ASSUME NEW fd, NEW u
    PROVE  DOMAIN SignedOff(fd, u) \subseteq DOMAIN conn_user_map \cup {fd}
<1>1. DOMAIN Put(conn_user_map, fd, At(conn_user_map, fd)) = DOMAIN conn_user_map \cup {fd}
  BY PutDomain
<1>2. DOMAIN SignedOff(fd, u)
        = DOMAIN Put(conn_user_map, fd, At(conn_user_map, fd)) \ {At(user_conn_map, u)}
  BY EraseDomain DEF SignedOff
<1> QED BY <1>1, <1>2

(* A step that binds at most one socket, which is connected, is harmless. *)
LEMMA OneMoreBinding ==
    ASSUME ConnFdsOpen, NEW fd \in open, UNCHANGED open,
           DOMAIN conn_user_map' \subseteq DOMAIN conn_user_map \cup {fd}
    PROVE  ConnFdsOpen'
BY DEF ConnFdsOpen

(* No request binds a socket other than the one it came from. *)
LEMMA RequestBindsItself ==
    ASSUME ConnFdsOpen, Request
    PROVE  ConnFdsOpen'
<1>1. ASSUME NEW fd \in Fds, NEW w \in Input.acount_add, Ready(fd), on_acount_add(fd, w)
      PROVE  ConnFdsOpen'
  BY <1>1 DEF ConnFdsOpen, on_acount_add, Crash, sessions
<1>2. ASSUME NEW fd \in Fds, NEW w \in Input.acount_modify, Ready(fd), on_acount_modify(fd, w)
      PROVE  ConnFdsOpen'
  BY <1>2 DEF ConnFdsOpen, on_acount_modify, Crash, sessions
<1>3. ASSUME NEW fd \in Fds, NEW u \in Input.acount_delete, Ready(fd), on_acount_delete(fd, u)
      PROVE  ConnFdsOpen'
  <2>1. \/ conn_user_map' = Put(conn_user_map, fd, At(conn_user_map, fd)) /\ open' = open
        \/ conn_user_map' = SignedOff(fd, u) /\ open' = open
        \/ conn_user_map' = conn_user_map /\ open' = open
    BY <1>3 DEF on_acount_delete, Crash, sessions
  <2>2. DOMAIN conn_user_map' \subseteq DOMAIN conn_user_map \cup {fd}
    <3>1. DOMAIN Put(conn_user_map, fd, At(conn_user_map, fd)) = DOMAIN conn_user_map \cup {fd}
      BY PutDomain
    <3>2. DOMAIN SignedOff(fd, u) \subseteq DOMAIN conn_user_map \cup {fd}
      BY SignedOffDomain
    <3> QED BY <2>1, <3>1, <3>2
  <2> QED BY <1>3, <2>1, <2>2, OneMoreBinding DEF Ready
<1>4. ASSUME NEW fd \in Fds, NEW l \in Input.acount_login, Ready(fd), on_acount_login(fd, l)
      PROVE  ConnFdsOpen'
  <2>1. PICK u : conn_user_map' = Put(conn_user_map, fd, u) /\ open' = open
    BY <1>4 DEF on_acount_login
  <2>2. DOMAIN Put(conn_user_map, fd, u) = DOMAIN conn_user_map \cup {fd}
    BY PutDomain
  <2> QED BY <1>4, <2>1, <2>2, OneMoreBinding DEF Ready
<1>5. ASSUME NEW fd \in Fds, NEW u \in Input.acount_logout, Ready(fd), on_acount_logout(fd, u)
      PROVE  ConnFdsOpen'
  <2>1. \/ conn_user_map' = Put(conn_user_map, fd, At(conn_user_map, fd)) /\ open' = open
        \/ conn_user_map' = SignedOff(fd, u) /\ open' = open
    BY <1>5 DEF on_acount_logout
  <2>2. DOMAIN conn_user_map' \subseteq DOMAIN conn_user_map \cup {fd}
    <3>1. DOMAIN Put(conn_user_map, fd, At(conn_user_map, fd)) = DOMAIN conn_user_map \cup {fd}
      BY PutDomain
    <3>2. DOMAIN SignedOff(fd, u) \subseteq DOMAIN conn_user_map \cup {fd}
      BY SignedOffDomain
    <3> QED BY <2>1, <3>1, <3>2
  <2> QED BY <1>5, <2>1, <2>2, OneMoreBinding DEF Ready
<1>6. ASSUME NEW fd \in Fds, NEW p \in Input.acount_can_reg, Ready(fd), on_acount_can_reg(fd, p)
      PROVE  ConnFdsOpen'
  BY <1>6 DEF ConnFdsOpen, on_acount_can_reg, sessions
<1>7. ASSUME NEW fd \in Fds, NEW w \in Input.group_add, Ready(fd), on_group_add(fd, w)
      PROVE  ConnFdsOpen'
  BY <1>7 DEF ConnFdsOpen, on_group_add, sessions
<1>8. ASSUME NEW fd \in Fds, NEW w \in Input.group_modify, Ready(fd), on_group_modify(fd, w)
      PROVE  ConnFdsOpen'
  BY <1>8 DEF ConnFdsOpen, on_group_modify, Crash, sessions
<1>9. ASSUME NEW fd \in Fds, NEW w \in Input.group_delete, Ready(fd), on_group_delete(fd, w)
      PROVE  ConnFdsOpen'
  BY <1>9 DEF ConnFdsOpen, on_group_delete, Crash, sessions
<1>10. ASSUME NEW fd \in Fds, NEW s \in Input.msg_send, Ready(fd), on_msg_send(fd, s.guid, s.msg)
       PROVE  ConnFdsOpen'
  BY <1>10 DEF ConnFdsOpen, on_msg_send, sessions
<1>11. ASSUME NEW sends, Answers(sends)
       PROVE  ConnFdsOpen'
  BY <1>11 DEF ConnFdsOpen, Answers, sessions
<1> QED
  BY <1>1, <1>2, <1>3, <1>4, <1>5, <1>6, <1>7, <1>8, <1>9, <1>10, <1>11
     DEF Request, on_user_info_req, on_user_brief_info_req, on_group_info_req,
         on_msg_list_req, parse_error

(* Sending the queue out does not touch conn_user_map. *)
LEMMA DeliverBindsNobody ==
    ASSUME ConnFdsOpen, Deliver
    PROVE  ConnFdsOpen'
BY DEF ConnFdsOpen, Deliver, deliver_to_group, group_delivery_faults, deliver_to_user,
       deliver_to_all, deliver_other, Crash, sessions

(* Whatever clients send and however their requests and closes interleave,  *)
(* every entry of conn_user_map belongs to a socket that is connected: a    *)
(* socket number that is used again starts out bound to nobody, although    *)
(* operator[] files entries in logout, deletion and func_close.             *)
THEOREM BindingsOfOpenSockets == Spec => []ConnFdsOpen
<1>1. Init => ConnFdsOpen
  BY DEF Init, ConnFdsOpen, EmptyMap
<1>2. ConnFdsOpen /\ [Next]_vars => ConnFdsOpen'
  <2> SUFFICES ASSUME ConnFdsOpen, [Next]_vars PROVE ConnFdsOpen'
    OBVIOUS
  <2>1. CASE \E fd \in Fds : Serving /\ Connect(fd)
    BY <2>1 DEF ConnFdsOpen, Connect
  <2>2. CASE \E fd \in Fds : Ready(fd) /\ func_close(fd)
    BY <2>2, EraseDomain DEF ConnFdsOpen, func_close, Unbound
  <2>3. CASE Request
    BY <2>3, RequestBindsItself
  <2>4. CASE BeginDrain
    BY <2>4 DEF ConnFdsOpen, BeginDrain, sessions
  <2>5. CASE Deliver
    BY <2>5, DeliverBindsNobody
  <2>6. CASE UNCHANGED vars
    BY <2>6 DEF ConnFdsOpen, vars, sessions
  <2> QED BY <2>1, <2>2, <2>3, <2>4, <2>5, <2>6 DEF Next
<1> QED BY <1>1, <1>2, PTL DEF Spec

-----------------------------------------------------------------------------
(* Phones. *)

(* Clients leave the choice of the guid of a new account to the server. *)
ServerChooses == \A w \in Input.acount_add : w.user_guid = 0

(* The guids of accounts are among those that were given out. *)
GuidsGiven == \A u \in Known : u <= global_user_guid

(* The guid of a new account is one that nobody has. *)
LEMMA NextGuidIsFree ==
    ASSUME AccountsTyped, GuidsGiven, ServerChooses, NEW w \in Input.acount_add
    PROVE  GivenGuid(w) = global_user_guid + 1 /\ GivenGuid(w) \notin Known
<1>1. global_user_guid \in Nat
  BY DEF AccountsTyped, Guid
<1>2. GivenGuid(w) = global_user_guid + 1
  BY DEF GivenGuid, ServerChooses
<1> QED
  BY <1>1, <1>2 DEF GuidsGiven

LEMMA GuidsGivenStep ==
    ASSUME AccountsTyped, GuidsGiven, ServerChooses, AccountsMove
    PROVE  GuidsGiven'
<1>0. global_user_guid \in Nat /\ Known \subseteq Nat
  BY DEF AccountsTyped, Guid, AccountMap, IsMap, Known
<1>1. CASE Rewrites \/ \E w \in Input.acount_modify : Replaces(w)
  BY <1>0, <1>1 DEF Rewrites, Replaces, SamePhones, Put, GuidsGiven, Known
<1>2. ASSUME NEW w \in Input.acount_add, Registers(w)
      PROVE  GuidsGiven'
  <2>1. GivenGuid(w) = global_user_guid + 1
    BY NextGuidIsFree
  <2>2. Known' = Known \cup {GivenGuid(w)}
    BY <1>2 DEF Registers, Put, Known
  <2>3. global_user_guid' = global_user_guid + 1
    BY <1>2 DEF Registers
  <2>4. \A v \in Known \cup {GivenGuid(w)} : v <= global_user_guid + 1
    <3>1. ASSUME NEW v \in Known PROVE v <= global_user_guid + 1
      <4>1. v \in Nat /\ v <= global_user_guid
        BY <1>0 DEF GuidsGiven
      <4> QED
        BY <1>0, <4>1
    <3>2. GivenGuid(w) <= global_user_guid + 1
      BY <1>0, <2>1
    <3> QED
      BY <3>1, <3>2
  <2> QED
    BY <2>2, <2>3, <2>4 DEF GuidsGiven
<1>3. ASSUME NEW u, Closes(u)
      PROVE  GuidsGiven'
  BY <1>3, EraseFacts DEF Closes, GuidsGiven, Known
<1> QED
  BY <1>1, <1>2, <1>3 DEF AccountsMove

LEMMA PhoneStep ==
    ASSUME AccountsTyped, GuidsGiven, ServerChooses, PhoneIndexSound, AccountsMove
    PROVE  PhoneIndexSound'
<1>1. CASE Rewrites
  BY <1>1 DEF Rewrites, SamePhones, PhoneIndexSound, Known
<1>2. ASSUME NEW w \in Input.acount_add, Registers(w)
      PROVE  PhoneIndexSound'
  <2> DEFINE u == GivenGuid(w)
  <2>1. u \notin Known
    BY NextGuidIsFree
  <2>2. /\ DOMAIN users' = Known \cup {u}
        /\ users'[u].phone = w.phone
        /\ \A v \in Known : users'[v] = users[v]
    BY <1>2, <2>1 DEF Registers, Put, Known, Account
  <2>3. /\ DOMAIN phone_hash_map' = DOMAIN phone_hash_map \cup {w.phone}
        /\ phone_hash_map'[w.phone] = u
        /\ \A p \in DOMAIN phone_hash_map \ {w.phone} :
               phone_hash_map'[p] = phone_hash_map[p]
    BY <1>2 DEF Registers, Put
  <2> QED
    BY <2>2, <2>3 DEF PhoneIndexSound, Known
<1>3. ASSUME NEW w \in Input.acount_modify, Replaces(w)
      PROVE  PhoneIndexSound'
  <2> DEFINE u == GivenGuid(w)
             left == Erase(phone_hash_map, users[u].phone)
  <2>1. u \in Known
    BY <1>3 DEF Replaces
  <2>2. /\ DOMAIN users' = Known
        /\ users'[u].phone = w.phone
        /\ \A v \in Known \ {u} : users'[v] = users[v]
    BY <1>3, <2>1 DEF Replaces, Put, Known, Account
  <2>3. phone_hash_map' = Put(left, w.phone, u)
    BY <1>3 DEF Replaces, Rephoned
  <2>4. /\ DOMAIN left = DOMAIN phone_hash_map \ {users[u].phone}
        /\ \A p \in DOMAIN left : left[p] = phone_hash_map[p]
    BY EraseFacts
  <2>5. /\ DOMAIN phone_hash_map' = DOMAIN left \cup {w.phone}
        /\ phone_hash_map'[w.phone] = u
        /\ \A p \in DOMAIN left \ {w.phone} : phone_hash_map'[p] = phone_hash_map[p]
    BY <2>3, <2>4 DEF Put
  <2> HIDE DEF u, left
  <2>6. \A p \in DOMAIN left : phone_hash_map[p] \in Known \ {u}
    BY <2>4 DEF PhoneIndexSound
  <2> QED
    BY <2>1, <2>2, <2>4, <2>5, <2>6 DEF PhoneIndexSound, Known
<1>4. ASSUME NEW u, Closes(u)
      PROVE  PhoneIndexSound'
  <2>1. /\ DOMAIN users' = Known \ {u}
        /\ \A v \in Known \ {u} : users'[v] = users[v]
    BY <1>4, EraseFacts DEF Closes, Known
  <2>2. CASE u \notin Known
    BY <1>4, <2>1, <2>2 DEF Closes, PhoneIndexSound, Known
  <2>3. CASE u \in Known
    <3>1. /\ DOMAIN phone_hash_map' = DOMAIN phone_hash_map \ {users[u].phone}
          /\ \A p \in DOMAIN phone_hash_map' : phone_hash_map'[p] = phone_hash_map[p]
      BY <1>4, <2>3, EraseFacts DEF Closes
    <3>2. \A p \in DOMAIN phone_hash_map' : phone_hash_map[p] \in Known \ {u}
      BY <3>1 DEF PhoneIndexSound
    <3> QED
      BY <2>1, <3>1, <3>2 DEF PhoneIndexSound, Known
  <2> QED
    BY <2>2, <2>3
<1> QED
  BY <1>1, <1>2, <1>3, <1>4 DEF AccountsMove

(* Where the server chooses the guids of new accounts, a phone number leads *)
(* for ever to a registered account that has it: a login is checked against *)
(* the password of the right account, after any sequence of registrations,  *)
(* renumberings (even to a number somebody else has), and deletions         *)
(* (read_thread.cpp:156, 220-231, 274).  That no account has a guid beyond *)
(* global_user_guid is what a registration needs, for otherwise it would    *)
(* replace an account and leave its phone behind.                           *)
THEOREM PhonesLeadToTheirAccounts == ServerChooses /\ Spec => []PhoneIndexSound
<1> SUFFICES ASSUME ServerChooses PROVE Spec => []PhoneIndexSound
  OBVIOUS
<1> DEFINE I == GuidsGiven /\ PhoneIndexSound
<1>1. Init => I
  BY DEF Init, GuidsGiven, PhoneIndexSound, Known, EmptyMap
<1>2. ServerInv /\ I /\ [Next]_vars => I'
  BY AccountsStep, GuidsGivenStep, PhoneStep DEF ServerInv, AccountsTyped
<1> QED
  BY <1>1, <1>2, ServerAlways, PTL DEF Spec

-----------------------------------------------------------------------------
(* Who is in the groups of the server. *)

(* The first account leads the room it joins, and nobody leaves for it. *)
LEMMA InPublicRoomMembers ==
    ASSUME NEW g, WellFormed(g), NEW u \in Guid, NEW size,
           NEW r \in InPublicRoom(g, u, size)
    PROVE  \A v : InGroup(r, v) <=> InGroup(g, v) \/ v = u
<1> DEFINE h == IF size = 1 THEN SetLeader(g, u) ELSE g
<1>1. WellFormed(h) /\ \A v : InGroup(h, v) <=> InGroup(g, v)
  BY SetLeaderWellFormed, SetLeaderMembers DEF WellFormed
<1>2. \/ ~CanAddMember(h, 0, u) /\ r = h
      \/ \E n : r = AddMember(h, 0, u, n)
  BY DEF InPublicRoom
<1> HIDE DEF h
<1>3. ~CanAddMember(h, 0, u) => InGroup(h, u)
  BY DEF CanAddMember, InGroup
<1>4. \A n, v : InGroup(AddMember(h, 0, u, n), v) <=> InGroup(h, v) \/ v = u
  BY <1>1, AddMemberMembers DEF WellFormed
<1> QED
  BY <1>1, <1>2, <1>3, <1>4

(* Nobody but u is lost, and nobody comes. *)
LosesOnly(h, g, u) == /\ \A v : InGroup(h, v) => InGroup(g, v)
                      /\ \A v : v # u /\ InGroup(g, v) => InGroup(h, v)

(* Who leaves a group leaves alone. *)
LEMMA LeavingMembers ==
    ASSUME NEW g, WellFormed(g), NEW u
    PROVE  /\ LosesOnly(LeftJoined(g, u), g, u)
           /\ LeavesPublicRoom(g, u) => LosesOnly(Expelled(g, u), g, u)
<1>1. LosesOnly(Demoted(g, u), g, u)
  BY DeleteManagerMembers DEF Demoted, Demotes, LosesOnly, SameMembers, WellFormed
<1>2. \A h : WellFormed(h) => LosesOnly(Removed(h, u), h, u)
  BY DeleteMemberMembers DEF Removed, LosesOnly, WellFormed
<1>3. LeavesPublicRoom(g, u) => WellFormed(Demoted(g, u))
  BY DemotedWellFormed DEF LeavesPublicRoom
<1>4. LeavesPublicRoom(g, u) => LosesOnly(Expelled(g, u), g, u)
  BY <1>1, <1>2, <1>3 DEF Expelled, LosesOnly
<1>5. LosesOnly(LeftJoined(g, u), g, u)
  BY <1>1, <1>2 DEF LeftJoined
<1> QED
  BY <1>4, <1>5

(* An account that goes is the only one that any group loses. *)
LEMMA AcountDeleteMembers ==
    ASSUME RoomsWellFormed, NEW fd, NEW u, on_acount_delete(fd, u)
    PROVE  /\ DOMAIN groups' = DOMAIN groups
           /\ \A g \in DOMAIN groups : LosesOnly(groups'[g], groups[g], u)
<1>1. CASE UNCHANGED groups
  BY <1>1 DEF LosesOnly
<1>2. CASE /\ 1 \in DOMAIN groups
           /\ \A k \in Joined(u) \cap DOMAIN groups : LeavesJoined(groups[k], u)
           /\ LeavesPublicRoom(AfterLeaving(u)[1], u)
           /\ groups' = [AfterLeaving(u) EXCEPT ![1] = Expelled(AfterLeaving(u)[1], u)]
  <2>1. /\ DOMAIN AfterLeaving(u) = DOMAIN groups
        /\ \A g \in DOMAIN groups : WellFormed(AfterLeaving(u)[g])
    BY <1>2, AfterLeavingWellFormed
  <2>2. \A g \in DOMAIN groups : LosesOnly(AfterLeaving(u)[g], groups[g], u)
    BY LeavingMembers DEF AfterLeaving, RoomsWellFormed, LosesOnly
  <2>3. LosesOnly(Expelled(AfterLeaving(u)[1], u), AfterLeaving(u)[1], u)
    BY <1>2, <2>1, LeavingMembers
  <2>4. LosesOnly(Expelled(AfterLeaving(u)[1], u), groups[1], u)
    BY <1>2, <2>2, <2>3 DEF LosesOnly
  <2> QED
    BY <1>2, <2>1, <2>2, <2>4
<1> QED
  BY <1>1, <1>2 DEF on_acount_delete, Crash

(* A group request brings its target in, and only MEMBER_DELETE puts it out. *)
LEMMA ModifiedMembers ==
    ASSUME RoomsWellFormed, NEW w, GroupModifyError(w) = "OK", Granted(w),
           NEW h \in Modified(w)
    PROVE  LET g == groups[w.group_guid]
           IN  /\ \A v : InGroup(h, v) => InGroup(g, v) \/ v = w.target_guid
               /\ w.type # 1 => \A v : InGroup(g, v) => InGroup(h, v)
<1> DEFINE g == groups[w.group_guid]
           op == w.operate_guid
           u == w.target_guid
<1>1. IsGroup(g)
  BY DEF GroupModifyError, RoomsWellFormed, WellFormed
<1>2. \/ w.type = 0 /\ \E n : h = AddMember(g, op, u, n)
      \/ w.type = 1 /\ CanDeleteMember(g, op, u) /\ h = DeleteMember(g, op, u)
      \/ w.type = 2 /\ h = ChangePermissions(g, op, u, w.permission)
      \/ w.type = 3 /\ CanAddManager(g, op, u) /\ h = AddManager(g, op, u)
      \/ w.type = 4 /\ CanDeleteManager(g, op, u) /\ h = DeleteManager(g, op, u)
  BY DEF Granted, Modified
<1> HIDE DEF g, op, u
<1>3. SameMembers(ChangePermissions(g, op, u, w.permission), g)
  BY <1>1, OtherMethodsMembers
<1>4. CanAddManager(g, op, u) => SameMembers(AddManager(g, op, u), g)
  BY <1>1, AddManagerMembers
<1>5. CanDeleteManager(g, op, u) => SameMembers(DeleteManager(g, op, u), g)
  BY <1>1, DeleteManagerMembers
<1>6. /\ \A v : InGroup(h, v) => InGroup(g, v) \/ v = u
      /\ w.type # 1 => \A v : InGroup(g, v) => InGroup(h, v)
  <2>1. CASE w.type = 0
    BY <1>1, <1>2, <2>1, AddMemberMembers
  <2>2. CASE w.type = 1
    BY <1>1, <1>2, <2>2, DeleteMemberMembers
  <2>3. CASE w.type \in {2, 3, 4}
    BY <1>2, <1>3, <1>4, <1>5, <2>3 DEF SameMembers
  <2> QED
    BY <1>2, <2>1, <2>2, <2>3
<1> QED
  BY <1>6 DEF g, u

(* Sending a message brings nobody in and puts nobody out. *)
LEMMA DeliverMembers ==
    ASSUME RoomsWellFormed, Deliver
    PROVE  /\ DOMAIN groups' = DOMAIN groups
           /\ \A g \in DOMAIN groups : \A v : InGroup(groups'[g], v) <=> InGroup(groups[g], v)
<1> DEFINE m == Head(msg_list)
<1>1. CASE UNCHANGED groups
  BY <1>1
<1>2. CASE /\ m.recv_guid \in DOMAIN groups
           /\ groups' = [groups EXCEPT ![m.recv_guid] =
                             CountedFor(AddMsg(groups[m.recv_guid], m.msg_num), m.send_guid)]
  <2> DEFINE g == AddMsg(groups[m.recv_guid], m.msg_num)
             h == CountedFor(g, m.send_guid)
  <2>1. IsGroup(groups[m.recv_guid])
    BY <1>2 DEF RoomsWellFormed, WellFormed
  <2>2. SameMembers(g, groups[m.recv_guid])
    BY <2>1, OtherMethodsMembers
  <2>3. h.managers_map = g.managers_map /\ h.members_map = g.members_map
    BY <2>1 DEF CountedFor, AddMsg, IsGroup
  <2>4. \A v : InGroup(h, v) <=> InGroup(groups[m.recv_guid], v)
    BY <2>2, <2>3 DEF SameMembers, InGroup, Managers, Normals
  <2> HIDE DEF g, h
  <2> QED
    BY <1>2, <2>4 DEF g, h
<1> QED
  BY <1>1, <1>2
     DEF Deliver, deliver_to_group, group_delivery_faults, deliver_to_user,
         deliver_to_all, deliver_other, Crash

(* The public room is left in place, and nobody is thrown out of it. *)
PublicRoomStays ==
    /\ \A w \in Input.group_add : w.group_guid # 1
    /\ \A w \in Input.group_delete : w.group_guid # 1
    /\ \A w \in Input.group_modify : ~(w.group_guid = 1 /\ w.type = 1)

(* Everybody in the room stays, and whoever registers is there. *)
RoomOpen == 1 \in DOMAIN groups /\ AllInPublicRoom

LEMMA KeptPublicRoom ==
    ASSUME RoomOpen, Known' \subseteq Known, 1 \in DOMAIN groups',
           \A v : InGroup(groups[1], v) => InGroup(groups'[1], v)
    PROVE  RoomOpen'
BY DEF RoomOpen, AllInPublicRoom, Known

LEMMA AcountAddPublicRoom ==
    ASSUME RoomOpen, RoomsWellFormed, KnownTyped, NEW fd, NEW w \in Input.acount_add,
           on_acount_add(fd, w)
    PROVE  RoomOpen'
<1> DEFINE u == GivenGuid(w)
<1>1. CASE UNCHANGED <<users, groups>>
  BY <1>1 DEF RoomOpen, AllInPublicRoom, Known
<1>2. ASSUME 1 \in DOMAIN groups, u <= MaxGuid,
             NEW g \in InPublicRoom(groups[1], u, Cardinality(Known \cup {u})),
             users' = Put(users, u, Account(w, TRUE)), groups' = Put(groups, 1, g)
      PROVE  RoomOpen'
  <2>1. u \in Guid
    BY <1>2, InputAssumption, BoundsAssumption DEF GivenGuid, KnownTyped, Guid
  <2>2. \A v : InGroup(g, v) <=> InGroup(groups[1], v) \/ v = u
    BY <1>2, <2>1, InPublicRoomMembers DEF RoomsWellFormed
  <2> HIDE DEF u
  <2>3. Known' = Known \cup {u}
    BY <1>2 DEF Put, Known
  <2>4. 1 \in DOMAIN groups' /\ groups'[1] = g
    BY <1>2 DEF Put
  <2> QED
    BY <2>2, <2>3, <2>4 DEF RoomOpen, AllInPublicRoom
<1> QED
  BY <1>1, <1>2 DEF on_acount_add, Crash, accounts

LEMMA AcountDeletePublicRoom ==
    ASSUME RoomOpen, RoomsWellFormed, NEW fd, NEW u, on_acount_delete(fd, u)
    PROVE  RoomOpen'
<1>1. CASE UNCHANGED <<users, groups>>
  BY <1>1 DEF RoomOpen, AllInPublicRoom, Known
<1>2. CASE users' = Erase(users, u)
  <2>1. Known' = Known \ {u}
    BY <1>2 DEF Known, Erase, Restrict
  <2> QED
    BY <2>1, AcountDeleteMembers DEF RoomOpen, AllInPublicRoom, LosesOnly
<1> QED
  BY <1>1, <1>2 DEF on_acount_delete, Crash, accounts

LEMMA GroupRequestPublicRoom ==
    ASSUME RoomOpen, RoomsWellFormed, AccountMap(users), RoomGuids, PublicRoomStays, NEW fd
    PROVE  /\ \A w \in Input.group_add : on_group_add(fd, w) => RoomOpen'
           /\ \A w \in Input.group_modify : on_group_modify(fd, w) => RoomOpen'
           /\ \A w \in Input.group_delete : on_group_delete(fd, w) => RoomOpen'
<1>1. ASSUME NEW w \in Input.group_add, on_group_add(fd, w)
      PROVE  RoomOpen'
  <2>1. GivenGroup(w) # 1
    BY DEF GivenGroup, PublicRoomStays
  <2>2. 1 \in DOMAIN groups' /\ groups'[1] = groups[1]
    BY <1>1, <2>1 DEF on_group_add, Put, RoomOpen
  <2>3. Known' = Known
    BY <1>1, GroupAddAccounts DEF Rewrites, SamePhones, Known
  <2> QED
    BY <2>2, <2>3, KeptPublicRoom
<1>2. ASSUME NEW w \in Input.group_modify, on_group_modify(fd, w)
      PROVE  RoomOpen'
  <2>1. Known' = Known
    BY <1>2, GroupModifyAccounts DEF Rewrites, SamePhones, Known
  <2>2. CASE UNCHANGED groups
    BY <2>1, <2>2, KeptPublicRoom DEF RoomOpen
  <2>3. CASE /\ GroupModifyError(w) = "OK" /\ Granted(w)
             /\ \E h \in Modified(w) : groups' = [groups EXCEPT ![w.group_guid] = h]
    <3>1. w.group_guid = 1
            => \A h \in Modified(w) : \A v : InGroup(groups[1], v) => InGroup(h, v)
      BY <2>3, ModifiedMembers DEF PublicRoomStays
    <3> QED
      BY <2>1, <2>3, <3>1, KeptPublicRoom DEF RoomOpen
  <2> QED
    BY <1>2, <2>2, <2>3 DEF on_group_modify, Crash
<1>3. ASSUME NEW w \in Input.group_delete, on_group_delete(fd, w)
      PROVE  RoomOpen'
  <2>1. 1 \in DOMAIN groups' /\ groups'[1] = groups[1]
    BY <1>3 DEF on_group_delete, Crash, Erase, Restrict, RoomOpen, PublicRoomStays
  <2>2. Known' = Known
    BY <1>3, GroupDeleteAccounts DEF Rewrites, SamePhones, Known
  <2> QED
    BY <2>1, <2>2, KeptPublicRoom
<1> QED
  BY <1>1, <1>2, <1>3

LEMMA RequestPublicRoom ==
    ASSUME RoomOpen, ServerInv, PublicRoomStays, Request
    PROVE  RoomOpen'
<1>0. RoomsWellFormed /\ KnownTyped /\ AccountMap(users) /\ RoomGuids
  BY DEF ServerInv, AccountsTyped
<1>1. ASSUME NEW fd \in Fds, NEW w \in Input.acount_add, on_acount_add(fd, w)
      PROVE  RoomOpen'
  BY <1>0, <1>1, AcountAddPublicRoom
<1>2. ASSUME NEW fd \in Fds, NEW u, on_acount_delete(fd, u)
      PROVE  RoomOpen'
  BY <1>0, <1>2, AcountDeletePublicRoom
<1>3. ASSUME NEW fd \in Fds, NEW w,
             \/ on_acount_modify(fd, w) \/ on_acount_login(fd, w)
             \/ on_acount_logout(fd, w) \/ on_acount_can_reg(fd, w)
      PROVE  RoomOpen'
  <2>1. UNCHANGED groups
    BY <1>3 DEF on_acount_modify, on_acount_login, on_acount_logout, on_acount_can_reg, Crash
  <2>2. Known' \subseteq Known
    BY <1>3 DEF on_acount_modify, on_acount_login, on_acount_logout, on_acount_can_reg,
                Crash, accounts, SetOnline, Put, Known
  <2> QED
    BY <2>1, <2>2, KeptPublicRoom DEF RoomOpen
<1>4. ASSUME NEW fd \in Fds, NEW s, on_msg_send(fd, s.guid, s.msg)
      PROVE  RoomOpen'
  BY <1>4, KeptPublicRoom DEF on_msg_send, accounts, RoomOpen, Known
<1>5. ASSUME NEW sends, Answers(sends)
      PROVE  RoomOpen'
  BY <1>5, KeptPublicRoom DEF Answers, accounts, RoomOpen, Known
<1>6. ASSUME NEW fd \in Fds
      PROVE  /\ \A w \in Input.group_add : on_group_add(fd, w) => RoomOpen'
             /\ \A w \in Input.group_modify : on_group_modify(fd, w) => RoomOpen'
             /\ \A w \in Input.group_delete : on_group_delete(fd, w) => RoomOpen'
  BY <1>0, GroupRequestPublicRoom
<1> QED
  BY <1>1, <1>2, <1>3, <1>4, <1>5, <1>6
     DEF Request, on_user_info_req, on_user_brief_info_req, on_group_info_req,
         on_msg_list_req, parse_error

(* Where nobody is thrown out of the public room and nobody replaces or     *)
(* deletes it, every account is in it from its registration to its end      *)
(* (read_thread.cpp:159-183, 255-287): whoever leads the room, also after   *)
(* its leader was deleted, and whoever is promoted or demoted in it.        *)
THEOREM AccountsStayInPublicRoom == PublicRoomStays /\ Spec => []AllInPublicRoom
<1> SUFFICES ASSUME PublicRoomStays PROVE Spec => []AllInPublicRoom
  OBVIOUS
<1>1. Init => RoomOpen
  BY DEF Init, RoomOpen, AllInPublicRoom, Known, EmptyMap
<1>2. ServerInv /\ RoomOpen /\ [Next]_vars => RoomOpen'
  <2> SUFFICES ASSUME ServerInv, RoomOpen, [Next]_vars PROVE RoomOpen'
    OBVIOUS
  <2>1. CASE \E fd \in Fds : Serving /\ Connect(fd)
    BY <2>1, KeptPublicRoom DEF Connect, accounts, Known, RoomOpen
  <2>2. CASE \E fd \in Fds : Ready(fd) /\ func_close(fd)
    BY <2>2, KeptPublicRoom DEF func_close, SetOnline, Known, RoomOpen
  <2>3. CASE Request
    BY <2>3, RequestPublicRoom
  <2>4. CASE BeginDrain \/ UNCHANGED vars
    BY <2>4, KeptPublicRoom DEF BeginDrain, vars, accounts, Known, RoomOpen
  <2>5. CASE Deliver
    <3>1. Known' = Known
      BY <2>5 DEF Deliver, deliver_to_group, group_delivery_faults, deliver_to_user,
                  deliver_to_all, deliver_other, Crash, accounts, Known
    <3> QED
      BY <2>5, <3>1, DeliverMembers, KeptPublicRoom DEF ServerInv, RoomOpen
  <2> QED
    BY <2>1, <2>2, <2>3, <2>4, <2>5 DEF Next
<1>3. RoomOpen => AllInPublicRoom
  BY DEF RoomOpen
<1> QED
  BY <1>1, <1>2, <1>3, ServerAlways, PTL DEF Spec

=============================================================================
