----------------------------- MODULE NetRoomProofs -----------------------------
(***************************************************************************)
(* Every group of the server stays well-formed whatever clients send.  The *)
(* handlers call the methods of GroupInfo, whose lemmas do the work; what   *)
(* is left is that the guids and numbers the handlers pass on are such.     *)
(* Guids are those of registered users, and message numbers come out of    *)
(* the queue, which is not empty while it is sent out.                      *)
(***************************************************************************)
EXTENDS NetInfo, GroupInfoProofs

Msgs == {s.msg : s \in Input.msg_send}

KnownTyped == Known \subseteq Guid /\ global_user_guid \in Nat

QueueTyped == msg_list \in Seq(Msgs) /\ (draining => msg_list # << >>)

-----------------------------------------------------------------------------
(* Who is registered. *)

(* Writing fields of accounts registers nobody. *)
LEMMA SameAccounts ==
    ASSUME NEW us, NEW u, NEW on, NEW who, NEW g, NEW d
    PROVE  /\ DOMAIN SetOnline(us, u, on) = DOMAIN us
           /\ DOMAIN JoinsGroup(us, who, g) = DOMAIN us
           /\ DOMAIN LeavesGroup(us, who, g) = DOMAIN us
           /\ DOMAIN Charged(us, u, d) = DOMAIN us
BY DEF SetOnline, JoinsGroup, LeavesGroup, Charged

(* A new account has a guid in range. *)
LEMMA AddKnown ==
    ASSUME KnownTyped, NEW fd, NEW w \in Input.acount_add, on_acount_add(fd, w)
    PROVE  KnownTyped'
<1>1. CASE UNCHANGED <<users, global_user_guid>>
  BY <1>1 DEF KnownTyped, Known
<1>2. CASE /\ GivenGuid(w) <= MaxGuid
           /\ users' = Put(users, GivenGuid(w), Account(w, TRUE))
           /\ global_user_guid' = GuidTaken(global_user_guid)
  <2>1. GivenGuid(w) \in Guid
    <3>1. GivenGuid(w) \in Nat
      BY InputAssumption DEF GivenGuid, KnownTyped
    <3> QED
      BY <1>2, <3>1, BoundsAssumption DEF Guid
  <2>2. DOMAIN Put(users, GivenGuid(w), Account(w, TRUE)) = DOMAIN users \cup {GivenGuid(w)}
    BY DEF Put
  <2>3. global_user_guid' \in Nat
    BY <1>2 DEF KnownTyped, GuidTaken
  <2> QED
    BY <1>2, <2>1, <2>2, <2>3 DEF KnownTyped, Known
<1> QED
  BY <1>1, <1>2 DEF on_acount_add, Crash, accounts

(* An account that is replaced keeps its guid. *)
LEMMA ModifyKnown ==
    ASSUME KnownTyped, NEW fd, NEW w, on_acount_modify(fd, w)
    PROVE  KnownTyped'
<1>1. CASE UNCHANGED <<users, global_user_guid>>
  BY <1>1 DEF KnownTyped, Known
<1>2. CASE /\ GivenGuid(w) \in Known
           /\ users' = Put(users, GivenGuid(w), Account(w, w.online))
           /\ UNCHANGED global_user_guid
  <2>1. DOMAIN Put(users, GivenGuid(w), Account(w, w.online)) = DOMAIN users \cup {GivenGuid(w)}
    BY DEF Put
  <2> QED
    BY <1>2, <2>1 DEF KnownTyped, Known
<1> QED
  BY <1>1, <1>2 DEF on_acount_modify, Crash, accounts

(* A step that registers nobody. *)
LEMMA KeptKnown ==
    ASSUME KnownTyped, DOMAIN users' \subseteq DOMAIN users, UNCHANGED global_user_guid
    PROVE  KnownTyped'
BY DEF KnownTyped, Known

(* No request gives an account a guid out of range. *)
LEMMA RequestKnown ==
    ASSUME KnownTyped, Request
    PROVE  KnownTyped'
<1>1. ASSUME NEW fd \in Fds, NEW w \in Input.acount_add, on_acount_add(fd, w)
      PROVE  KnownTyped'
  BY <1>1, AddKnown
<1>2. ASSUME NEW fd \in Fds, NEW w \in Input.acount_modify, on_acount_modify(fd, w)
      PROVE  KnownTyped'
  BY <1>2, ModifyKnown
<1>3. ASSUME NEW fd \in Fds, NEW u \in Input.acount_delete, on_acount_delete(fd, u)
      PROVE  KnownTyped'
  <2>1. users' = users \/ users' = Erase(users, u)
    BY <1>3 DEF on_acount_delete, Crash, accounts
  <2>2. DOMAIN Erase(users, u) \subseteq DOMAIN users
    <3>1. DOMAIN Erase(users, u) = DOMAIN users \ {u}
      BY EraseFacts
    <3> QED
      BY <3>1
  <2>3. UNCHANGED global_user_guid
    BY <1>3 DEF on_acount_delete, Crash, accounts
  <2> QED
    BY <2>1, <2>2, <2>3, KeptKnown
<1>4. ASSUME NEW fd \in Fds, NEW l \in Input.acount_login, on_acount_login(fd, l)
      PROVE  KnownTyped'
  BY <1>4, KeptKnown DEF on_acount_login, SetOnline
<1>5. ASSUME NEW fd \in Fds, NEW u \in Input.acount_logout, on_acount_logout(fd, u)
      PROVE  KnownTyped'
  BY <1>5, KeptKnown DEF on_acount_logout, SetOnline, accounts
<1>6. ASSUME NEW fd \in Fds, NEW p \in Input.acount_can_reg, on_acount_can_reg(fd, p)
      PROVE  KnownTyped'
  BY <1>6, KeptKnown DEF on_acount_can_reg, accounts
<1>7. ASSUME NEW fd \in Fds, NEW w \in Input.group_add, on_group_add(fd, w)
      PROVE  KnownTyped'
  BY <1>7, KeptKnown DEF on_group_add, JoinsGroup, Charged
<1>8. ASSUME NEW fd \in Fds, NEW w \in Input.group_modify, on_group_modify(fd, w)
      PROVE  KnownTyped'
  <2>1. UNCHANGED global_user_guid /\ (users' = users \/ users' = Noted(w))
    BY <1>8 DEF on_group_modify, Crash, accounts
  <2>2. DOMAIN Noted(w) = DOMAIN users
    BY DEF Noted, JoinsGroup, LeavesGroup
  <2> QED
    BY <2>1, <2>2, KeptKnown
<1>9. ASSUME NEW fd \in Fds, NEW w \in Input.group_delete, on_group_delete(fd, w)
      PROVE  KnownTyped'
  BY <1>9, KeptKnown DEF on_group_delete, Crash, accounts, LeavesGroup, Charged
<1>10. ASSUME NEW fd \in Fds, NEW s \in Input.msg_send, on_msg_send(fd, s.guid, s.msg)
       PROVE  KnownTyped'
  BY <1>10, KeptKnown DEF on_msg_send, accounts
<1>11. ASSUME NEW sends, Answers(sends)
       PROVE  KnownTyped'
  BY <1>11, KeptKnown DEF Answers, accounts
<1> QED
  BY <1>1, <1>2, <1>3, <1>4, <1>5, <1>6, <1>7, <1>8, <1>9, <1>10, <1>11
     DEF Request, on_user_info_req, on_user_brief_info_req, on_group_info_req,
         on_msg_list_req, parse_error

(* Guids stay in range. *)
LEMMA KnownStep ==
    ASSUME KnownTyped, [Next]_vars
    PROVE  KnownTyped'
<1>1. CASE \E fd \in Fds : Serving /\ Connect(fd)
  BY <1>1, KeptKnown DEF Connect, accounts
<1>2. CASE \E fd \in Fds : Ready(fd) /\ func_close(fd)
  BY <1>2, KeptKnown DEF func_close, SetOnline
<1>3. CASE Request
  BY <1>3, RequestKnown
<1>4. CASE BeginDrain
  BY <1>4, KeptKnown DEF BeginDrain, accounts
<1>5. CASE Deliver
  BY <1>5, KeptKnown
     DEF Deliver, deliver_to_group, group_delivery_faults, deliver_to_user,
         deliver_to_all, deliver_other, Crash, accounts
<1>6. CASE UNCHANGED vars
  BY <1>6, KeptKnown DEF vars, accounts
<1> QED
  BY <1>1, <1>2, <1>3, <1>4, <1>5, <1>6 DEF Next

-----------------------------------------------------------------------------
(* The queue. *)

(* What is popped leaves a queue of messages behind. *)
LEMMA PoppedTyped ==
    ASSUME QueueTyped, NEW n \in {1, 2}, Popped(n)
    PROVE  QueueTyped'
<1>1. Len(msg_list) \in Nat
  BY DEF QueueTyped
<1>2. /\ msg_list' = SubSeq(msg_list, n + 1, Len(msg_list))
      /\ draining' = (n < Len(msg_list))
  BY DEF Popped
<1>3. \A i \in n + 1 .. Len(msg_list) : msg_list[i] \in Msgs
  BY <1>1, ElementOfSeq DEF QueueTyped
<1>4. /\ msg_list' \in Seq(Msgs)
      /\ Len(msg_list') = IF n + 1 <= Len(msg_list) THEN Len(msg_list) - (n + 1) + 1 ELSE 0
  <2>1. n + 1 \in Int /\ Len(msg_list) \in Int
    BY <1>1
  <2> QED
    BY <1>2, <1>3, <2>1, SubSeqProperties
<1>5. draining' => msg_list' # << >>
  <2>0. draining' => n < Len(msg_list)
    BY <1>2, Zenon
  <2>1. draining' => Len(msg_list') > 0
    BY <1>1, <1>4, <2>0
  <2>2. Len(<< >>) = 0
    OBVIOUS
  <2> QED
    BY <2>1, <2>2
<1> QED
  BY <1>4, <1>5 DEF QueueTyped

(* The queue holds messages that were sent, and some while it is sent out. *)
LEMMA QueueStep ==
    ASSUME QueueTyped, [Next]_vars
    PROVE  QueueTyped'
<1>1. CASE UNCHANGED <<msg_list, draining>>
  BY <1>1 DEF QueueTyped
<1>2. ASSUME NEW s \in Input.msg_send, Serving,
             msg_list' = Append(msg_list, s.msg), UNCHANGED draining
      PROVE  QueueTyped'
  BY <1>2 DEF QueueTyped, Msgs, Serving
<1>3. CASE BeginDrain
  BY <1>3 DEF BeginDrain, QueueTyped
<1>4. CASE Deliver
  <2>1. \/ UNCHANGED <<msg_list, draining>>
        \/ \E n \in {1, 2} : Popped(n)
    BY <1>4 DEF Deliver, deliver_to_group, group_delivery_faults, deliver_to_user,
                deliver_to_all, deliver_other, Crash
  <2> QED
    BY <1>1, <2>1, PoppedTyped
<1>5. CASE Request
  <2>1. ASSUME NEW fd \in Fds, NEW s \in Input.msg_send, Ready(fd),
               on_msg_send(fd, s.guid, s.msg)
        PROVE  QueueTyped'
    BY <1>1, <1>2, <2>1 DEF on_msg_send, Ready, server
  <2>2. ASSUME NEW sends, Answers(sends)
        PROVE  QueueTyped'
    BY <1>1, <2>2 DEF Answers, server
  <2>3. ASSUME NEW fd \in Fds, NEW w,
               on_acount_add(fd, w) \/ on_acount_modify(fd, w) \/ on_acount_delete(fd, w)
        PROVE  QueueTyped'
    BY <1>1, <2>3 DEF on_acount_add, on_acount_modify, on_acount_delete, Crash, server
  <2>4. ASSUME NEW fd \in Fds, NEW w,
               on_acount_login(fd, w) \/ on_acount_logout(fd, w) \/ on_acount_can_reg(fd, w)
        PROVE  QueueTyped'
    BY <1>1, <2>4 DEF on_acount_login, on_acount_logout, on_acount_can_reg, server
  <2>5. ASSUME NEW fd \in Fds, NEW w,
               on_group_add(fd, w) \/ on_group_modify(fd, w) \/ on_group_delete(fd, w)
        PROVE  QueueTyped'
    BY <1>1, <2>5 DEF on_group_add, on_group_modify, on_group_delete, Crash, server
  <2> QED
    BY <1>5, <2>1, <2>2, <2>3, <2>4, <2>5
       DEF Request, on_user_info_req, on_user_brief_info_req, on_group_info_req,
           on_msg_list_req, parse_error
<1>6. CASE \E fd \in Fds : Serving /\ Connect(fd)
  BY <1>1, <1>6 DEF Connect, server
<1>7. CASE \E fd \in Fds : Ready(fd) /\ func_close(fd)
  BY <1>1, <1>7 DEF func_close, server
<1>8. CASE UNCHANGED vars
  BY <1>1, <1>8 DEF vars, server
<1> QED
  BY <1>3, <1>4, <1>5, <1>6, <1>7, <1>8 DEF Next

-----------------------------------------------------------------------------
(* The methods, as the handlers of the server combine them. *)

(* Whoever is in a group has a guid in range. *)
LEMMA InGroupGuid ==
    ASSUME NEW g, WellFormed(g), NEW u, InGroup(g, u)
    PROVE  u \in Guid
BY DEF WellFormed, IsGroup, IsMap, InGroup, Managers, Normals

LEMMA InPublicRoomWellFormed ==
    ASSUME NEW g, WellFormed(g), NEW u \in Guid, NEW size,
           NEW r \in InPublicRoom(g, u, size)
    PROVE  WellFormed(r)
<1> DEFINE h == IF size = 1 THEN SetLeader(g, u) ELSE g
<1>1. WellFormed(h)
  BY SetLeaderWellFormed
<1>2. r = h \/ \E n \in Places(h) : r = AddMember(h, 0, u, n)
  BY DEF InPublicRoom
<1> HIDE DEF h
<1> QED
  BY <1>1, <1>2, AddMemberWellFormed

LEMMA DemotedWellFormed ==
    ASSUME NEW g, WellFormed(g), NEW u, Readable(g, DemotedBy(g, u))
    PROVE  /\ WellFormed(Demoted(g, u))
           /\ Nodes(Demoted(g, u)) = Nodes(g)
<1>1. CASE Demotes(g, u)
  <2>1. u \in Guid
    BY <1>1, InGroupGuid DEF Demotes, CanDeleteManager, InGroup
  <2>2. Readable(g, {g.managers_map[u]}) /\ CanDeleteManager(g, g.learder_guid, u)
    BY <1>1 DEF DemotedBy, Demotes
  <2>3. WellFormed(DeleteManager(g, g.learder_guid, u))
    BY <2>1, <2>2, DeleteManagerWellFormed
  <2>4. Nodes(DeleteManager(g, g.learder_guid, u)) = Nodes(g)
    BY DEF DeleteManager, SetJob, Nodes, WellFormed, IsGroup, IsMap
  <2> QED
    BY <1>1, <2>3, <2>4 DEF Demoted
<1>2. CASE ~Demotes(g, u)
  BY <1>2 DEF Demoted
<1> QED
  BY <1>1, <1>2

LEMMA RemovedWellFormed ==
    ASSUME NEW g, WellFormed(g), NEW u, RemovedBy(g, u) \subseteq Nodes(g)
    PROVE  WellFormed(Removed(g, u))
BY DeleteMemberWellFormed DEF Removed, RemovedBy

(* The groups an account has joined, after it has left them. *)
LEMMA AfterLeavingWellFormed ==
    ASSUME RoomsWellFormed, NEW u,
           \A k \in Joined(u) \cap DOMAIN groups : LeavesJoined(groups[k], u)
    PROVE  /\ DOMAIN AfterLeaving(u) = DOMAIN groups
           /\ \A g \in DOMAIN groups : WellFormed(AfterLeaving(u)[g])
<1>1. \A g \in Joined(u) \cap DOMAIN groups : WellFormed(LeftJoined(groups[g], u))
  BY DemotedWellFormed, RemovedWellFormed DEF RoomsWellFormed, LeavesJoined, LeftJoined
<1> QED
  BY <1>1 DEF AfterLeaving, RoomsWellFormed

LEMMA ExpelledWellFormed ==
    ASSUME NEW g, WellFormed(g), NEW u, LeavesPublicRoom(g, u)
    PROVE  WellFormed(Expelled(g, u))
BY DemotedWellFormed, RemovedWellFormed DEF Expelled, LeavesPublicRoom

(* What a group request leaves behind, whichever of the five it is. *)
LEMMA ModifiedWellFormed ==
    ASSUME RoomsWellFormed, KnownTyped, NEW w \in Input.group_modify,
           GroupModifyError(w) = "OK", Granted(w), GoesOn(w),
           NEW h \in Modified(w)
    PROVE  WellFormed(h)
<1> DEFINE g == groups[w.group_guid]
           op == w.operate_guid
           u == w.target_guid
<1>1. WellFormed(g)
  BY DEF GroupModifyError, RoomsWellFormed
<1>2. u \in Guid
  BY DEF GroupModifyError, Granted, KnownTyped
<1>3. w.permission \in Permission
  BY InputAssumption
<1>4. \/ w.type = 0
      \/ w.type = 1 /\ CanDeleteMember(g, op, u) /\ Deletable(g, u) \in Nodes(g)
      \/ w.type = 2 /\ Readable(g, {Deletable(g, u)})
      \/ w.type = 3 /\ CanAddManager(g, op, u) /\ Readable(g, {g.members_map[u]})
      \/ w.type = 4 /\ CanDeleteManager(g, op, u) /\ Readable(g, {g.managers_map[u]})
  <2>1. /\ CanAddManager(g, op, u) => Deletable(g, u) = g.members_map[u]
        /\ CanDeleteManager(g, op, u) => Deletable(g, u) = g.managers_map[u]
    BY DEF CanAddManager, CanDeleteManager, Deletable
  <2> QED
    BY <2>1 DEF Granted, GoesOn, TargetUsed
<1>5. /\ w.type = 0 => \E n \in Places(g) : h = AddMember(g, op, u, n)
      /\ w.type = 1 => h = DeleteMember(g, op, u)
      /\ w.type = 2 => h = ChangePermissions(g, op, u, w.permission)
      /\ w.type = 3 => h = AddManager(g, op, u)
      /\ w.type = 4 => h = DeleteManager(g, op, u)
  BY DEF Modified
<1> HIDE DEF g, op, u
<1> QED
  BY <1>1, <1>2, <1>3, <1>4, <1>5, AddMemberWellFormed, DeleteMemberWellFormed,
     ChangePermissionsWellFormed, AddManagerWellFormed, DeleteManagerWellFormed

(* The walk comes to a member a number of times. *)
LEMMA PassesNat ==
    ASSUME NEW g, WellFormed(g), NEW n
    PROVE  Passes(g, n) \in Nat
<1>1. IsFiniteSet(Guid)
  BY FS_Interval, BoundsAssumption DEF Guid
<1>2. ASSUME NEW map, DOMAIN map \subseteq Guid
      PROVE  Cardinality({u \in Reached(g, map, Known) : Holds(g, map[u]) = n}) \in Nat
  <2>1. {u \in Reached(g, map, Known) : Holds(g, map[u]) = n} \subseteq Guid
    BY <1>2 DEF Reached, Touched
  <2> QED
    BY <1>1, <2>1, FS_Subset, FS_CardinalityType
<1>3. DOMAIN g.managers_map \subseteq Guid /\ DOMAIN g.members_map \subseteq Guid
  BY DEF WellFormed, IsGroup, IsMap
<1>4. /\ Cardinality({u \in Reached(g, g.managers_map, Known) :
                         Holds(g, g.managers_map[u]) = n}) \in Nat
      /\ Cardinality({u \in Reached(g, g.members_map, Known) :
                         Holds(g, g.members_map[u]) = n}) \in Nat
  BY <1>2, <1>3
<1> QED
  BY <1>4 DEF Passes

(* Counting the message of a sender changes msg_count and nothing else. *)
LEMMA CountedForWellFormed ==
    ASSUME NEW g, WellFormed(g), NEW u
    PROVE  WellFormed(CountedFor(g, u))
<1> DEFINE counts(n) == g.members_list[n].user_guid = u /\ u \in DOMAIN user_conn_map
           list == [n \in Nodes(g) |->
                       IF counts(n) THEN Spoken(g.members_list[n], Passes(g, n))
                                    ELSE g.members_list[n]]
           h == CountedFor(g, u)
<1>1. h = [learder_guid |-> g.learder_guid, member_count |-> g.member_count,
           members_list |-> list, managers_map |-> g.managers_map,
           members_map |-> g.members_map, relic |-> g.relic,
           surplus |-> g.surplus, msg_list |-> g.msg_list,
           msg_limit |-> g.msg_limit]
  <2>1. h = [g EXCEPT !.members_list = list]
    BY DEF CountedFor, Nodes
  <2> HIDE DEF h, list
  <2> QED
    BY <2>1 DEF WellFormed, IsGroup
<1>2. \A n \in Nodes(g) : g.members_list[n] \in Member
  BY DEF WellFormed, IsGroup, IsMap, Nodes
<1>3. \A m \in Member, k \in Nat :
          Spoken(m, k) \in Member /\ Spoken(m, k).user_guid = m.user_guid
  <2> SUFFICES ASSUME NEW m \in Member, NEW k \in Nat
               PROVE  Spoken(m, k) \in Member /\ Spoken(m, k).user_guid = m.user_guid
    OBVIOUS
  <2>1. NumMod \in Nat /\ NumMod > 0 /\ m.msg_count + k \in Nat
    BY BoundsAssumption DEF Member
  <2>2. (m.msg_count + k) % NumMod \in 0 .. NumMod - 1
    BY <2>1
  <2> QED
    BY <2>2 DEF Spoken, Member
<1>10. \A n \in Nodes(g) : Passes(g, n) \in Nat
  BY PassesNat
<1> HIDE DEF h, counts
<1>4. \A n \in Nodes(g) : /\ list[n] \in Member
                          /\ list[n].user_guid = g.members_list[n].user_guid
  BY <1>2, <1>3, <1>10
<1>5. DOMAIN list = Nodes(g)
  OBVIOUS
<1>6. IsMap(list, Node, Member)
  BY <1>4 DEF IsMap, WellFormed, IsGroup, Nodes
<1> HIDE DEF list
<1>7. IsGroup(h)
  BY <1>1, <1>6 DEF WellFormed, IsGroup
<1>8. ASSUME RelicsIntact(h)
      PROVE  IndexSound(h) /\ IndexDisjoint(h)
  <2>1. IndexSound(g) /\ IndexDisjoint(g)
    BY <1>1, <1>8 DEF WellFormed, RelicsIntact
  <2>2. \A k : Holds(g, k) \in Nodes(g) => ShowsSame(h, g, k)
    BY <1>1, <1>4, <1>5 DEF Holds, ShowsSame, Nodes
  <2>3. /\ Managers(h) = Managers(g) /\ h.managers_map = g.managers_map
        /\ Normals(h) = Normals(g) /\ h.members_map = g.members_map
    BY <1>1 DEF Managers, Normals
  <2>4. /\ \A x \in Managers(h) : ShowsSame(h, g, g.managers_map[x])
        /\ \A x \in Normals(h) : ShowsSame(h, g, g.members_map[x])
    BY <2>1, <2>2, <2>3, IndexSoundFacts
  <2> QED
    BY <2>1, <2>3, <2>4, IndexInherited
<1>9. CountMatchesList(h) /\ WindowKept(h)
  BY <1>1, <1>5 DEF WellFormed, CountMatchesList, WindowKept, Nodes
<1> QED
  BY <1>7, <1>8, <1>9 DEF WellFormed, h

-----------------------------------------------------------------------------
(* The handlers. *)

(* A step that leaves the groups alone. *)
LEMMA KeptRooms ==
    ASSUME RoomsWellFormed, UNCHANGED groups
    PROVE  RoomsWellFormed'
BY DEF RoomsWellFormed

(* A well-formed group is filed, or takes the place of another. *)
LEMMA PutRoom ==
    ASSUME RoomsWellFormed, NEW id, NEW g, WellFormed(g), groups' = Put(groups, id, g)
    PROVE  RoomsWellFormed'
<1>1. \A r \in DOMAIN groups' : groups'[r] = IF r = id THEN g ELSE groups[r]
  BY DEF Put
<1>2. DOMAIN groups' \subseteq DOMAIN groups \cup {id}
  BY DEF Put
<1> QED
  BY <1>1, <1>2 DEF RoomsWellFormed

LEMMA AcountAddRooms ==
    ASSUME RoomsWellFormed, KnownTyped, NEW fd, NEW w \in Input.acount_add,
           on_acount_add(fd, w)
    PROVE  RoomsWellFormed'
<1>1. CASE UNCHANGED groups
  BY <1>1, KeptRooms
<1>2. CASE /\ 1 \in DOMAIN groups /\ GivenGuid(w) <= MaxGuid
           /\ \E g \in InPublicRoom(groups[1], GivenGuid(w),
                                     Cardinality(Known \cup {GivenGuid(w)})) :
                 groups' = Put(groups, 1, g)
  <2>1. GivenGuid(w) \in Guid
    BY <1>2, InputAssumption, BoundsAssumption DEF GivenGuid, KnownTyped, Guid
  <2>2. WellFormed(groups[1])
    BY <1>2 DEF RoomsWellFormed
  <2> QED
    BY <1>2, <2>1, <2>2, InPublicRoomWellFormed, PutRoom
<1> QED
  BY <1>1, <1>2 DEF on_acount_add, Crash

LEMMA AcountDeleteRooms ==
    ASSUME RoomsWellFormed, NEW fd, NEW u, on_acount_delete(fd, u)
    PROVE  RoomsWellFormed'
<1>1. CASE UNCHANGED groups
  BY <1>1, KeptRooms
<1>2. CASE /\ 1 \in DOMAIN groups
           /\ \A k \in Joined(u) \cap DOMAIN groups : LeavesJoined(groups[k], u)
           /\ LeavesPublicRoom(AfterLeaving(u)[1], u)
           /\ groups' = [AfterLeaving(u) EXCEPT ![1] = Expelled(AfterLeaving(u)[1], u)]
  <2>1. /\ DOMAIN AfterLeaving(u) = DOMAIN groups
        /\ \A g \in DOMAIN groups : WellFormed(AfterLeaving(u)[g])
    BY <1>2, AfterLeavingWellFormed
  <2>2. WellFormed(Expelled(AfterLeaving(u)[1], u))
    BY <1>2, <2>1, ExpelledWellFormed
  <2>3. \A g \in DOMAIN groups' :
            groups'[g] = IF g = 1 THEN Expelled(AfterLeaving(u)[1], u)
                                  ELSE AfterLeaving(u)[g]
    BY <1>2
  <2> QED
    BY <1>2, <2>1, <2>2, <2>3 DEF RoomsWellFormed
<1> QED
  BY <1>1, <1>2 DEF on_acount_delete, Crash

LEMMA GroupAddRooms ==
    ASSUME RoomsWellFormed, KnownTyped, NEW fd, NEW w \in Input.group_add,
           on_group_add(fd, w)
    PROVE  RoomsWellFormed'
<1>1. CASE UNCHANGED groups
  BY <1>1, KeptRooms
<1>2. CASE /\ GroupAddError(w) = "OK"
           /\ groups' = Put(groups, GivenGroup(w),
                            CopyOf(Normalised(FromData(w.learder_guid, w.roster, w.member_count),
                                              Known)))
  <2>1. w.learder_guid \in Guid
    BY <1>2 DEF GroupAddError, KnownTyped
  <2>2. /\ w.roster \in Seq(Member) /\ Len(w.roster) <= MaxNodes
        /\ w.member_count \in Nat
    BY InputAssumption, BoundsAssumption
  <2>3. WellFormed(CopyOf(Normalised(FromData(w.learder_guid, w.roster, w.member_count),
                                     Known)))
    BY <2>1, <2>2, CreatedWellFormed
  <2> QED
    BY <1>2, <2>3, PutRoom
<1> QED
  BY <1>1, <1>2 DEF on_group_add

LEMMA GroupModifyRooms ==
    ASSUME RoomsWellFormed, KnownTyped, NEW fd, NEW w \in Input.group_modify,
           on_group_modify(fd, w)
    PROVE  RoomsWellFormed'
<1>1. CASE UNCHANGED groups
  BY <1>1, KeptRooms
<1>2. CASE /\ GroupModifyError(w) = "OK" /\ Granted(w) /\ GoesOn(w)
           /\ \E h \in Modified(w) : groups' = [groups EXCEPT ![w.group_guid] = h]
  <2>1. \A h \in Modified(w) : WellFormed(h)
    BY <1>2, ModifiedWellFormed
  <2> QED
    BY <1>2, <2>1 DEF RoomsWellFormed
<1> QED
  BY <1>1, <1>2 DEF on_group_modify, Crash

LEMMA GroupDeleteRooms ==
    ASSUME RoomsWellFormed, NEW fd, NEW w, on_group_delete(fd, w)
    PROVE  RoomsWellFormed'
<1>1. UNCHANGED groups \/ groups' = Erase(groups, w.group_guid)
  BY DEF on_group_delete, Crash
<1>2. CASE groups' = Erase(groups, w.group_guid)
  <2>1. /\ DOMAIN Erase(groups, w.group_guid) = DOMAIN groups \ {w.group_guid}
        /\ \A g \in DOMAIN groups \ {w.group_guid} :
               Erase(groups, w.group_guid)[g] = groups[g]
    BY EraseFacts
  <2>2. \A g \in DOMAIN groups' : g \in DOMAIN groups /\ groups'[g] = groups[g]
    BY <1>2, <2>1
  <2> QED
    BY <2>2 DEF RoomsWellFormed
<1> QED
  BY <1>1, <1>2, KeptRooms

LEMMA RequestRooms ==
    ASSUME RoomsWellFormed, KnownTyped, Request
    PROVE  RoomsWellFormed'
<1>1. ASSUME NEW fd \in Fds, NEW w \in Input.acount_add, on_acount_add(fd, w)
      PROVE  RoomsWellFormed'
  BY <1>1, AcountAddRooms
<1>2. ASSUME NEW fd \in Fds, NEW u, on_acount_delete(fd, u)
      PROVE  RoomsWellFormed'
  BY <1>2, AcountDeleteRooms
<1>3. ASSUME NEW fd \in Fds, NEW w \in Input.group_add, on_group_add(fd, w)
      PROVE  RoomsWellFormed'
  BY <1>3, GroupAddRooms
<1>4. ASSUME NEW fd \in Fds, NEW w \in Input.group_modify, on_group_modify(fd, w)
      PROVE  RoomsWellFormed'
  BY <1>4, GroupModifyRooms
<1>5. ASSUME NEW fd \in Fds, NEW w, on_group_delete(fd, w)
      PROVE  RoomsWellFormed'
  BY <1>5, GroupDeleteRooms
<1>6. ASSUME NEW fd, NEW w,
             \/ on_acount_modify(fd, w) \/ on_acount_login(fd, w)
             \/ on_acount_logout(fd, w) \/ on_acount_can_reg(fd, w)
      PROVE  RoomsWellFormed'
  BY <1>6, KeptRooms
     DEF on_acount_modify, on_acount_login, on_acount_logout, on_acount_can_reg, Crash
<1>7. ASSUME NEW fd, NEW s, on_msg_send(fd, s.guid, s.msg)
      PROVE  RoomsWellFormed'
  BY <1>7, KeptRooms DEF on_msg_send
<1>8. ASSUME NEW sends, Answers(sends)
      PROVE  RoomsWellFormed'
  BY <1>8, KeptRooms DEF Answers
<1> QED
  BY <1>1, <1>2, <1>3, <1>4, <1>5, <1>6, <1>7, <1>8
     DEF Request, on_user_info_req, on_user_brief_info_req, on_group_info_req,
         on_msg_list_req, parse_error

LEMMA DeliverRooms ==
    ASSUME RoomsWellFormed, QueueTyped, Deliver
    PROVE  RoomsWellFormed'
<1> DEFINE m == Head(msg_list)
<1>1. CASE UNCHANGED groups
  BY <1>1, KeptRooms
<1>2. CASE /\ m.recv_guid \in DOMAIN groups
           /\ groups' = [groups EXCEPT ![m.recv_guid] =
                             CountedFor(AddMsg(groups[m.recv_guid], m.msg_num), m.send_guid)]
  <2>1. m.msg_num \in 0 .. NumMod - 1
    <3>1. msg_list # << >>
      BY DEF QueueTyped, Deliver, Draining
    <3>2. m \in Msgs
      BY <3>1, HeadTailProperties DEF QueueTyped
    <3> QED
      BY <3>2, InputAssumption DEF Msgs
  <2>2. WellFormed(groups[m.recv_guid])
    BY <1>2 DEF RoomsWellFormed
  <2>3. WellFormed(CountedFor(AddMsg(groups[m.recv_guid], m.msg_num), m.send_guid))
    BY <2>1, <2>2, AddMsgWellFormed, CountedForWellFormed
  <2> QED
    BY <1>2, <2>3 DEF RoomsWellFormed
<1> QED
  BY <1>1, <1>2
     DEF Deliver, deliver_to_group, group_delivery_faults, deliver_to_user,
         deliver_to_all, deliver_other, Crash

LEMMA RoomsStep ==
    ASSUME RoomsWellFormed, KnownTyped, QueueTyped, [Next]_vars
    PROVE  RoomsWellFormed'
<1>1. CASE \E fd \in Fds : Serving /\ Connect(fd)
  BY <1>1, KeptRooms DEF Connect
<1>2. CASE \E fd \in Fds : Ready(fd) /\ func_close(fd)
  BY <1>2, KeptRooms DEF func_close
<1>3. CASE Request
  BY <1>3, RequestRooms
<1>4. CASE BeginDrain
  BY <1>4, KeptRooms DEF BeginDrain
<1>5. CASE Deliver
  BY <1>5, DeliverRooms
<1>6. CASE UNCHANGED vars
  BY <1>6, KeptRooms DEF vars
<1> QED
  BY <1>1, <1>2, <1>3, <1>4, <1>5, <1>6 DEF Next

-----------------------------------------------------------------------------
(* Whatever clients send and in whatever order, every group of the server   *)
(* has the members its list says and a history within its window; and its   *)
(* two maps show the members they are filed under and nobody twice, those   *)
(* of a group a client made as long as no relic of it is overwritten.  For  *)
(* any number of sockets, users and groups.  Only typed guids and a typed   *)
(* queue strengthen it: the guid a handler passes to a group is that of an  *)
(* account, and the number of a message that is delivered came in with it.  *)
THEOREM RoomsStayWellFormed == Spec => []RoomsWellFormed
<1> DEFINE IInv == RoomsWellFormed /\ KnownTyped /\ QueueTyped
<1>1. Init => IInv
  <2> SUFFICES ASSUME Init PROVE IInv
    OBVIOUS
  <2>1. RoomsWellFormed
    <3>1. 0 \in Guid
      BY BoundsAssumption DEF Guid
    <3> QED
      BY <3>1, NewGroupWellFormed DEF Init, RoomsWellFormed
  <2>2. KnownTyped /\ QueueTyped
    BY DEF Init, KnownTyped, QueueTyped, Known, EmptyMap
  <2> QED
    BY <2>1, <2>2
<1>2. IInv /\ [Next]_vars => IInv'
  BY KnownStep, QueueStep, RoomsStep
<1> QED
  BY <1>1, <1>2, PTL DEF Spec

=============================================================================
