--------------------------- MODULE GroupRoomProofs ---------------------------
(***************************************************************************)
(* The room of GroupRoom is well-formed for every set of users, every set   *)
(* of rosters and every bound.  WellFormed is the inductive invariant: none *)
(* of its parts is inductive alone.  That every entry shows the member it   *)
(* is filed under needs the two maps to be disjoint, for an erase through   *)
(* one would leave the other dangling; that needs every node to be filed    *)
(* under its guid.  Of a created room, whose entries lead into freed        *)
(* memory, this is only claimed until that memory is allocated again.       *)
(* Three action properties rest on it: what permissions do not become, who  *)
(* does not get lost, and which room never faults.                          *)
(***************************************************************************)
EXTENDS GroupRoom, GroupInfoProofs

IInv == WellFormed(room) /\ alive \in BOOLEAN

LEMMA InitIInv == Init => IInv
<1> SUFFICES ASSUME Init PROVE IInv
  OBVIOUS
<1>1. CASE room = NewGroup(0)
  <2>1. 0 \in Guid
    BY BoundsAssumption DEF Guid
  <2> QED
    BY <1>1, <2>1, NewGroupWellFormed DEF Init, IInv
<1>2. ASSUME NEW leader \in Users, NEW roster \in Rosters, NEW count \in Counts,
             room = Created(leader, roster, count)
      PROVE  IInv
  <2>1. leader \in Guid
    BY RoomAssumption
  <2>2. roster \in Seq(Member) /\ Len(roster) <= MaxLen
    BY RoomAssumption
  <2>3. Len(roster) <= MaxNodes
    BY <2>2, RoomAssumption, BoundsAssumption, LenProperties
  <2>4. count \in Nat
    BY RoomAssumption, BoundsAssumption
  <2>5. WellFormed(Created(leader, roster, count))
    BY <2>1, <2>2, <2>3, <2>4, CreatedWellFormed DEF Created
  <2> QED
    BY <1>2, <2>5 DEF Init, IInv
<1> QED
  BY <1>1, <1>2 DEF Init

LEMMA FaultsIInv ==
    ASSUME IInv, NEW handles, Faults(handles)
    PROVE  IInv'
BY DEF IInv, Faults

LEMMA BecomesIInv ==
    ASSUME IInv, NEW g, WellFormed(g), Becomes(g)
    PROVE  IInv'
BY DEF IInv, Becomes

LEMMA RegisterIInv ==
    ASSUME IInv, NEW u \in Users, NEW first \in BOOLEAN, Register(u, first)
    PROVE  IInv'
<1> DEFINE g == IF first THEN SetLeader(room, u) ELSE room
<1>1. u \in Guid
  BY RoomAssumption
<1>2. WellFormed(g)
  BY <1>1, SetLeaderWellFormed DEF IInv
<1>3. Becomes(g) \/ \E n \in Places(g) : Becomes(AddMember(g, 0, u, n))
  BY DEF Register
<1> HIDE DEF g
<1>4. \A n \in Places(g) : WellFormed(AddMember(g, 0, u, n))
  BY <1>1, <1>2, AddMemberWellFormed
<1> QED
  BY <1>2, <1>3, <1>4, BecomesIInv

LEMMA NextIInv ==
    ASSUME IInv, [Next]_vars
    PROVE  IInv'
<1>0. WellFormed(room)
  BY DEF IInv
<1>1. CASE UNCHANGED vars
  BY <1>1 DEF IInv, vars
<1>2. ASSUME NEW u \in Users, NEW first \in BOOLEAN, Register(u, first)
      PROVE  IInv'
  BY <1>2, RegisterIInv
<1>3. ASSUME NEW op \in Users, NEW u \in Users, on_add_member(op, u)
      PROVE  IInv'
  <2>1. u \in Guid
    BY RoomAssumption
  <2>2. \A n \in Places(room) : WellFormed(AddMember(room, op, u, n))
    BY <1>0, <2>1, AddMemberWellFormed
  <2> QED
    BY <1>3, <2>2, BecomesIInv DEF on_add_member
<1>4. ASSUME NEW op \in Users, NEW u \in Users, on_delete_member(op, u)
      PROVE  IInv'
  <2>1. CASE Deletable(room, u) \in Nodes(room) /\ Becomes(DeleteMember(room, op, u))
    <3>1. WellFormed(DeleteMember(room, op, u))
      BY <1>0, <1>4, <2>1, DeleteMemberWellFormed DEF on_delete_member
    <3> QED
      BY <2>1, <3>1, BecomesIInv
  <2> QED
    BY <1>4, <2>1, FaultsIInv DEF on_delete_member
<1>5. ASSUME NEW op \in Users, NEW u \in Users, on_add_manager(op, u)
      PROVE  IInv'
  <2>1. u \in Guid
    BY RoomAssumption
  <2>2. CASE Readable(room, {room.members_map[u]}) /\ Becomes(AddManager(room, op, u))
    <3>1. WellFormed(AddManager(room, op, u))
      BY <1>0, <1>5, <2>1, <2>2, AddManagerWellFormed DEF on_add_manager
    <3> QED
      BY <2>2, <3>1, BecomesIInv
  <2> QED
    BY <1>5, <2>2, FaultsIInv DEF on_add_manager
<1>6. ASSUME NEW op \in Users, NEW u \in Users, on_delete_manager(op, u)
      PROVE  IInv'
  <2>1. u \in Guid
    BY RoomAssumption
  <2>2. CASE Readable(room, {room.managers_map[u]}) /\ Becomes(DeleteManager(room, op, u))
    <3>1. WellFormed(DeleteManager(room, op, u))
      BY <1>0, <1>6, <2>1, <2>2, DeleteManagerWellFormed DEF on_delete_manager
    <3> QED
      BY <2>2, <3>1, BecomesIInv
  <2> QED
    BY <1>6, <2>2, FaultsIInv DEF on_delete_manager
<1>7. ASSUME NEW op \in Users, NEW u \in Users, NEW p \in Granted,
             on_change_permissions(op, u, p)
      PROVE  IInv'
  <2>1. p \in Permission
    BY RoomAssumption
  <2>2. CASE /\ Readable(room, {Deletable(room, u)})
             /\ Becomes(ChangePermissions(room, op, u, p))
    <3>1. WellFormed(ChangePermissions(room, op, u, p))
      BY <1>0, <2>1, <2>2, ChangePermissionsWellFormed
    <3> QED
      BY <2>2, <3>1, BecomesIInv
  <2> QED
    BY <1>7, <2>2, FaultsIInv DEF on_change_permissions
<1>8. ASSUME NEW num \in WireNums, on_add_msg(num)
      PROVE  IInv'
  <2>1. num \in 0 .. NumMod - 1
    BY RoomAssumption
  <2>2. WellFormed(AddMsg(room, num))
    BY <1>0, <2>1, AddMsgWellFormed
  <2> QED
    BY <1>8, <2>2, BecomesIInv DEF on_add_msg
<1>9. ASSUME NEW op \in Users, NEW num \in 0 .. NumMod - 1, on_delete_msg(op, num)
      PROVE  IInv'
  <2>1. WellFormed(DeleteMsg(room, num))
    BY <1>0, DeleteMsgWellFormed
  <2> QED
    BY <1>9, <2>1, BecomesIInv DEF on_delete_msg
<1>10. ASSUME NEW op \in Users, clear_msg(op)
       PROVE  IInv'
  <2>1. WellFormed(ClearMsg(room))
    BY <1>0, ClearMsgWellFormed
  <2> QED
    BY <1>10, <2>1, BecomesIInv DEF clear_msg
<1> QED
  BY <1>1, <1>2, <1>3, <1>4, <1>5, <1>6, <1>7, <1>8, <1>9, <1>10 DEF Next

(* The room is well-formed after any sequence of calls. *)
THEOREM RoomWellFormed == Spec => []IInv
<1>1. Init => IInv
  BY InitIInv
<1>2. IInv /\ [Next]_vars => IInv'
  BY NextIInv
<1> QED
  BY <1>1, <1>2, PTL DEF Spec

(* The fields of the room keep their types. *)
THEOREM RoomTypeOK == Spec => []TypeOK
<1>1. IInv => TypeOK
  BY DEF IInv, TypeOK, WellFormed
<1> QED
  BY <1>1, RoomWellFormed, PTL

(* member_count is the length of the list for ever, but for what a count     *)
(* that wraps added to it when the group was parsed: so to_data serialises   *)
(* every other group (group_info.cpp:83-87).                                *)
THEOREM RosterAlwaysSerialisable == Spec => []RosterSerialisable
<1>1. IInv => RosterSerialisable
  BY DEF IInv, RosterSerialisable, WellFormed
<1> QED
  BY <1>1, RoomWellFormed, PTL

(* No entry of managers_map or members_map ever leads to a node that         *)
(* on_delete_member erased or shows another user (group_info.cpp:152-228):   *)
(* so of the server's own room for ever, and of a created one until the      *)
(* memory its entries lead to is allocated again.                           *)
THEOREM HandlesAlwaysSound == Spec => []HandlesSound
<1>1. IInv => HandlesSound
  BY DEF IInv, HandlesSound, WellFormed
<1> QED
  BY <1>1, RoomWellFormed, PTL

(* No member is filed in both maps, though a user may be: so erasing one     *)
(* through one map cannot free what the other leads to.                     *)
THEOREM HandlesAlwaysDisjoint == Spec => []HandlesDisjoint
<1>1. IInv => HandlesDisjoint
  BY DEF IInv, HandlesDisjoint, WellFormed
<1> QED
  BY <1>1, RoomWellFormed, PTL

(* msg_limit, which is all that the trimming looks at, counts the history    *)
(* after every call: so it never exceeds group_msgs_max_len                 *)
(* (group_info.cpp:318-343).                                                *)
THEOREM HistoryAlwaysBounded == Spec => []HistoryWindow
<1>1. IInv => HistoryWindow
  BY DEF IInv, HistoryWindow, WellFormed
<1> QED
  BY <1>1, RoomWellFormed, PTL

-----------------------------------------------------------------------------
(* A step of the server's own room does not fault: its entries lead to nodes *)
(* of its list.                                                             *)
LEMMA OwnRoomFaultsNever ==
    ASSUME IInv, DOMAIN room.relic = {}, [Next]_vars, alive
    PROVE  alive'
<1>1. IndexSound(room) /\ 0 \notin Nodes(room)
  BY NodesFinite, BoundsAssumption DEF IInv, WellFormed, RelicsIntact, Node
<1>2. /\ \A u \in Managers(room) : room.managers_map[u] \in Nodes(room)
      /\ \A u \in Normals(room) : room.members_map[u] \in Nodes(room)
  BY <1>1, IndexSoundFacts DEF Holds
<1>3. /\ \A u : InGroup(room, u) => ~Faults({Deletable(room, u)})
      /\ \A u \in Managers(room) : ~Faults({room.managers_map[u]})
      /\ \A u \in Normals(room) : ~Faults({room.members_map[u]})
  BY <1>2 DEF Faults, Dangling, Deletable, InGroup
<1>4. CASE UNCHANGED vars
  BY <1>4 DEF vars
<1>5. ASSUME NEW u, NEW first, Register(u, first)
      PROVE  alive'
  BY <1>5 DEF Register, Becomes
<1>6. ASSUME NEW op, NEW u, on_add_member(op, u)
      PROVE  alive'
  BY <1>6 DEF on_add_member, Becomes
<1>7. ASSUME NEW op, NEW u, on_delete_member(op, u)
      PROVE  alive'
  <2>1. InGroup(room, u)
    BY <1>7 DEF on_delete_member, CanDeleteMember, InGroup
  <2> QED
    BY <1>3, <1>7, <2>1 DEF on_delete_member, Becomes
<1>8. ASSUME NEW op, NEW u, on_add_manager(op, u) \/ on_delete_manager(op, u)
      PROVE  alive'
  BY <1>3, <1>8 DEF on_add_manager, on_delete_manager, CanAddManager, CanDeleteManager, Becomes
<1>9. ASSUME NEW op, NEW u, NEW p, on_change_permissions(op, u, p)
      PROVE  alive'
  <2>1. CanChangePermissions(room, op, u, p) => InGroup(room, u)
    BY DEF CanChangePermissions, InGroup
  <2> QED
    BY <1>3, <1>9, <2>1 DEF on_change_permissions, Becomes
<1>10. ASSUME NEW op, NEW num, on_add_msg(num) \/ on_delete_msg(op, num) \/ clear_msg(op)
       PROVE  alive'
  BY <1>10 DEF on_add_msg, on_delete_msg, clear_msg, Becomes
<1> QED
  BY <1>4, <1>5, <1>6, <1>7, <1>8, <1>9, <1>10 DEF Next

(* The room that the server itself made, whose entries were never copied,    *)
(* never dereferences or erases an iterator to a node that is gone, after    *)
(* any sequence of calls (group_info.cpp:119-269).                          *)
THEOREM OwnRoomNeverFaults == Spec => OnlyCopiesFault
<1>1. IInv /\ [Next]_vars
        => [alive /\ ~alive' => DOMAIN room.relic # {}]_vars
  BY OwnRoomFaultsNever
<1> QED
  BY <1>1, RoomWellFormed, PTL DEF Spec, OnlyCopiesFault

-----------------------------------------------------------------------------
(* Permissions.  A small number allows more.  The one call that writes a    *)
(* permission compares it with that of a manager, whose entry is a node of  *)
(* the list because the room is well-formed; the other calls move nodes.    *)

PermissionOf(g, n) == g.members_list[n].permissions

(* No member of h holds more than some member of g, or than a newcomer. *)
NotAbove(h, g) ==
    \A n \in Nodes(h) :
        \E floor \in {SEND_TO_GROUP} \cup {PermissionOf(g, k) : k \in Nodes(g)} :
            floor <= PermissionOf(h, n)

(* Every permission of h is one of g, or that of a newcomer. *)
Inherits(h, g) ==
    \A n \in Nodes(h) : \/ PermissionOf(h, n) = SEND_TO_GROUP
                        \/ \E k \in Nodes(g) : PermissionOf(h, n) = PermissionOf(g, k)

(* The permissions of a group are numbers. *)
LEMMA PermissionsAreNumbers ==
    ASSUME NEW g, IsGroup(g), NEW n \in Nodes(g)
    PROVE  PermissionOf(g, n) \in Int
<1>1. g.members_list[n] \in Member
  BY DEF IsGroup, IsMap, Nodes
<1> QED
  BY <1>1 DEF Member, Permission, PermissionOf

(* A permission taken over from the group is not above it. *)
LEMMA InheritedIsNotAbove ==
    ASSUME NEW g, IsGroup(g), NEW h, Inherits(h, g)
    PROVE  NotAbove(h, g)
<1> SUFFICES ASSUME NEW n \in Nodes(h)
             PROVE  \E floor \in {SEND_TO_GROUP} \cup {PermissionOf(g, k) : k \in Nodes(g)} :
                        floor <= PermissionOf(h, n)
  BY DEF NotAbove
<1>1. CASE PermissionOf(h, n) = SEND_TO_GROUP
  BY <1>1 DEF SEND_TO_GROUP
<1>2. CASE \E k \in Nodes(g) : PermissionOf(h, n) = PermissionOf(g, k)
  <2>1. PICK k \in Nodes(g) : PermissionOf(h, n) = PermissionOf(g, k)
    BY <1>2
  <2>2. PermissionOf(g, k) <= PermissionOf(h, n)
    BY <2>1, PermissionsAreNumbers
  <2> QED
    BY <2>2
<1> QED
  BY <1>1, <1>2 DEF Inherits

(* A call that leaves the list as it is leaves the permissions. *)
LEMMA SameListInherits ==
    ASSUME NEW g, NEW h, h.members_list = g.members_list
    PROVE  Inherits(h, g)
BY DEF Inherits, PermissionOf, Nodes

(* on_add_member files a newcomer. *)
LEMMA AddMemberInherits ==
    ASSUME NEW g, IsGroup(g), NEW op, NEW u, NEW n
    PROVE  Inherits(AddMember(g, op, u, n), g)
<1> DEFINE h == AddMember(g, op, u, n)
           m == JoiningMember(u, IF op = 0 /\ u = g.learder_guid THEN "leader" ELSE "member")
<1>1. h.members_list = Put(g.members_list, n, m)
  BY AddMemberFields
<1>2. m.permissions = SEND_TO_GROUP
  BY DEF JoiningMember
<1> HIDE DEF h, m
<1>3. /\ DOMAIN Put(g.members_list, n, m) = DOMAIN g.members_list \cup {n}
      /\ Put(g.members_list, n, m)[n] = m
      /\ \A x \in DOMAIN g.members_list :
             x # n => Put(g.members_list, n, m)[x] = g.members_list[x]
  BY DEF Put
<1>4. Nodes(h) = Nodes(g) \cup {n}
  BY <1>1, <1>3 DEF Nodes
<1>5. PermissionOf(h, n) = SEND_TO_GROUP
  BY <1>1, <1>2, <1>3 DEF PermissionOf
<1>6. \A k \in Nodes(g) : k # n => PermissionOf(h, k) = PermissionOf(g, k)
  BY <1>1, <1>3 DEF PermissionOf, Nodes
<1>7. Inherits(h, g)
  BY <1>4, <1>5, <1>6 DEF Inherits
<1> QED
  BY <1>7 DEF h

(* on_delete_member only takes a node away. *)
LEMMA DeleteMemberInherits ==
    ASSUME NEW g, IsGroup(g), NEW op, NEW u
    PROVE  Inherits(DeleteMember(g, op, u), g)
<1> DEFINE h == DeleteMember(g, op, u)
           n == Deletable(g, u)
<1>1. h.members_list = Erase(g.members_list, n)
  BY DeleteMemberFields
<1> HIDE DEF h, n
<1>2. /\ DOMAIN Erase(g.members_list, n) = DOMAIN g.members_list \ {n}
      /\ \A x \in DOMAIN g.members_list \ {n} :
             Erase(g.members_list, n)[x] = g.members_list[x]
  BY EraseFacts
<1>3. Nodes(h) \subseteq Nodes(g)
  BY <1>1, <1>2 DEF Nodes
<1>4. \A k \in Nodes(h) : PermissionOf(h, k) = PermissionOf(g, k)
  BY <1>1, <1>2 DEF PermissionOf, Nodes
<1>5. Inherits(h, g)
  BY <1>3, <1>4 DEF Inherits
<1> QED
  BY <1>5 DEF h

(* A promotion or a demotion writes the job and nothing else of the member. *)
LEMMA SetJobInherits ==
    ASSUME NEW g, IsGroup(g), NEW k, Holds(g, k) \in Nodes(g), NEW j, NEW h,
           h.members_list = SetJob(g, k, j).members_list
    PROVE  Inherits(h, g)
<1> DEFINE n == Holds(g, k)
           m == [g.members_list[n] EXCEPT !.job = j]
<1>1. n \in Nodes(g) /\ g.members_list[n] \in Member
  BY DEF IsGroup, IsMap, Nodes
<1>2. m.permissions = g.members_list[n].permissions
  BY <1>1 DEF Member
<1>3. h.members_list = [g.members_list EXCEPT ![n] = m]
  BY DEF SetJob, IsGroup
<1> HIDE DEF n, m
<1>4. Nodes(h) = Nodes(g)
  BY <1>3 DEF Nodes, IsGroup, IsMap
<1>5. \A i \in Nodes(g) : PermissionOf(h, i) = PermissionOf(g, i)
  BY <1>2, <1>3 DEF PermissionOf, Nodes, IsGroup, IsMap
<1> QED
  BY <1>4, <1>5 DEF Inherits

(* on_change_permissions hands out what the operator holds, or less. *)
LEMMA ChangePermissionsNotAbove ==
    ASSUME NEW g, WellFormed(g), NEW op, NEW u, NEW p \in Permission,
           CanChangePermissions(g, op, u, p), Readable(g, {Deletable(g, u)})
    PROVE  NotAbove(ChangePermissions(g, op, u, p), g)
<1> DEFINE h == ChangePermissions(g, op, u, p)
           n == Holds(g, Deletable(g, u))
           m == [g.members_list[n] EXCEPT !.permissions = p]
           own == Holds(g, g.managers_map[op])
<1>0. IsGroup(g)
  BY DEF WellFormed
<1>1. n \in Nodes(g)
  BY DEF Readable
<1>2. own \in Nodes(g) /\ PermissionOf(g, own) <= p
  BY DEF CanChangePermissions, MayGrant, Readable, PermissionOf
<1>3. g.members_list[n] \in Member
  BY <1>0, <1>1 DEF IsGroup, IsMap, Nodes
<1>4. m.permissions = p
  BY <1>3 DEF Member
<1>5. h.members_list = [g.members_list EXCEPT ![n] = m]
  BY <1>0 DEF ChangePermissions, IsGroup
<1> HIDE DEF h, n, m, own
<1>6. Nodes(h) = Nodes(g)
  BY <1>0, <1>5 DEF Nodes, IsGroup, IsMap
<1>7. PermissionOf(h, n) = p
  BY <1>0, <1>1, <1>4, <1>5 DEF PermissionOf, Nodes, IsGroup, IsMap
<1>8. \A k \in Nodes(g) : k # n => PermissionOf(h, k) = PermissionOf(g, k)
  BY <1>0, <1>5 DEF PermissionOf, Nodes, IsGroup, IsMap
<1>9. ASSUME NEW k \in Nodes(h)
      PROVE  \E floor \in {SEND_TO_GROUP} \cup {PermissionOf(g, i) : i \in Nodes(g)} :
                 floor <= PermissionOf(h, k)
  <2>1. CASE k = n
    BY <1>2, <1>7, <2>1
  <2>2. CASE k # n
    <3>1. PermissionOf(g, k) <= PermissionOf(h, k)
      BY <1>0, <1>6, <1>8, <2>2, PermissionsAreNumbers
    <3> QED
      BY <1>6, <3>1
  <2> QED
    BY <2>1, <2>2
<1>10. NotAbove(h, g)
  BY <1>9 DEF NotAbove
<1> QED
  BY <1>10 DEF h

-----------------------------------------------------------------------------
(* A step whose outcome inherits its permissions, or that faults. *)
LEMMA BecomesNotAbove ==
    ASSUME IInv, NEW g, Inherits(g, room), room' = g
    PROVE  NotAbove(room', room)
BY InheritedIsNotAbove DEF IInv, WellFormed

(* A fault, or a step that changes nothing, leaves the permissions. *)
LEMMA StutterNotAbove ==
    ASSUME IInv, UNCHANGED room
    PROVE  NotAbove(room', room)
BY SameListInherits, InheritedIsNotAbove DEF IInv, WellFormed

(* Registration adds a newcomer, and may name a leader first. *)
LEMMA RegisterNotAbove ==
    ASSUME IInv, NEW u \in Users, NEW first \in BOOLEAN, Register(u, first)
    PROVE  NotAbove(room', room)
<1> DEFINE g == IF first THEN SetLeader(room, u) ELSE room
<1>1. WellFormed(g)
  BY RoomAssumption, SetLeaderWellFormed DEF IInv
<1>2. g.members_list = room.members_list
  BY DEF SetLeader, IInv, WellFormed, IsGroup
<1>3. room' = g \/ \E n \in Places(g) : room' = AddMember(g, 0, u, n)
  BY DEF Register, Becomes
<1> HIDE DEF g
<1>4. Inherits(room', g)
  BY <1>1, <1>3, AddMemberInherits, SameListInherits DEF WellFormed
<1>5. Inherits(room', room)
  BY <1>2, <1>4 DEF Inherits, PermissionOf, Nodes
<1> QED
  BY <1>5, BecomesNotAbove

(* One step of the room. *)
LEMMA NextNotAbove ==
    ASSUME IInv, [Next]_vars
    PROVE  NotAbove(room', room)
<1>0. WellFormed(room) /\ IsGroup(room)
  BY DEF IInv, WellFormed
<1>1. CASE UNCHANGED vars
  BY <1>1, StutterNotAbove DEF vars
<1>2. ASSUME NEW u \in Users, NEW first \in BOOLEAN, Register(u, first)
      PROVE  NotAbove(room', room)
  BY <1>2, RegisterNotAbove
<1>3. ASSUME NEW op \in Users, NEW u \in Users, on_add_member(op, u)
      PROVE  NotAbove(room', room)
  BY <1>0, <1>3, AddMemberInherits, BecomesNotAbove DEF on_add_member, Becomes
<1>4. ASSUME NEW op \in Users, NEW u \in Users, on_delete_member(op, u)
      PROVE  NotAbove(room', room)
  <2>1. room' = DeleteMember(room, op, u) \/ UNCHANGED room
    BY <1>4 DEF on_delete_member, Becomes, Faults
  <2> QED
    BY <1>0, <2>1, DeleteMemberInherits, BecomesNotAbove, StutterNotAbove
<1>5. ASSUME NEW op \in Users, NEW u \in Users, on_add_manager(op, u)
      PROVE  NotAbove(room', room)
  <2>1. \/ UNCHANGED room
        \/ /\ room' = AddManager(room, op, u)
           /\ Holds(room, room.members_map[u]) \in Nodes(room)
    BY <1>5 DEF on_add_manager, Becomes, Faults, Readable
  <2>3. AddManager(room, op, u).members_list
          = SetJob(room, room.members_map[u], "manager").members_list
    BY <1>0 DEF AddManager, SetJob, IsGroup
  <2> QED
    BY <1>0, <2>1, <2>3, SetJobInherits, BecomesNotAbove, StutterNotAbove
<1>6. ASSUME NEW op \in Users, NEW u \in Users, on_delete_manager(op, u)
      PROVE  NotAbove(room', room)
  <2>1. \/ UNCHANGED room
        \/ /\ room' = DeleteManager(room, op, u)
           /\ Holds(room, room.managers_map[u]) \in Nodes(room)
    BY <1>6 DEF on_delete_manager, Becomes, Faults, Readable
  <2>3. DeleteManager(room, op, u).members_list
          = SetJob(room, room.managers_map[u], "member").members_list
    BY <1>0 DEF DeleteManager, SetJob, IsGroup
  <2> QED
    BY <1>0, <2>1, <2>3, SetJobInherits, BecomesNotAbove, StutterNotAbove
<1>7. ASSUME NEW op \in Users, NEW u \in Users, NEW p \in Granted,
             on_change_permissions(op, u, p)
      PROVE  NotAbove(room', room)
  <2>1. p \in Permission
    BY RoomAssumption
  <2>2. \/ UNCHANGED room
        \/ /\ room' = ChangePermissions(room, op, u, p)
           /\ CanChangePermissions(room, op, u, p)
           /\ Readable(room, {Deletable(room, u)})
    BY <1>7 DEF on_change_permissions, Becomes, Faults
  <2> QED
    BY <1>0, <2>1, <2>2, ChangePermissionsNotAbove, StutterNotAbove
<1>8. ASSUME NEW num \in WireNums, on_add_msg(num)
      PROVE  NotAbove(room', room)
  <2>1. room' = AddMsg(room, num) /\ AddMsg(room, num).members_list = room.members_list
    BY <1>0, <1>8 DEF on_add_msg, Becomes, AddMsg, IsGroup
  <2> QED
    BY <2>1, SameListInherits, BecomesNotAbove
<1>9. ASSUME NEW op \in Users, NEW num \in 0 .. NumMod - 1, on_delete_msg(op, num)
      PROVE  NotAbove(room', room)
  <2>1. room' = DeleteMsg(room, num) /\ DeleteMsg(room, num).members_list = room.members_list
    BY <1>0, <1>9 DEF on_delete_msg, Becomes, DeleteMsg, IsGroup
  <2> QED
    BY <2>1, SameListInherits, BecomesNotAbove
<1>10. ASSUME NEW op \in Users, clear_msg(op)
       PROVE  NotAbove(room', room)
  <2>1. room' = ClearMsg(room) /\ ClearMsg(room).members_list = room.members_list
    BY <1>0, <1>10 DEF clear_msg, Becomes, ClearMsg, IsGroup
  <2> QED
    BY <2>1, SameListInherits, BecomesNotAbove
<1> QED
  BY <1>1, <1>2, <1>3, <1>4, <1>5, <1>6, <1>7, <1>8, <1>9, <1>10 DEF Next

(* No sequence of calls, with any mix of promotions, demotions and grants,  *)
(* gives anybody more than the most powerful member had before, or than a   *)
(* newcomer gets (group_info.cpp:230-269).                                  *)
THEOREM PermissionsNeverEscalate == Spec => NoEscalation
<1>1. IInv /\ [Next]_vars
        => [\A n \in Nodes(room') :
                \E floor \in {SEND_TO_GROUP} \cup
                             {room.members_list[k].permissions : k \in Nodes(room)} :
                    floor <= room'.members_list[n].permissions]_vars
  BY NextNotAbove DEF NotAbove, PermissionOf
<1> QED
  BY <1>1, RoomWellFormed, PTL DEF Spec, NoEscalation

-----------------------------------------------------------------------------
(* Nobody is lost. *)

(* Every call but a deletion leaves everybody in the room. *)
Keeps(h, g) == \A v : InGroup(g, v) => InGroup(h, v)

LEMMA NextKeepsMembers ==
    ASSUME IInv, [Next]_vars
    PROVE  \/ Keeps(room', room)
           \/ \E op, u : CanDeleteMember(room, op, u) /\ room' = DeleteMember(room, op, u)
<1>0. IsGroup(room)
  BY DEF IInv, WellFormed
<1>1. CASE UNCHANGED room
  BY <1>1 DEF Keeps
<1>2. ASSUME NEW handles, Faults(handles)
      PROVE  UNCHANGED room
  BY <1>2 DEF Faults
<1>3. ASSUME NEW u \in Users, NEW first, Register(u, first)
      PROVE  Keeps(room', room)
  <2> DEFINE g == IF first THEN SetLeader(room, u) ELSE room
  <2>1. IsGroup(g)
    BY <1>0, RoomAssumption, SetLeaderWellFormed DEF IInv, WellFormed
  <2>2. \A v : InGroup(g, v) <=> InGroup(room, v)
    BY <1>0, SetLeaderMembers
  <2>3. room' = g \/ \E n : room' = AddMember(g, 0, u, n)
    BY <1>3 DEF Register, Becomes
  <2> HIDE DEF g
  <2> QED
    BY <2>1, <2>2, <2>3, AddMemberMembers DEF Keeps
<1>4. ASSUME NEW op, NEW u, on_add_member(op, u)
      PROVE  Keeps(room', room)
  <2>1. \E n : room' = AddMember(room, op, u, n)
    BY <1>4 DEF on_add_member, Becomes
  <2> QED
    BY <1>0, <2>1, AddMemberMembers DEF Keeps
<1>5. ASSUME NEW op, NEW u, on_delete_member(op, u)
      PROVE  \/ UNCHANGED room
             \/ CanDeleteMember(room, op, u) /\ room' = DeleteMember(room, op, u)
  BY <1>2, <1>5 DEF on_delete_member, Becomes
<1>6. ASSUME NEW op, NEW u, on_add_manager(op, u) \/ on_delete_manager(op, u)
      PROVE  Keeps(room', room)
  <2>1. \/ UNCHANGED room
        \/ CanAddManager(room, op, u) /\ room' = AddManager(room, op, u)
        \/ CanDeleteManager(room, op, u) /\ room' = DeleteManager(room, op, u)
    BY <1>2, <1>6 DEF on_add_manager, on_delete_manager, Becomes
  <2> QED
    BY <1>0, <1>1, <2>1, AddManagerMembers, DeleteManagerMembers DEF SameMembers, Keeps
<1>7. ASSUME NEW op, NEW u, NEW p, on_change_permissions(op, u, p)
      PROVE  Keeps(room', room)
  <2>1. UNCHANGED room \/ room' = ChangePermissions(room, op, u, p)
    BY <1>2, <1>7 DEF on_change_permissions, Becomes
  <2> QED
    BY <1>0, <1>1, <2>1, OtherMethodsMembers DEF SameMembers, Keeps
<1>8. ASSUME NEW op, NEW num, on_add_msg(num) \/ on_delete_msg(op, num) \/ clear_msg(op)
      PROVE  Keeps(room', room)
  <2>1. room' = AddMsg(room, num) \/ room' = DeleteMsg(room, num) \/ room' = ClearMsg(room)
    BY <1>8 DEF on_add_msg, on_delete_msg, clear_msg, Becomes
  <2> QED
    BY <1>0, <2>1, OtherMethodsMembers DEF SameMembers, Keeps
<1> QED
  BY <1>1, <1>3, <1>4, <1>5, <1>6, <1>7, <1>8 DEF Next, vars

(* Nobody drops out of both maps but by a deletion, and then the list is    *)
(* one shorter: a promotion or a demotion that is refused half way, or a    *)
(* user who is in both maps, cannot make the room forget a member it still  *)
(* lists (group_info.cpp:152-228).                                          *)
THEOREM NobodyIsLost == Spec => OnlyDeletionRemoves
<1>1. IInv /\ IInv' /\ [Next]_vars
        => [(\E u \in Users : InGroup(room, u) /\ ~InGroup(room', u))
               => Cardinality(Nodes(room')) = Cardinality(Nodes(room)) - 1]_vars
  <2> SUFFICES ASSUME IInv, IInv', [Next]_vars,
                      NEW v \in Users, InGroup(room, v), ~InGroup(room', v)
               PROVE  Cardinality(Nodes(room')) = Cardinality(Nodes(room)) - 1
    OBVIOUS
  <2>1. PICK op, u : room' = DeleteMember(room, op, u)
    BY NextKeepsMembers DEF Keeps
  <2>2. IsGroup(room) /\ CountMatchesList(room) /\ CountMatchesList(room')
    BY DEF IInv, WellFormed
  <2>3. /\ room'.member_count = room.member_count + (-1)
        /\ room'.surplus = room.surplus
    <3> DEFINE h == DeleteMember(room, op, u)
    <3>1. h.member_count = room.member_count + (-1) /\ h.surplus = room.surplus
      BY <2>2, DeleteMemberFields
    <3> HIDE DEF h
    <3> QED
      BY <2>1, <3>1 DEF h
  <2>4. /\ room.member_count \in Nat /\ room.surplus \in Nat
        /\ Cardinality(Nodes(room)) \in Nat /\ Cardinality(Nodes(room')) \in Nat
    BY NodesFinite DEF IInv, WellFormed, IsGroup
  <2> QED
    BY <2>2, <2>3, <2>4 DEF CountMatchesList
<1> QED
  BY <1>1, RoomWellFormed, PTL DEF Spec, OnlyDeletionRemoves

=============================================================================
