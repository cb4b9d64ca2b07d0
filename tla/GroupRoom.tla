------------------------------ MODULE GroupRoom ------------------------------
(***************************************************************************)
(* One chat group under every sequence of calls of its public methods.     *)
(*                                                                         *)
(* The room starts as the public room of NetInfo(), whose leader is the    *)
(* first account to register, or as a group that a client created: parsed  *)
(* from the wire, normalised and copied into NetInfo::groups.  Each action *)
(* is one method; a call that returns false changes nothing and is a       *)
(* stuttering step.  A call that dereferences or erases an iterator that   *)
(* leads to no node of the list may do anything the machine does: it ends  *)
(* the model ("alive"), or it goes on with the member the freed memory     *)
(* still shows.                                                            *)
(***************************************************************************)
EXTENDS GroupInfo

CONSTANTS
    Users,      \* the guids of the registered users
    Rosters,    \* the member lists clients create groups with
    Counts,     \* the member counts they send along
    Granted,    \* the permissions that are set
    WireNums,   \* the message numbers clients send, 0 for "you choose"
    MaxLen      \* bound: the length of a roster

ASSUME RoomAssumption ==
    /\ Users \subseteq Guid \ {0}
    /\ Granted \subseteq Permission
    /\ Counts \subseteq 0 .. UintMod - 1
    /\ WireNums \subseteq 0 .. NumMod - 1
    /\ MaxLen \in 0 .. MaxNodes
    /\ \A r \in Rosters : r \in Seq(Member) /\ Len(r) <= MaxLen

VARIABLES room, alive

vars == <<room, alive>>

-----------------------------------------------------------------------------
(* on_group_add refuses a leader who is not registered; the members it is   *)
(* given need not be.                                                       *)
Created(leader, roster, count) ==
    CopyOf(Normalised(FromData(leader, roster, count), Users))

Init == /\ alive = TRUE
        /\ \/ room = NewGroup(0)
           \/ \E leader \in Users, roster \in Rosters, count \in Counts :
                  /\ CanParse(roster, count)
                  /\ room = Created(leader, roster, count)

-----------------------------------------------------------------------------
Becomes(g) == room' = g /\ UNCHANGED alive

(* Iterators among "handles" lead to no node of the list, and fault. *)
Faults(handles) == Dangling(room, handles) /\ alive' = FALSE /\ UNCHANGED room

(* The first account to register leads the public room; every account that  *)
(* registers is added by the server itself, operator 0.                     *)
Register(u, first) ==
    LET g == IF first THEN SetLeader(room, u) ELSE room
    IN  /\ HasRoom(g)
        /\ IF CanAddMember(g, 0, u)
           THEN \E n \in Places(g) : Becomes(AddMember(g, 0, u, n))
           ELSE Becomes(g)

on_add_member(op, u) ==
    /\ op # 0 /\ HasRoom(room) /\ CanAddMember(room, op, u)
    /\ \E n \in Places(room) : Becomes(AddMember(room, op, u, n))

on_delete_member(op, u) ==
    /\ CanDeleteMember(room, op, u)
    /\ \/ /\ Deletable(room, u) \in Nodes(room)
          /\ Becomes(DeleteMember(room, op, u))
       \/ Faults({Deletable(room, u)})

on_add_manager(op, u) ==
    /\ CanAddManager(room, op, u)
    /\ \/ /\ Readable(room, {room.members_map[u]})
          /\ Becomes(AddManager(room, op, u))
       \/ Faults({room.members_map[u]})

on_delete_manager(op, u) ==
    /\ CanDeleteManager(room, op, u)
    /\ \/ /\ Readable(room, {room.managers_map[u]})
          /\ Becomes(DeleteManager(room, op, u))
       \/ Faults({room.managers_map[u]})

(* The operator's own entry is read before anything is refused. *)
on_change_permissions(op, u, p) ==
    \/ op \in Managers(room) /\ Faults({room.managers_map[op]})
    \/ /\ CanChangePermissions(room, op, u, p)
       /\ \/ /\ Readable(room, {Deletable(room, u)})
             /\ Becomes(ChangePermissions(room, op, u, p))
          \/ Faults({Deletable(room, u)})

on_add_msg(num) == Becomes(AddMsg(room, num))

on_delete_msg(op, num) == /\ CanDeleteMsg(room, op)
                          /\ Becomes(DeleteMsg(room, num))

clear_msg(op) == CanDeleteMsg(room, op) /\ Becomes(ClearMsg(room))

Next ==
    /\ alive
    /\ \/ \E u \in Users, first \in BOOLEAN : Register(u, first)
       \/ \E op, u \in Users : on_add_member(op, u)
       \/ \E op, u \in Users : on_delete_member(op, u)
       \/ \E op, u \in Users : on_add_manager(op, u)
       \/ \E op, u \in Users : on_delete_manager(op, u)
       \/ \E op, u \in Users, p \in Granted : on_change_permissions(op, u, p)
       \/ \E num \in WireNums : on_add_msg(num)
       \/ \E op \in Users, num \in 0 .. NumMod - 1 : on_delete_msg(op, num)
       \/ \E op \in Users : clear_msg(op)

Spec == Init /\ [][Next]_vars

-----------------------------------------------------------------------------
(* The values the variables take. *)
TypeOK == IsGroup(room) /\ alive \in BOOLEAN

(* member_count is the length of the list after any sequence of calls, so   *)
(* the check of to_data (group_info.cpp:83) suppresses no roster but those  *)
(* whose creator sent a count that wraps at group_info.cpp:27.              *)
RosterSerialisable == CountMatchesList(room)

(* Whatever was added, demoted, promoted and deleted, in any order, what is  *)
(* read through an entry of managers_map or members_map is the member it is  *)
(* filed under: no erase of on_delete_member leaves an iterator behind.  In  *)
(* the room the server itself made the entry leads to a node of the list; in *)
(* a created one this lasts until its memory is allocated again, and is read *)
(* through freed memory (OnlyCopiesFault is about that).                     *)
HandlesSound == RelicsIntact(room) => IndexSound(room)

(* The two maps never share a member, although a user may be in both: so     *)
(* erasing through one map cannot free what the other points to.             *)
HandlesDisjoint == RelicsIntact(room) => IndexDisjoint(room)

(* Whatever was appended, deleted and cleared: msg_limit, by which the code  *)
(* trims, still counts the history, so it never exceeds group_msgs_max_len.  *)
HistoryWindow == WindowKept(room)

(* Only a group that was copied, whose entries lead to the nodes of another  *)
(* list, ever reaches for a node that is not in the list: no call the        *)
(* server makes of its own room dereferences or erases what is gone.         *)
OnlyCopiesFault ==
    [][alive /\ ~alive' => DOMAIN room.relic # {}]_vars

(* No call makes anybody more powerful than the most powerful member there  *)
(* was, or than SEND_TO_GROUP, which every newcomer gets: permissions       *)
(* cannot be escalated by passing them around.                              *)
NoEscalation ==
    [][\A n \in Nodes(room') :
           \E floor \in {SEND_TO_GROUP} \cup
                        {room.members_list[k].permissions : k \in Nodes(room)} :
               floor <= room'.members_list[n].permissions]_vars

(* A user the room knows cannot be lost by a promotion or a demotion: the   *)
(* only call after which somebody is in neither map any more is a deletion, *)
(* and then the list is one shorter.                                        *)
OnlyDeletionRemoves ==
    [][(\E u \in Users : InGroup(room, u) /\ ~InGroup(room', u))
           => Cardinality(Nodes(room')) = Cardinality(Nodes(room)) - 1]_vars

=============================================================================
