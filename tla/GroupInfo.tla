------------------------------ MODULE GroupInfo ------------------------------
(***************************************************************************)
(* The class GroupInfo (include/group_info.h, source/group_info.cpp) as    *)
(* operators on a value: a group is a record, and each method is a         *)
(* predicate that says when it returns true (Can...) and an operator that  *)
(* gives the group it leaves behind.  A method that returns false changes  *)
(* nothing.                                                                *)
(*                                                                         *)
(* members_list is a std::list of members, and managers_map and            *)
(* members_map hold iterators into it.  A list node is the number of its   *)
(* memory, the list is a function from nodes to members, and the maps are  *)
(* functions from user guids to nodes.  The order of the list is never     *)
(* used by the code.                                                       *)
(*                                                                         *)
(* A group made from the wire is copied into NetInfo::groups.  The copy    *)
(* has nodes of its own, but its maps are copied with their iterators,     *)
(* which lead into the list of the original, destroyed right after: none   *)
(* of them leads to a node of the copy.  "relic" is that freed memory: it  *)
(* shows the pointers it held (the members themselves are shared with the  *)
(* copy and live on), until a later node is allocated there.  To           *)
(* dereference such an iterator is undefined (it may read what the memory  *)
(* shows, or fault), and to erase through it frees memory twice.           *)
(***************************************************************************)
EXTENDS Integers, FiniteSets, Sequences, Functions

CONSTANTS
    MaxNodes,         \* bound: the members a group may hold
    MaxGuid,          \* bound: the largest user guid (2^32 - 1 in the code)
    GroupMsgsMaxLen,  \* group_msgs_max_len, 100 in the code
    NumMod,           \* 2^16, the width of msg_num and of msg_count
    UintMod,          \* 2^32, the width of the product of from_data
    InfoLength        \* group_member_info::length(), 48 in the code

ASSUME BoundsAssumption ==
    /\ MaxNodes \in Nat \ {0}
    /\ MaxGuid \in Nat \ {0}
    /\ GroupMsgsMaxLen \in Nat \ {0}
    /\ NumMod \in Nat \ {0, 1}
    /\ UintMod \in Nat \ {0}
    /\ InfoLength \in Nat \ {0}

-----------------------------------------------------------------------------
(* Maps, as std::map and std::list use them. *)

IsMap(f, K, V) == DOMAIN f \subseteq K /\ f \in [DOMAIN f -> V]

EmptyMap == [x \in {} |-> 0]

Put(f, k, v) == [x \in DOMAIN f \cup {k} |-> IF x = k THEN v ELSE f[x]]

Erase(f, k) == Restrict(f, DOMAIN f \ {k})

-----------------------------------------------------------------------------
(* struct group_permission: a smaller number allows more. *)

SEND_TO_ALL == 0
SEND_TO_GROUP == 1
SEND_MSG == 5
SEND_MSG_COUNT_LIMIT_50 == 6
SEND_MSG_COUNT_LIMIT_10 == 7
CANT_SEND_MSG == 8

(* uint8_t: a client may set one that has no name, which restricts nothing. *)
Permission == 0 .. 255

JOB == {"leader", "manager", "member"}

(* The nodes a group allocates, and those of the original it is a copy of. *)
Node == 1 .. 2 * MaxNodes

(* 0 is no user: "unknown", "the server" or "not logged in". *)
Guid == 0 .. MaxGuid

Member == [user_guid : Guid, permissions : Permission, job : JOB,
           msg_count : 0 .. NumMod - 1]

IsGroup(g) ==
    /\ g = [learder_guid |-> g.learder_guid, member_count |-> g.member_count,
            members_list |-> g.members_list, managers_map |-> g.managers_map,
            members_map |-> g.members_map, relic |-> g.relic,
            surplus |-> g.surplus, msg_list |-> g.msg_list,
            msg_limit |-> g.msg_limit]
    /\ g.learder_guid \in Guid
    /\ g.member_count \in Nat
    /\ IsMap(g.members_list, Node, Member)
    /\ IsMap(g.managers_map, Guid, Node)
    /\ IsMap(g.members_map, Guid, Node)
    /\ IsMap(g.relic, Node, Node \cup {0})
    /\ g.surplus \in Nat
    /\ g.msg_list \in Seq(0 .. NumMod - 1)
    /\ g.msg_limit \in Nat

(* GroupInfo(), then set_learder_guid. *)
NewGroup(leader) ==
    [learder_guid |-> leader, member_count |-> 0, members_list |-> EmptyMap,
     managers_map |-> EmptyMap, members_map |-> EmptyMap, relic |-> EmptyMap,
     surplus |-> 0, msg_list |-> << >>, msg_limit |-> 0]

SetLeader(g, leader) == [g EXCEPT !.learder_guid = leader]

-----------------------------------------------------------------------------
(* What the code may reach through an iterator. *)

Nodes(g) == DOMAIN g.members_list
Managers(g) == DOMAIN g.managers_map
Normals(g) == DOMAIN g.members_map
InGroup(g, u) == u \in Managers(g) \cup Normals(g)

(* get_member_by_guid looks into members_map first. *)
HandleOf(g, u) == IF u \in Normals(g) THEN g.members_map[u]
                                      ELSE g.managers_map[u]

(* The list node whose member is read through iterator h: the node itself,   *)
(* or the one that freed memory still shows; 0 if it shows none.           *)
Holds(g, h) == IF h \in Nodes(g) THEN h
               ELSE IF h \in DOMAIN g.relic THEN g.relic[h] ELSE 0

(* Through each of these iterators a member can be read or written...       *)
Readable(g, handles) == \A h \in handles : Holds(g, h) \in Nodes(g)

(* ...but one that leads to no node of the list may fault all the same, and *)
(* erasing through it does.                                                *)
Dangling(g, handles) == \E h \in handles : h \notin Nodes(g)

MemberOf(g, u) == g.members_list[Holds(g, HandleOf(g, u))]

-----------------------------------------------------------------------------
(* Members. *)

HasRoom(g) == Cardinality(Nodes(g)) < MaxNodes

(* Where the allocator may put a new node: in the memory of the destroyed    *)
(* original, or elsewhere.                                                 *)
Places(g) ==
    LET free == (1 .. MaxNodes) \ Nodes(g)
    IN  (DOMAIN g.relic \ Nodes(g)) \cup {n \in free : \A k \in free : n <= k}

CountForgotten(g, d) == g
CountBackwards(g, d) == [g EXCEPT !.member_count = @ - d]

(* ++member_count and --member_count, beside every change of the list. *)
Counted(g, d) == [g EXCEPT !.member_count = @ + d]

(* The member on_add_member builds. *)
JoiningMember(u, job) ==
    [user_guid |-> u, permissions |-> SEND_TO_GROUP, job |-> job, msg_count |-> 0]

Linked(g, n, m) ==
    [g EXCEPT !.members_list = Put(@, n, m),
              !.relic = [k \in DOMAIN @ |-> IF k = n THEN 0 ELSE @[k]]]


CanAddMember(g, op, u) == /\ op = 0 \/ op \in Managers(g)
                          /\ u \notin Normals(g)

AddMember(g, op, u, n) ==
    LET leads == op = 0 /\ u = g.learder_guid
        h == Counted(Linked(g, n, JoiningMember(u, IF leads THEN "leader"
                                                           ELSE "member")), 1)
    IN  IF leads THEN [h EXCEPT !.managers_map = Put(@, u, n)]
                 ELSE [h EXCEPT !.members_map = Put(@, u, n)]

CanDeleteMember(g, op, u) ==
    IF u \in Managers(g) THEN op = g.learder_guid
                         ELSE op \in Managers(g) /\ u \in Normals(g)

(* members_list.erase(iterator) *)
Unlinked(g, n) == [g EXCEPT !.members_list = Erase(@, n)]

MembersFirst(g, u) == IF u \in Normals(g) THEN g.members_map[u]
                                          ELSE g.managers_map[u]

(* A manager is looked for first: one who is in both maps stays a member. *)
Deletable(g, u) == IF u \in Managers(g) THEN g.managers_map[u]
                                        ELSE g.members_map[u]

DeleteMember(g, op, u) ==
    LET h == Counted(Unlinked(g, Deletable(g, u)), -1)
    IN  IF u \in Managers(g) THEN [h EXCEPT !.managers_map = Erase(@, u)]
                             ELSE [h EXCEPT !.members_map = Erase(@, u)]

-----------------------------------------------------------------------------
(* Managers. *)

SetJob(g, h, j) == [g EXCEPT !.members_list[Holds(g, h)].job = j]

CanAddManager(g, op, u) == /\ op = g.learder_guid
                           /\ u \notin Managers(g)
                           /\ u \in Normals(g)

AddManagerKeepsMember(g, op, u) ==
    LET n == g.members_map[u]
    IN  [SetJob(g, n, "manager") EXCEPT !.managers_map = Put(@, u, n)]

AddManager(g, op, u) ==
    LET n == g.members_map[u]
    IN  [SetJob(g, n, "manager") EXCEPT !.managers_map = Put(@, u, n),
                                        !.members_map = Erase(@, u)]

CanDeleteManager(g, op, u) == /\ op = g.learder_guid
                              /\ u \in Managers(g)
                              /\ u \notin Normals(g)

DemotionLosesMember(g, op, u) == [g EXCEPT !.managers_map = Erase(@, u)]

(* A manager is demoted, not removed: u stays in the list. *)
DeleteManager(g, op, u) ==
    LET n == g.managers_map[u]
    IN  [SetJob(g, n, "member") EXCEPT !.members_map = Put(@, u, n),
                                       !.managers_map = Erase(@, u)]

-----------------------------------------------------------------------------
(* Permissions. *)

GrantsAnything(g, op, p) == op \in Managers(g)

(* Nobody hands out more than it holds. *)
MayGrant(g, op, p) ==
    /\ op \in Managers(g)
    /\ Readable(g, {g.managers_map[op]})
    /\ g.members_list[Holds(g, g.managers_map[op])].permissions <= p

(* The entry on_change_permissions writes: managers_map is looked in first. *)
CanChangePermissions(g, op, u, p) ==
    /\ MayGrant(g, op, p)
    /\ IF u \in Managers(g) THEN op = g.learder_guid ELSE u \in Normals(g)

ChangePermissions(g, op, u, p) ==
    [g EXCEPT !.members_list[Holds(g, Deletable(g, u))].permissions = p]

-----------------------------------------------------------------------------
(* Messages.  The list keeps their numbers: everything else is payload. *)

(* The number on_add_msg gives to a message that comes without one.  The sum *)
(* is stored in a uint16_t.                                                *)
NextNum(msgs) == IF msgs = << >> THEN 1 ELSE (msgs[Len(msgs)] + 1) % NumMod

(* Once msg_limit counts more than GroupMsgsMaxLen messages, the oldest one  *)
(* leaves: the list itself is not measured.                                *)
AddMsg(g, num) ==
    LET all == Append(g.msg_list, IF num = 0 THEN NextNum(g.msg_list) ELSE num)
        full == g.msg_limit + 1 > GroupMsgsMaxLen
    IN  [g EXCEPT !.msg_list = IF full THEN Tail(all) ELSE all,
                  !.msg_limit = IF full THEN @ ELSE @ + 1]

CanDeleteMsg(g, op) == op \in Managers(g)

(* The latest message with that number, if there is one. *)
DeleteMsg(g, num) ==
    LET at == {i \in 1 .. Len(g.msg_list) : g.msg_list[i] = num}
        last == CHOOSE i \in at : \A j \in at : j <= i
    IN  IF at = {} THEN g
        ELSE [g EXCEPT !.msg_list = [i \in 1 .. Len(@) - 1 |->
                                        IF i < last THEN @[i] ELSE @[i + 1]],
                       !.msg_limit = @ - 1]

ClearKeepsCount(g) == [g EXCEPT !.msg_list = << >>]

ClearMsg(g) == [g EXCEPT !.msg_list = << >>, !.msg_limit = 0]

-----------------------------------------------------------------------------
(* Traversals.  A map is walked in the order of its keys; the walks of     *)
(* NetInfo stop at the first entry whose member is not a registered user,  *)
(* and traverse_all_members goes on with members_map all the same.         *)

(* The entries through which a registered user is read. *)
Recognised(g, map, known) ==
    {k \in DOMAIN map : /\ Readable(g, {map[k]})
                        /\ g.members_list[Holds(g, map[k])].user_guid \in known}

(* The entries the walk of a map comes to, and those it gets past. *)
Touched(g, map, known) ==
    {k \in DOMAIN map : \A j \in DOMAIN map :
                            j < k => j \in Recognised(g, map, known)}

Reached(g, map, known) == Touched(g, map, known) \cap Recognised(g, map, known)

TouchedHandles(g, known) ==
    {g.managers_map[u] : u \in Touched(g, g.managers_map, known)} \cup
    {g.members_map[u] : u \in Touched(g, g.members_map, known)}

VisitedNodes(g, known) ==
    {Holds(g, g.managers_map[u]) : u \in Reached(g, g.managers_map, known)} \cup
    {Holds(g, g.members_map[u]) : u \in Reached(g, g.members_map, known)}

MembersOnly(g, known) ==
    {g.members_list[Holds(g, g.members_map[u])].user_guid :
         u \in Reached(g, g.members_map, known)}

VisitedUsers(g, known) ==
    {g.members_list[n].user_guid : n \in VisitedNodes(g, known)}

-----------------------------------------------------------------------------
(* Groups from the wire. *)

(* from_data: entry i of the roster becomes node i; its job says which map *)
(* it goes into, and a later entry of the same user takes the earlier      *)
(* one's place in the map, not in the list.                                *)
LastOf(roster, at) == [u \in {roster[i].user_guid : i \in at} |->
                          CHOOSE i \in at : /\ roster[i].user_guid = u
                                            /\ \A j \in at : roster[j].user_guid = u => j <= i]

(* The one check of the count a client sends: its product with the length of *)
(* an entry is a uint32_t, and may wrap.                                   *)
CanParse(roster, count) ==
    (count * InfoLength) % UintMod <= Len(roster) * InfoLength

(* The loop reads as many entries as there are: with a wrapped product       *)
(* member_count stays "surplus" above them.  (The counts that pass are far  *)
(* enough from 2^32 for ++member_count.)                                   *)
FromData(leader, sent, count) ==
    LET roster == SubSeq(sent, 1, IF count < Len(sent) THEN count ELSE Len(sent))
        chiefs == {i \in 1 .. Len(roster) : roster[i].job # "member"}
    IN  [learder_guid |-> leader, member_count |-> count,
         members_list |-> [i \in 1 .. Len(roster) |-> roster[i]],
         managers_map |-> LastOf(roster, chiefs),
         members_map |-> LastOf(roster, (1 .. Len(roster)) \ chiefs),
         relic |-> EmptyMap, surplus |-> count - Len(roster),
         msg_list |-> << >>, msg_limit |-> 0]

(* The lambda of on_group_add, on the members it reaches. *)
Normalised(g, known) ==
    LET visited == VisitedNodes(g, known)
        Normal(u) == JoiningMember(u, IF u = g.learder_guid THEN "leader"
                                                            ELSE "member")
    IN  [g EXCEPT !.members_list =
            [n \in DOMAIN @ |-> IF n \in visited THEN Normal(@[n].user_guid)
                                                 ELSE @[n]]]

(* groups.emplace_back(info): the copy of node n is n, and the iterators     *)
(* still lead to the original's nodes, n + MaxNodes, which are freed.       *)
CopyOf(g) ==
    LET Old(map) == [u \in DOMAIN map |-> map[u] + MaxNodes]
    IN  [g EXCEPT !.managers_map = Old(@),
                  !.members_map = Old(@),
                  !.relic = [h \in {n + MaxNodes : n \in Nodes(g)} |-> h - MaxNodes]]

-----------------------------------------------------------------------------
(* What must hold of a group, whatever has been done to it. *)

(* member_count counts the list, but for what a wrapped count added to it. *)
CountMatchesList(g) == g.member_count = Cardinality(Nodes(g)) + g.surplus

(* No node was allocated in the memory of the destroyed original: so of the *)
(* rooms that the server itself made, which have no original.              *)
RelicsIntact(g) == \A h \in DOMAIN g.relic : g.relic[h] # 0

(* What is read through every iterator is the member it is filed under. *)
IndexSound(g) ==
    LET Shows(map) == \A u \in DOMAIN map :
                         /\ Readable(g, {map[u]})
                         /\ g.members_list[Holds(g, map[u])].user_guid = u
    IN  Shows(g.managers_map) /\ Shows(g.members_map)

(* No member is reachable through both maps: erasing it through one would   *)
(* leave the other dangling.                                               *)
IndexDisjoint(g) ==
    \A u \in Managers(g), v \in Normals(g) :
        Holds(g, g.managers_map[u]) # Holds(g, g.members_map[v])

(* msg_limit is the length of msg_list, and the window is never exceeded. *)
WindowKept(g) == /\ g.msg_limit = Len(g.msg_list)
                 /\ Len(g.msg_list) <= GroupMsgsMaxLen

WellFormed(g) == /\ IsGroup(g)
                 /\ CountMatchesList(g)
                 /\ RelicsIntact(g) => IndexSound(g) /\ IndexDisjoint(g)
                 /\ WindowKept(g)

=============================================================================
