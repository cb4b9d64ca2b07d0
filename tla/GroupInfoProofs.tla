--------------------------- MODULE GroupInfoProofs ---------------------------
(***************************************************************************)
(* Every method of GroupInfo takes a well-formed group to a well-formed    *)
(* group: one lemma per method, for groups of any size, any guids and any  *)
(* history length.  A second set of lemmas says who is in a group after    *)
(* each method.  GroupRoomProofs and NetRoomProofs make theorems of them.  *)
(***************************************************************************)
EXTENDS GroupInfo, FiniteSetTheorems, SequenceTheorems, WellFoundedInduction,
        TLAPS

-----------------------------------------------------------------------------
(* Maps. *)

LEMMA PutFacts ==
    ASSUME NEW f, NEW k, NEW v
    PROVE  /\ DOMAIN Put(f, k, v) = DOMAIN f \cup {k}
           /\ Put(f, k, v)[k] = v
           /\ \A x \in DOMAIN f : x # k => Put(f, k, v)[x] = f[x]
BY DEF Put

LEMMA PutIsMap ==
    ASSUME NEW K, NEW V, NEW f, IsMap(f, K, V), NEW k \in K, NEW v \in V
    PROVE  IsMap(Put(f, k, v), K, V)
<1>1. \A x \in DOMAIN f : f[x] \in V
  BY DEF IsMap
<1> QED
  BY <1>1 DEF IsMap, Put

LEMMA EraseFacts ==
    ASSUME NEW f, NEW k
    PROVE  /\ DOMAIN Erase(f, k) = DOMAIN f \ {k}
           /\ \A x \in DOMAIN f \ {k} : Erase(f, k)[x] = f[x]
BY DEF Erase, Restrict

LEMMA EraseIsMap ==
    ASSUME NEW K, NEW V, NEW f, IsMap(f, K, V), NEW k
    PROVE  IsMap(Erase(f, k), K, V)
<1>1. \A x \in DOMAIN f : f[x] \in V
  BY DEF IsMap
<1> QED
  BY <1>1 DEF IsMap, Erase, Restrict

(* A nonempty set of naturals below n has a largest element: otherwise the  *)
(* sets of what is above its elements would descend for ever.               *)
LEMMA LargestExists ==
    ASSUME NEW n \in Nat, NEW S, S \subseteq 1 .. n, S # {}
    PROVE  \E m \in S : \A j \in S : j <= m
<1> DEFINE above(i) == {j \in S : j > i}
           T == {above(i) : i \in S}
<1>0. S \subseteq Int
  OBVIOUS
<1>1. IsFiniteSet(S)
  <2>1. IsFiniteSet(1 .. n)
    BY FS_Interval
  <2> QED
    BY <2>1, FS_Subset
<1>2. T \subseteq FiniteSubsetsOf(S) /\ T # {}
  <2>1. \A i \in S : above(i) \in SUBSET S /\ IsFiniteSet(above(i))
    <3> SUFFICES ASSUME NEW i \in S
                 PROVE  above(i) \in SUBSET S /\ IsFiniteSet(above(i))
      OBVIOUS
    <3>1. above(i) \in SUBSET S
      OBVIOUS
    <3> QED
      BY <3>1, <1>1, FS_Subset
  <2> QED
    BY <2>1 DEF FiniteSubsetsOf
<1>3. PICK t \in T : \A y \in T : ~ (<<y, t>> \in StrictSubsetOrdering(S))
  <2>1. IsWellFoundedOn(StrictSubsetOrdering(S), FiniteSubsetsOf(S))
    BY FS_StrictSubsetOrderingWellFounded
  <2> HIDE DEF T
  <2> QED
    BY <1>2, <2>1, WFMin, Zenon
<1>4. PICK m \in S : t = above(m)
  BY <1>3
<1>5. above(m) = {}
  <2> SUFFICES ASSUME NEW k \in above(m) PROVE FALSE
    OBVIOUS
  <2>1. k \in S /\ k > m /\ k \in Int /\ m \in Int
    BY <1>0
  <2>2. above(k) \subseteq above(m)
    <3> SUFFICES ASSUME NEW x \in S, x > k PROVE x > m
      OBVIOUS
    <3>1. x \in Int
      BY <1>0
    <3> QED
      BY <3>1, <2>1
  <2>3. k \notin above(k)
    BY <2>1
  <2>4. <<above(k), t>> \in StrictSubsetOrdering(S)
    BY <2>1, <2>2, <2>3, <1>4 DEF StrictSubsetOrdering
  <2> QED
    BY <2>1, <2>4, <1>3
<1> QED
  BY <1>5, <1>0

-----------------------------------------------------------------------------
(* The list of a group is finite, and a new node is one it does not have. *)

LEMMA NodesFinite ==
    ASSUME NEW g, IsGroup(g)
    PROVE  /\ IsFiniteSet(Nodes(g))
           /\ Nodes(g) \subseteq Node
           /\ Cardinality(Nodes(g)) \in Nat
<1>1. IsFiniteSet(Node)
  BY FS_Interval, BoundsAssumption DEF Node
<1>2. Nodes(g) \subseteq Node
  BY DEF IsGroup, IsMap, Nodes
<1> QED
  BY <1>1, <1>2, FS_Subset, FS_CardinalityType

LEMMA PlacesAreFree ==
    ASSUME NEW g, IsGroup(g), NEW n \in Places(g)
    PROVE  n \in Node /\ n \notin Nodes(g)
<1>1. 1 .. MaxNodes \subseteq Node
  BY BoundsAssumption DEF Node
<1>2. DOMAIN g.relic \subseteq Node
  BY DEF IsGroup, IsMap
<1> QED
  BY <1>1, <1>2 DEF Places

-----------------------------------------------------------------------------
(* What is read through iterators. *)

(* Relic n is overwritten, if it is one. *)
Forgotten(relic, n) == [k \in DOMAIN relic |-> IF k = n THEN 0 ELSE relic[k]]

(* The member shown through handle k of g is shown through it in h too. *)
ShowsSame(h, g, k) == /\ Holds(h, k) = Holds(g, k)
                  /\ Holds(h, k) \in Nodes(h)
                  /\ h.members_list[Holds(g, k)].user_guid
                       = g.members_list[Holds(g, k)].user_guid

LEMMA IndexSoundFacts ==
    ASSUME NEW g
    PROVE  IndexSound(g) <=>
           /\ \A u \in Managers(g) :
                  /\ Holds(g, g.managers_map[u]) \in Nodes(g)
                  /\ g.members_list[Holds(g, g.managers_map[u])].user_guid = u
           /\ \A u \in Normals(g) :
                  /\ Holds(g, g.members_map[u]) \in Nodes(g)
                  /\ g.members_list[Holds(g, g.members_map[u])].user_guid = u
BY DEF IndexSound, Readable, Managers, Normals

(* The index stays good when every entry of h is one of g that shows the    *)
(* same member, ...                                                        *)
LEMMA IndexInherited ==
    ASSUME NEW g, NEW h, IndexSound(g), IndexDisjoint(g),
           \A x \in Managers(h) : /\ x \in Managers(g)
                                  /\ h.managers_map[x] = g.managers_map[x]
                                  /\ ShowsSame(h, g, g.managers_map[x]),
           \A x \in Normals(h) : /\ x \in Normals(g)
                                 /\ h.members_map[x] = g.members_map[x]
                                 /\ ShowsSame(h, g, g.members_map[x])
    PROVE  IndexSound(h) /\ IndexDisjoint(h)
<1>1. IndexSound(h)
  BY IndexSoundFacts DEF ShowsSame
<1>2. IndexDisjoint(h)
  BY DEF IndexDisjoint, ShowsSame
<1> QED
  BY <1>1, <1>2

-----------------------------------------------------------------------------
(* on_add_member *)

LEMMA AddMemberFields ==
    ASSUME NEW g, IsGroup(g), NEW op, NEW u,
           NEW n, NEW h, h = AddMember(g, op, u, n)
    PROVE  LET leads == op = 0 /\ u = g.learder_guid
               m == JoiningMember(u, IF leads THEN "leader" ELSE "member")
           IN  h = [learder_guid |-> g.learder_guid,
                    member_count |-> g.member_count + 1,
                    members_list |-> Put(g.members_list, n, m),
                    managers_map |-> IF leads THEN Put(g.managers_map, u, n)
                                              ELSE g.managers_map,
                    members_map |-> IF leads THEN g.members_map
                                             ELSE Put(g.members_map, u, n),
                    relic |-> Forgotten(g.relic, n),
                    surplus |-> g.surplus, msg_list |-> g.msg_list,
                    msg_limit |-> g.msg_limit]
BY DEF AddMember, Counted, Linked, Forgotten, IsGroup

LEMMA AddMemberWellFormed ==
    ASSUME NEW g, WellFormed(g), NEW op, NEW u \in Guid, NEW n \in Places(g)
    PROVE  WellFormed(AddMember(g, op, u, n))
<1> DEFINE h == AddMember(g, op, u, n)
           leads == op = 0 /\ u = g.learder_guid
           m == JoiningMember(u, IF leads THEN "leader" ELSE "member")
<1>0. IsGroup(g)
  BY DEF WellFormed
<1>1. /\ h.learder_guid = g.learder_guid
      /\ h.member_count = g.member_count + 1
      /\ h.members_list = Put(g.members_list, n, m)
      /\ h.managers_map = IF leads THEN Put(g.managers_map, u, n)
                                   ELSE g.managers_map
      /\ h.members_map = IF leads THEN g.members_map
                                  ELSE Put(g.members_map, u, n)
      /\ h.relic = Forgotten(g.relic, n)
      /\ h.surplus = g.surplus
      /\ h.msg_list = g.msg_list
      /\ h.msg_limit = g.msg_limit
      /\ h = [learder_guid |-> h.learder_guid, member_count |-> h.member_count,
              members_list |-> h.members_list, managers_map |-> h.managers_map,
              members_map |-> h.members_map, relic |-> h.relic,
              surplus |-> h.surplus, msg_list |-> h.msg_list,
              msg_limit |-> h.msg_limit]
  BY <1>0, AddMemberFields
<1>2. n \in Node /\ n \notin Nodes(g)
  BY <1>0, PlacesAreFree
<1>3. m \in Member /\ m.user_guid = u
  BY BoundsAssumption
     DEF JoiningMember, Member, Permission, JOB, SEND_TO_ALL, SEND_TO_GROUP,
         CANT_SEND_MSG
<1> HIDE DEF h, m
<1>4. IsGroup(h)
  <2>1. IsMap(h.members_list, Node, Member)
    BY <1>0, <1>1, <1>2, <1>3, PutIsMap DEF IsGroup
  <2>2. IsMap(h.managers_map, Guid, Node) /\ IsMap(h.members_map, Guid, Node)
    BY <1>0, <1>1, <1>2, PutIsMap DEF IsGroup
  <2>3. IsMap(h.relic, Node, Node \cup {0})
    BY <1>0, <1>1 DEF IsGroup, IsMap, Forgotten
  <2> QED
    BY <1>0, <1>1, <2>1, <2>2, <2>3 DEF IsGroup
<1>5. Nodes(h) = Nodes(g) \cup {n}
  BY <1>1 DEF Nodes, Put
<1>6. CountMatchesList(h)
  <2>1. Cardinality(Nodes(h)) = Cardinality(Nodes(g)) + 1
    BY <1>0, <1>2, <1>5, NodesFinite, FS_AddElement
  <2>2. g.surplus \in Nat /\ g.member_count = Cardinality(Nodes(g)) + g.surplus
    BY DEF WellFormed, IsGroup, CountMatchesList
  <2> QED
    BY <1>0, <1>1, <2>1, <2>2, NodesFinite DEF CountMatchesList
<1>7. /\ h.members_list[n].user_guid = u
      /\ \A k \in Nodes(g) : h.members_list[k] = g.members_list[k]
  BY <1>1, <1>2, <1>3 DEF Nodes, Put
<1>8. /\ \A x \in Managers(h) :
            (x \in Managers(g) /\ h.managers_map[x] = g.managers_map[x])
                \/ (leads /\ x = u /\ h.managers_map[x] = n)
      /\ \A x \in Normals(h) :
            (x \in Normals(g) /\ h.members_map[x] = g.members_map[x])
                \/ (~leads /\ x = u /\ h.members_map[x] = n)
  BY <1>1 DEF Managers, Normals, Put
<1>9. ASSUME RelicsIntact(h)
      PROVE  IndexSound(h) /\ IndexDisjoint(h)
  <2>1. n \notin DOMAIN g.relic /\ RelicsIntact(g)
    BY <1>1, <1>9 DEF RelicsIntact, Forgotten
  <2>2. DOMAIN h.relic = DOMAIN g.relic /\ \A k \in DOMAIN g.relic : h.relic[k] = g.relic[k]
    BY <1>1, <2>1 DEF Forgotten
  <2>3. IndexSound(g) /\ IndexDisjoint(g)
    BY <2>1 DEF WellFormed
  <2>4. Holds(h, n) = n
    BY <1>5 DEF Holds
  <2>5. 0 \notin Nodes(g)
    BY <1>0, NodesFinite, BoundsAssumption DEF Node
  <2>6. \A k : Holds(g, k) \in Nodes(g) => k # n /\ ShowsSame(h, g, k) /\ Holds(h, k) # n
    BY <1>2, <1>5, <1>7, <2>1, <2>2, <2>5 DEF Holds, ShowsSame
  <2>7. IndexSound(h)
    BY <1>5, <1>7, <1>8, <2>3, <2>4, <2>6, IndexSoundFacts DEF ShowsSame
  <2>8. IndexDisjoint(h)
    BY <1>8, <2>3, <2>4, <2>6, IndexSoundFacts DEF IndexDisjoint, ShowsSame
  <2> QED
    BY <2>7, <2>8
<1>11. WindowKept(h)
  BY <1>1 DEF WellFormed, WindowKept
<1> QED
  BY <1>4, <1>6, <1>9, <1>11 DEF WellFormed, h

-----------------------------------------------------------------------------
(* on_delete_member *)

LEMMA DeleteMemberFields ==
    ASSUME NEW g, IsGroup(g), NEW op, NEW u,
           NEW h, h = DeleteMember(g, op, u)
    PROVE  h = [learder_guid |-> g.learder_guid,
                member_count |-> g.member_count + (-1),
                members_list |-> Erase(g.members_list, Deletable(g, u)),
                managers_map |-> IF u \in Managers(g) THEN Erase(g.managers_map, u)
                                                      ELSE g.managers_map,
                members_map |-> IF u \in Managers(g) THEN g.members_map
                                                     ELSE Erase(g.members_map, u),
                relic |-> g.relic, surplus |-> g.surplus,
                msg_list |-> g.msg_list, msg_limit |-> g.msg_limit]
BY DEF DeleteMember, Counted, Unlinked, IsGroup

(* The erase goes through an iterator that leads to a node of the list: by   *)
(* any other it faults.                                                    *)
LEMMA DeleteMemberWellFormed ==
    ASSUME NEW g, WellFormed(g), NEW op, NEW u, CanDeleteMember(g, op, u),
           Deletable(g, u) \in Nodes(g)
    PROVE  WellFormed(DeleteMember(g, op, u))
<1> DEFINE h == DeleteMember(g, op, u)
           n == Deletable(g, u)
<1>0. IsGroup(g) /\ InGroup(g, u)
  BY DEF WellFormed, CanDeleteMember, InGroup
<1>1. /\ h.learder_guid = g.learder_guid
      /\ h.member_count = g.member_count + (-1)
      /\ h.members_list = Erase(g.members_list, n)
      /\ h.managers_map = IF u \in Managers(g) THEN Erase(g.managers_map, u)
                                               ELSE g.managers_map
      /\ h.members_map = IF u \in Managers(g) THEN g.members_map
                                              ELSE Erase(g.members_map, u)
      /\ h.relic = g.relic
      /\ h.surplus = g.surplus
      /\ h.msg_list = g.msg_list
      /\ h.msg_limit = g.msg_limit
      /\ h = [learder_guid |-> h.learder_guid, member_count |-> h.member_count,
              members_list |-> h.members_list, managers_map |-> h.managers_map,
              members_map |-> h.members_map, relic |-> h.relic,
              surplus |-> h.surplus, msg_list |-> h.msg_list,
              msg_limit |-> h.msg_limit]
  BY <1>0, DeleteMemberFields
<1>2. n \in Nodes(g) /\ Holds(g, n) = n
  BY DEF Holds
<1>3. n = IF u \in Managers(g) THEN g.managers_map[u] ELSE g.members_map[u]
  BY DEF Deletable
<1> HIDE DEF h, n
<1>4. /\ Nodes(h) = Nodes(g) \ {n}
      /\ \A k \in Nodes(h) : h.members_list[k] = g.members_list[k]
  BY <1>1 DEF Nodes, Erase, Restrict
<1>5. CountMatchesList(h) /\ h.member_count \in Nat
  <2>1. Cardinality(Nodes(h)) = Cardinality(Nodes(g)) - 1
    BY <1>0, <1>2, <1>4, NodesFinite, FS_RemoveElement
  <2>2. Cardinality(Nodes(h)) \in Nat
    BY <1>0, <1>4, NodesFinite, FS_RemoveElement, FS_CardinalityType
  <2>3. g.surplus \in Nat /\ g.member_count = Cardinality(Nodes(g)) + g.surplus
    BY DEF WellFormed, IsGroup, CountMatchesList
  <2> QED
    BY <1>0, <1>1, <2>1, <2>2, <2>3, NodesFinite DEF CountMatchesList
<1>6. IsGroup(h)
  <2>1. IsMap(h.members_list, Node, Member)
    BY <1>0, <1>1, EraseIsMap DEF IsGroup
  <2>2. IsMap(h.managers_map, Guid, Node) /\ IsMap(h.members_map, Guid, Node)
    BY <1>0, <1>1, EraseIsMap DEF IsGroup
  <2> QED
    BY <1>0, <1>1, <1>5, <2>1, <2>2 DEF IsGroup
<1>7. /\ \A x \in Managers(h) : x \in Managers(g) /\ h.managers_map[x] = g.managers_map[x]
      /\ \A x \in Normals(h) : x \in Normals(g) /\ h.members_map[x] = g.members_map[x]
  BY <1>1 DEF Managers, Normals, Erase, Restrict
<1>8. ASSUME IndexSound(g), IndexDisjoint(g)
      PROVE  /\ \A x \in Managers(h) : Holds(g, g.managers_map[x]) # n
             /\ \A x \in Normals(h) : Holds(g, g.members_map[x]) # n
  <2>1. CASE u \in Managers(g)
    <3>1. u \notin Managers(h)
      BY <1>1, <2>1 DEF Managers, Erase, Restrict
    <3> QED
      BY <1>2, <1>3, <1>7, <1>8, <2>1, <3>1, IndexSoundFacts DEF IndexDisjoint
  <2>2. CASE u \notin Managers(g)
    <3>1. u \notin Normals(h) /\ u \in Normals(g)
      BY <1>0, <1>1, <2>2 DEF Normals, InGroup, Erase, Restrict
    <3> QED
      BY <1>2, <1>3, <1>7, <1>8, <2>2, <3>1, IndexSoundFacts DEF IndexDisjoint
  <2> QED
    BY <2>1, <2>2
<1>9. ASSUME RelicsIntact(h)
      PROVE  IndexSound(h) /\ IndexDisjoint(h)
  <2>1. RelicsIntact(g)
    BY <1>1, <1>9 DEF RelicsIntact
  <2>2. IndexSound(g) /\ IndexDisjoint(g)
    BY <2>1 DEF WellFormed
  <2>3. \A k : Holds(g, k) \in Nodes(g) /\ Holds(g, k) # n => ShowsSame(h, g, k)
    BY <1>1, <1>2, <1>4 DEF Holds, ShowsSame
  <2>4. /\ \A x \in Managers(h) : ShowsSame(h, g, g.managers_map[x])
        /\ \A x \in Normals(h) : ShowsSame(h, g, g.members_map[x])
    BY <1>7, <1>8, <2>2, <2>3, IndexSoundFacts
  <2> QED
    BY <1>7, <2>2, <2>4, IndexInherited
<1>11. WindowKept(h)
  BY <1>1 DEF WellFormed, WindowKept
<1> QED
  BY <1>5, <1>6, <1>9, <1>11 DEF WellFormed, h

-----------------------------------------------------------------------------
(* Writing a field of a member that keeps its guid moves no iterator. *)

LEMMA UpdateWellFormed ==
    ASSUME NEW g, WellFormed(g), NEW n \in Nodes(g), NEW m \in Member,
           m.user_guid = g.members_list[n].user_guid,
           NEW h, h = [g EXCEPT !.members_list = [g.members_list EXCEPT ![n] = m]]
    PROVE  WellFormed(h)
<1>0. IsGroup(g)
  BY DEF WellFormed
<1>1. /\ h.learder_guid = g.learder_guid
      /\ h.member_count = g.member_count
      /\ h.members_list = [g.members_list EXCEPT ![n] = m]
      /\ h.managers_map = g.managers_map
      /\ h.members_map = g.members_map
      /\ h.relic = g.relic
      /\ h.surplus = g.surplus
      /\ h.msg_list = g.msg_list
      /\ h.msg_limit = g.msg_limit
      /\ h = [learder_guid |-> h.learder_guid, member_count |-> h.member_count,
              members_list |-> h.members_list, managers_map |-> h.managers_map,
              members_map |-> h.members_map, relic |-> h.relic,
              surplus |-> h.surplus, msg_list |-> h.msg_list,
              msg_limit |-> h.msg_limit]
  BY <1>0 DEF IsGroup
<1>2. /\ Nodes(h) = Nodes(g)
      /\ Managers(h) = Managers(g)
      /\ Normals(h) = Normals(g)
  BY <1>0, <1>1 DEF Nodes, Managers, Normals, IsGroup, IsMap
<1>3. \A k \in Nodes(g) : h.members_list[k].user_guid = g.members_list[k].user_guid
  BY <1>0, <1>1 DEF Nodes, IsGroup, IsMap
<1>4. IsGroup(h)
  <2>1. IsMap(h.members_list, Node, Member)
    BY <1>0, <1>1 DEF IsGroup, IsMap, Nodes
  <2> QED
    BY <1>0, <1>1, <2>1 DEF IsGroup
<1>5. ASSUME RelicsIntact(h)
      PROVE  IndexSound(h) /\ IndexDisjoint(h)
  <2>1. IndexSound(g) /\ IndexDisjoint(g)
    BY <1>1, <1>5 DEF WellFormed, RelicsIntact
  <2>2. \A k : Holds(g, k) \in Nodes(g) => ShowsSame(h, g, k)
    BY <1>1, <1>2, <1>3 DEF Holds, ShowsSame
  <2>3. /\ \A x \in Managers(h) : ShowsSame(h, g, g.managers_map[x])
        /\ \A x \in Normals(h) : ShowsSame(h, g, g.members_map[x])
    BY <1>2, <2>1, <2>2, IndexSoundFacts
  <2> QED
    BY <1>1, <1>2, <2>1, <2>3, IndexInherited
<1> QED
  BY <1>1, <1>2, <1>4, <1>5 DEF WellFormed, CountMatchesList, WindowKept

LEMMA SetJobWellFormed ==
    ASSUME NEW g, WellFormed(g), NEW h, Holds(g, h) \in Nodes(g), NEW j \in JOB
    PROVE  WellFormed(SetJob(g, h, j))
<1> DEFINE n == Holds(g, h)
           m == [g.members_list[n] EXCEPT !.job = j]
<1>1. g.members_list[n] \in Member
  BY DEF WellFormed, IsGroup, IsMap, Nodes
<1>2. m \in Member /\ m.user_guid = g.members_list[n].user_guid
  BY <1>1 DEF Member
<1>3. SetJob(g, h, j) = [g EXCEPT !.members_list = [g.members_list EXCEPT ![n] = m]]
  BY DEF SetJob
<1> HIDE DEF n, m
<1> QED
  BY <1>2, <1>3, UpdateWellFormed DEF n

(* on_change_permissions *)
LEMMA ChangePermissionsWellFormed ==
    ASSUME NEW g, WellFormed(g), NEW op, NEW u, NEW p \in Permission,
           Readable(g, {Deletable(g, u)})
    PROVE  WellFormed(ChangePermissions(g, op, u, p))
<1> DEFINE n == Holds(g, Deletable(g, u))
           m == [g.members_list[n] EXCEPT !.permissions = p]
<1>1. n \in Nodes(g)
  BY DEF Readable
<1>2. g.members_list[n] \in Member
  BY <1>1 DEF WellFormed, IsGroup, IsMap, Nodes
<1>3. m \in Member /\ m.user_guid = g.members_list[n].user_guid
  BY <1>2 DEF Member
<1>4. ChangePermissions(g, op, u, p)
        = [g EXCEPT !.members_list = [g.members_list EXCEPT ![n] = m]]
  BY DEF ChangePermissions
<1> HIDE DEF n, m
<1> QED
  BY <1>1, <1>3, <1>4, UpdateWellFormed

-----------------------------------------------------------------------------
(* on_add_manager and on_delete_manager move one iterator between the maps. *)

LEMMA MoveWellFormed ==
    ASSUME NEW g, WellFormed(g), NEW u \in Guid, NEW h, NEW n \in Node,
           \/ /\ u \in Normals(g) /\ u \notin Managers(g) /\ n = g.members_map[u]
              /\ h = [g EXCEPT !.managers_map = Put(g.managers_map, u, n),
                               !.members_map = Erase(g.members_map, u)]
           \/ /\ u \in Managers(g) /\ u \notin Normals(g) /\ n = g.managers_map[u]
              /\ h = [g EXCEPT !.members_map = Put(g.members_map, u, n),
                               !.managers_map = Erase(g.managers_map, u)]
    PROVE  WellFormed(h)
<1>0. IsGroup(g)
  BY DEF WellFormed
<1>1. /\ h.learder_guid = g.learder_guid
      /\ h.member_count = g.member_count
      /\ h.members_list = g.members_list
      /\ h.relic = g.relic
      /\ h.surplus = g.surplus
      /\ h.msg_list = g.msg_list
      /\ h.msg_limit = g.msg_limit
      /\ h = [learder_guid |-> h.learder_guid, member_count |-> h.member_count,
              members_list |-> h.members_list, managers_map |-> h.managers_map,
              members_map |-> h.members_map, relic |-> h.relic,
              surplus |-> h.surplus, msg_list |-> h.msg_list,
              msg_limit |-> h.msg_limit]
  BY <1>0 DEF IsGroup
<1>2. \/ /\ h.managers_map = Put(g.managers_map, u, n)
         /\ h.members_map = Erase(g.members_map, u)
      \/ /\ h.members_map = Put(g.members_map, u, n)
         /\ h.managers_map = Erase(g.managers_map, u)
  BY <1>0 DEF IsGroup
<1>3. IsGroup(h)
  <2>2. IsMap(h.managers_map, Guid, Node) /\ IsMap(h.members_map, Guid, Node)
    BY <1>0, <1>2, PutIsMap, EraseIsMap DEF IsGroup
  <2> QED
    BY <1>0, <1>1, <2>2 DEF IsGroup
<1>4. /\ \A x \in Managers(h) : \/ x \in Managers(g) /\ h.managers_map[x] = g.managers_map[x]
                                \/ x = u /\ h.managers_map[x] = n /\ u \notin Normals(h)
      /\ \A x \in Normals(h) : \/ x \in Normals(g) /\ h.members_map[x] = g.members_map[x]
                               \/ x = u /\ h.members_map[x] = n /\ u \notin Managers(h)
  BY <1>2 DEF Managers, Normals, Put, Erase, Restrict
<1>5. ASSUME RelicsIntact(h)
      PROVE  IndexSound(h) /\ IndexDisjoint(h)
  <2>1. IndexSound(g) /\ IndexDisjoint(g)
    BY <1>1, <1>5 DEF WellFormed, RelicsIntact
  <2>2. Nodes(h) = Nodes(g) /\ \A k : Holds(h, k) = Holds(g, k)
    BY <1>1 DEF Nodes, Holds
  <2>3. Holds(g, n) \in Nodes(g) /\ g.members_list[Holds(g, n)].user_guid = u
    BY <2>1, IndexSoundFacts
  <2>4. IndexSound(h)
    BY <1>1, <1>4, <2>1, <2>2, <2>3, IndexSoundFacts
  <2>5. ASSUME NEW x \in Managers(h), NEW y \in Normals(h)
        PROVE  Holds(h, h.managers_map[x]) # Holds(h, h.members_map[y])
    <3>1. CASE x = y
      BY <1>4, <2>1, <2>2, <3>1 DEF IndexDisjoint
    <3>2. CASE x # y
      BY <1>1, <2>4, <3>2, IndexSoundFacts
    <3> QED
      BY <3>1, <3>2
  <2> QED
    BY <2>4, <2>5 DEF IndexDisjoint
<1> QED
  BY <1>1, <1>3, <1>5
     DEF WellFormed, CountMatchesList, WindowKept, Nodes

LEMMA SetJobFields ==
    ASSUME NEW g, IsGroup(g), NEW h, NEW j
    PROVE  /\ SetJob(g, h, j).managers_map = g.managers_map
           /\ SetJob(g, h, j).members_map = g.members_map
           /\ SetJob(g, h, j).learder_guid = g.learder_guid
BY DEF SetJob, IsGroup

LEMMA AddManagerWellFormed ==
    ASSUME NEW g, WellFormed(g), NEW op, NEW u \in Guid, CanAddManager(g, op, u),
           Readable(g, {g.members_map[u]})
    PROVE  WellFormed(AddManager(g, op, u))
<1> DEFINE n == g.members_map[u]
           k == SetJob(g, n, "manager")
<1>1. n \in Node /\ Holds(g, n) \in Nodes(g) /\ IsGroup(g)
  BY DEF WellFormed, IsGroup, IsMap, Normals, CanAddManager, Readable
<1>2. WellFormed(k)
  BY <1>1, SetJobWellFormed DEF JOB
<1>3. /\ k.managers_map = g.managers_map
      /\ k.members_map = g.members_map
  BY <1>1, SetJobFields
<1>4. AddManager(g, op, u) = [k EXCEPT !.managers_map = Put(k.managers_map, u, n),
                                       !.members_map = Erase(k.members_map, u)]
  BY <1>2 DEF AddManager, WellFormed, IsGroup
<1>5. u \in Normals(k) /\ u \notin Managers(k) /\ n = k.members_map[u]
  BY <1>3 DEF CanAddManager, Managers, Normals
<1> HIDE DEF k, n
<1> QED
  BY <1>1, <1>2, <1>4, <1>5, MoveWellFormed

LEMMA DeleteManagerWellFormed ==
    ASSUME NEW g, WellFormed(g), NEW op, NEW u \in Guid, CanDeleteManager(g, op, u),
           Readable(g, {g.managers_map[u]})
    PROVE  WellFormed(DeleteManager(g, op, u))
<1> DEFINE n == g.managers_map[u]
           k == SetJob(g, n, "member")
<1>1. n \in Node /\ Holds(g, n) \in Nodes(g) /\ IsGroup(g)
  BY DEF WellFormed, IsGroup, IsMap, Managers, CanDeleteManager, Readable
<1>2. WellFormed(k)
  BY <1>1, SetJobWellFormed DEF JOB
<1>3. /\ k.managers_map = g.managers_map
      /\ k.members_map = g.members_map
  BY <1>1, SetJobFields
<1>4. DeleteManager(g, op, u) = [k EXCEPT !.members_map = Put(k.members_map, u, n),
                                          !.managers_map = Erase(k.managers_map, u)]
  BY <1>2 DEF DeleteManager, WellFormed, IsGroup
<1>5. u \in Managers(k) /\ u \notin Normals(k) /\ n = k.managers_map[u]
  BY <1>3 DEF CanDeleteManager, Managers, Normals
<1> HIDE DEF k, n
<1> QED
  BY <1>1, <1>2, <1>4, <1>5, MoveWellFormed

-----------------------------------------------------------------------------
(* The leader and the history. *)

LEMMA SetLeaderWellFormed ==
    ASSUME NEW g, WellFormed(g), NEW u \in Guid
    PROVE  WellFormed(SetLeader(g, u))
<1>1. SetLeader(g, u)
        = [learder_guid |-> u, member_count |-> g.member_count,
           members_list |-> g.members_list, managers_map |-> g.managers_map,
           members_map |-> g.members_map, relic |-> g.relic,
           surplus |-> g.surplus, msg_list |-> g.msg_list, msg_limit |-> g.msg_limit]
  BY DEF SetLeader, WellFormed, IsGroup
<1> QED
  BY <1>1 DEF WellFormed, IsGroup, CountMatchesList, RelicsIntact, IndexSound,
              IndexDisjoint, WindowKept, Readable, Holds, Nodes, Managers, Normals

LEMMA NewGroupWellFormed ==
    ASSUME NEW u \in Guid
    PROVE  WellFormed(NewGroup(u))
<1>1. IsFiniteSet({}) /\ Cardinality({}) = 0
  BY FS_EmptySet
<1>2. DOMAIN EmptyMap = {}
  BY DEF EmptyMap
<1>3. /\ IsMap(EmptyMap, Node, Member)
      /\ IsMap(EmptyMap, Guid, Node)
      /\ IsMap(EmptyMap, Node, Node \cup {0})
  BY <1>2 DEF IsMap, EmptyMap
<1> QED
  BY <1>1, <1>2, <1>3, BoundsAssumption
     DEF NewGroup, WellFormed, IsGroup, CountMatchesList, IndexSound, IndexDisjoint,
         WindowKept, Nodes, Managers, Normals

(* A history of another length, with msg_limit to match. *)
LEMMA HistoryWellFormed ==
    ASSUME NEW g, WellFormed(g), NEW s \in Seq(0 .. NumMod - 1),
           Len(s) <= GroupMsgsMaxLen, NEW l, l = Len(s),
           NEW h, h = [g EXCEPT !.msg_list = s, !.msg_limit = l]
    PROVE  WellFormed(h)
<1>1. h = [learder_guid |-> g.learder_guid, member_count |-> g.member_count,
           members_list |-> g.members_list, managers_map |-> g.managers_map,
           members_map |-> g.members_map, relic |-> g.relic,
           surplus |-> g.surplus, msg_list |-> s, msg_limit |-> l]
  BY DEF WellFormed, IsGroup
<1>2. IsGroup(h)
  <2>1. l \in Nat
    BY EmptySeq, LenProperties
  <2> QED
    BY <1>1, <2>1 DEF WellFormed, IsGroup
<1>3. WindowKept(h)
  BY <1>1 DEF WindowKept
<1>4. CountMatchesList(h)
  BY <1>1 DEF WellFormed, CountMatchesList, Nodes
<1>5. RelicsIntact(h) => IndexSound(h) /\ IndexDisjoint(h)
  BY <1>1 DEF WellFormed, RelicsIntact, IndexSound, IndexDisjoint, Readable, Holds,
              Nodes, Managers, Normals
<1> QED
  BY <1>2, <1>3, <1>4, <1>5 DEF WellFormed

LEMMA AddMsgWellFormed ==
    ASSUME NEW g, WellFormed(g), NEW num \in 0 .. NumMod - 1
    PROVE  WellFormed(AddMsg(g, num))
<1> DEFINE given == IF num = 0 THEN NextNum(g.msg_list) ELSE num
           long == Append(g.msg_list, given)
           full == g.msg_limit + 1 > GroupMsgsMaxLen
           l == IF full THEN g.msg_limit ELSE g.msg_limit + 1
           kept == IF full THEN Tail(long) ELSE long
<1>1. /\ g.msg_list \in Seq(0 .. NumMod - 1)
      /\ g.msg_limit = Len(g.msg_list)
      /\ Len(g.msg_list) <= GroupMsgsMaxLen
      /\ Len(g.msg_list) \in Nat
  BY DEF WellFormed, IsGroup, WindowKept
<1>2. NextNum(g.msg_list) \in 0 .. NumMod - 1
  <2>1. CASE g.msg_list = << >>
    BY <2>1, BoundsAssumption DEF NextNum
  <2>2. CASE g.msg_list # << >>
    <3>1. g.msg_list[Len(g.msg_list)] \in 0 .. NumMod - 1
      <4>1. Len(g.msg_list) \in 1 .. Len(g.msg_list)
        BY <1>1, <2>2, EmptySeq
      <4> QED
        BY <1>1, <4>1, ElementOfSeq
    <3>2. NumMod \in Nat /\ NumMod > 0
      BY BoundsAssumption
    <3> QED
      BY <2>2, <3>1, <3>2 DEF NextNum
  <2> QED
    BY <2>1, <2>2
<1>3. given \in 0 .. NumMod - 1
  BY <1>2
<1> HIDE DEF given
<1>4. long \in Seq(0 .. NumMod - 1) /\ Len(long) = Len(g.msg_list) + 1
  BY <1>1, <1>3, AppendProperties
<1>5. /\ kept \in Seq(0 .. NumMod - 1)
      /\ Len(kept) = l
      /\ l <= GroupMsgsMaxLen
  <2> HIDE DEF long
  <2>1. long # << >>
    BY <1>1, <1>4
  <2>2. Tail(long) \in Seq(0 .. NumMod - 1) /\ Len(Tail(long)) = Len(g.msg_list)
    BY <1>1, <1>4, <2>1, HeadTailProperties
  <2>3. GroupMsgsMaxLen \in Nat
    BY BoundsAssumption
  <2>4. CASE full
    BY <1>1, <2>2, <2>4
  <2>5. CASE ~full
    BY <1>1, <1>4, <2>3, <2>5
  <2> QED
    BY <2>4, <2>5
<1>6. AddMsg(g, num) = [g EXCEPT !.msg_list = kept, !.msg_limit = l]
  BY DEF AddMsg, given, WellFormed, IsGroup
<1> HIDE DEF kept, l
<1> QED
  BY <1>5, <1>6, HistoryWellFormed

LEMMA ClearMsgWellFormed ==
    ASSUME NEW g, WellFormed(g)
    PROVE  WellFormed(ClearMsg(g))
<1>1. << >> \in Seq(0 .. NumMod - 1) /\ Len(<< >>) = 0 /\ 0 <= GroupMsgsMaxLen
  BY BoundsAssumption
<1>2. ClearMsg(g) = [g EXCEPT !.msg_list = << >>, !.msg_limit = 0]
  BY DEF ClearMsg
<1> QED
  BY <1>1, <1>2, HistoryWellFormed

LEMMA DeleteMsgWellFormed ==
    ASSUME NEW g, WellFormed(g), NEW num
    PROVE  WellFormed(DeleteMsg(g, num))
<1> DEFINE s == g.msg_list
           at == {i \in 1 .. Len(s) : s[i] = num}
           last == CHOOSE i \in at : \A j \in at : j <= i
           t == [i \in 1 .. Len(s) - 1 |-> IF i < last THEN s[i] ELSE s[i + 1]]
<1>1. /\ s \in Seq(0 .. NumMod - 1)
      /\ g.msg_limit = Len(s)
      /\ Len(s) <= GroupMsgsMaxLen
      /\ Len(s) \in Nat
  BY DEF WellFormed, IsGroup, WindowKept
<1>2. CASE at = {}
  BY <1>2 DEF DeleteMsg
<1>3. CASE at # {}
  <2>1. Len(s) - 1 \in Nat
    BY <1>1, <1>3
  <2>2. \A i \in 1 .. Len(s) - 1 : s[i] \in 0 .. NumMod - 1 /\ s[i + 1] \in 0 .. NumMod - 1
    <3> SUFFICES ASSUME NEW i \in 1 .. Len(s) - 1
                 PROVE  s[i] \in 0 .. NumMod - 1 /\ s[i + 1] \in 0 .. NumMod - 1
      OBVIOUS
    <3>1. i \in 1 .. Len(s) /\ i + 1 \in 1 .. Len(s)
      BY <1>1
    <3> QED
      BY <1>1, <3>1, ElementOfSeq
  <2>3. t \in Seq(0 .. NumMod - 1) /\ Len(t) = Len(s) - 1
    <3>1. t \in [1 .. Len(s) - 1 -> 0 .. NumMod - 1]
      BY <2>2
    <3>2. DOMAIN t = 1 .. Len(s) - 1
      OBVIOUS
    <3> HIDE DEF t
    <3>3. t \in Seq(0 .. NumMod - 1)
      BY <2>1, <3>1, SeqDef
    <3> QED
      BY <2>1, <3>2, <3>3, LenProperties
  <2>4. DeleteMsg(g, num) = [g EXCEPT !.msg_list = t, !.msg_limit = Len(s) - 1]
    BY <1>1, <1>3 DEF DeleteMsg, WellFormed, IsGroup
  <2> HIDE DEF t
  <2>5. Len(s) - 1 <= GroupMsgsMaxLen
    BY <1>1, BoundsAssumption
  <2> QED
    BY <2>3, <2>4, <2>5, HistoryWellFormed
<1> QED
  BY <1>2, <1>3

-----------------------------------------------------------------------------
(* Groups from the wire. *)

LEMMA LastOfFacts ==
    ASSUME NEW roster \in Seq(Member), NEW at \in SUBSET (1 .. Len(roster)),
           NEW u \in DOMAIN LastOf(roster, at)
    PROVE  /\ LastOf(roster, at)[u] \in at
           /\ roster[LastOf(roster, at)[u]].user_guid = u
           /\ u \in Guid
<1> DEFINE mine == {i \in at : roster[i].user_guid = u}
<1>1. mine \subseteq 1 .. Len(roster) /\ mine # {} /\ Len(roster) \in Nat
  BY LenProperties DEF LastOf
<1>2. \E m \in mine : \A j \in mine : j <= m
  BY <1>1, LargestExists
<1>3. \E i \in at : /\ roster[i].user_guid = u
                    /\ \A j \in at : roster[j].user_guid = u => j <= i
  BY <1>2
<1>4. /\ LastOf(roster, at)[u] \in at
      /\ roster[LastOf(roster, at)[u]].user_guid = u
  BY <1>3 DEF LastOf
<1>5. roster[LastOf(roster, at)[u]] \in Member
  BY <1>4, ElementOfSeq
<1> QED
  BY <1>4, <1>5 DEF Member

(* from_data reads as many entries as it was told there are, or as came.   *)
LEMMA FromDataRoster ==
    ASSUME NEW sent \in Seq(Member), NEW count \in Nat
    PROVE  LET roster == SubSeq(sent, 1, IF count < Len(sent) THEN count ELSE Len(sent))
           IN  /\ roster \in Seq(Member)
               /\ Len(roster) \in Nat
               /\ Len(roster) <= Len(sent)
               /\ Len(roster) <= count
               /\ \A i \in 1 .. Len(roster) : i \in 1 .. Len(sent) /\ roster[i] = sent[i]
<1> DEFINE n == IF count < Len(sent) THEN count ELSE Len(sent)
           roster == SubSeq(sent, 1, n)
<1>1. Len(sent) \in Nat /\ DOMAIN sent = 1 .. Len(sent)
  BY LenProperties
<1>2. n \in Nat /\ n <= Len(sent) /\ n <= count
  BY <1>1
<1> HIDE DEF n
<1>3. \A i \in 1 .. n : sent[i] \in Member
  BY <1>1, <1>2, ElementOfSeq
<1>4. /\ roster \in Seq(Member)
      /\ Len(roster) = n
      /\ \A i \in 1 .. n : roster[i] = sent[i]
  <2>1. 1 .. n \subseteq DOMAIN sent
    BY <1>1, <1>2
  <2> QED
    BY <1>2, <1>3, <2>1, SubSeqProperties
<1> QED
  BY <1>1, <1>2, <1>4 DEF n

LEMMA FromDataWellFormed ==
    ASSUME NEW leader \in Guid, NEW sent \in Seq(Member), Len(sent) <= MaxNodes,
           NEW count \in Nat
    PROVE  /\ WellFormed(FromData(leader, sent, count))
           /\ Nodes(FromData(leader, sent, count)) \subseteq 1 .. MaxNodes
<1> DEFINE g == FromData(leader, sent, count)
           roster == SubSeq(sent, 1, IF count < Len(sent) THEN count ELSE Len(sent))
           chiefs == {i \in 1 .. Len(roster) : roster[i].job # "member"}
           others == (1 .. Len(roster)) \ chiefs
<1>0. /\ roster \in Seq(Member) /\ Len(roster) \in Nat
      /\ Len(roster) <= MaxNodes /\ Len(roster) <= count
  <2>1. Len(sent) \in Nat
    BY LenProperties
  <2> QED
    BY <2>1, FromDataRoster, BoundsAssumption
<1>1. g = [learder_guid |-> leader, member_count |-> count,
           members_list |-> [i \in 1 .. Len(roster) |-> roster[i]],
           managers_map |-> LastOf(roster, chiefs),
           members_map |-> LastOf(roster, others), relic |-> EmptyMap,
           surplus |-> count - Len(roster), msg_list |-> << >>, msg_limit |-> 0]
  BY Zenon DEF FromData
<1>2. /\ chiefs \in SUBSET (1 .. Len(roster))
      /\ others \in SUBSET (1 .. Len(roster))
      /\ chiefs \cap others = {}
  OBVIOUS
<1> HIDE DEF g, roster, chiefs, others
<1>3. /\ Nodes(g) = 1 .. Len(roster)
      /\ \A i \in 1 .. Len(roster) : g.members_list[i] = roster[i]
  BY <1>1 DEF Nodes
<1>4. \A u \in Managers(g) : /\ g.managers_map[u] \in chiefs
                             /\ roster[g.managers_map[u]].user_guid = u
                             /\ u \in Guid
  BY <1>0, <1>1, <1>2, LastOfFacts DEF Managers
<1>5. \A u \in Normals(g) : /\ g.members_map[u] \in others
                            /\ roster[g.members_map[u]].user_guid = u
                            /\ u \in Guid
  BY <1>0, <1>1, <1>2, LastOfFacts DEF Normals
<1>6. IsGroup(g)
  <2>1. 1 .. Len(roster) \subseteq Node
    BY <1>0, BoundsAssumption DEF Node
  <2>2. IsMap(g.members_list, Node, Member)
    <3>1. \A i \in 1 .. Len(roster) : roster[i] \in Member
      BY <1>0, ElementOfSeq
    <3> QED
      BY <1>1, <2>1, <3>1 DEF IsMap
  <2>3. IsMap(g.managers_map, Guid, Node)
    <3>1. g.managers_map = [u \in Managers(g) |-> g.managers_map[u]]
      BY <1>1 DEF Managers, LastOf
    <3> QED
      BY <1>2, <1>4, <2>1, <3>1 DEF IsMap, Managers
  <2>4. IsMap(g.members_map, Guid, Node)
    <3>1. g.members_map = [u \in Normals(g) |-> g.members_map[u]]
      BY <1>1 DEF Normals, LastOf
    <3> QED
      BY <1>2, <1>5, <2>1, <3>1 DEF IsMap, Normals
  <2>5. << >> \in Seq(0 .. NumMod - 1)
    BY EmptySeq
  <2>6. IsMap(g.relic, Node, Node \cup {0})
    BY <1>1 DEF IsMap, EmptyMap
  <2>7. g.surplus \in Nat
    BY <1>0, <1>1
  <2> QED
    BY <1>1, <2>2, <2>3, <2>4, <2>5, <2>6, <2>7 DEF IsGroup
<1>7. CountMatchesList(g)
  <2>1. Cardinality(1 .. Len(roster)) = Len(roster)
    <3>1. ASSUME NEW n \in Nat PROVE Cardinality(1 .. n) = n
      BY FS_Interval
    <3> QED
      BY <1>0, <3>1
  <2>2. g.member_count = Len(roster) + g.surplus
    BY <1>0, <1>1
  <2> QED
    BY <1>3, <2>1, <2>2 DEF CountMatchesList
<1>8. /\ \A u \in Managers(g) : /\ g.managers_map[u] \in Nodes(g)
                                 /\ Holds(g, g.managers_map[u]) = g.managers_map[u]
      /\ \A u \in Normals(g) : /\ g.members_map[u] \in Nodes(g)
                                /\ Holds(g, g.members_map[u]) = g.members_map[u]
  <2>1. chiefs \subseteq Nodes(g) /\ others \subseteq Nodes(g)
    BY <1>2, <1>3
  <2> QED
    BY <1>4, <1>5, <2>1 DEF Holds
<1>9. IndexSound(g)
  BY <1>3, <1>4, <1>5, <1>8, IndexSoundFacts
<1>10. IndexDisjoint(g)
  <2> SUFFICES ASSUME NEW u \in Managers(g), NEW v \in Normals(g)
               PROVE  Holds(g, g.managers_map[u]) # Holds(g, g.members_map[v])
    BY DEF IndexDisjoint
  <2>1. g.managers_map[u] \in chiefs /\ g.members_map[v] \in others
    BY <1>4, <1>5
  <2> QED
    BY <1>2, <1>8, <2>1
<1>11. WindowKept(g)
  BY <1>1, BoundsAssumption DEF WindowKept
<1>12. Nodes(g) \subseteq 1 .. MaxNodes
  BY <1>0, <1>3, BoundsAssumption
<1> QED
  BY <1>6, <1>7, <1>9, <1>10, <1>11, <1>12 DEF WellFormed, g

LEMMA NormalisedWellFormed ==
    ASSUME NEW g, WellFormed(g), NEW known
    PROVE  /\ WellFormed(Normalised(g, known))
           /\ Nodes(Normalised(g, known)) = Nodes(g)
<1> DEFINE visited == VisitedNodes(g, known)
           Normal(u) == JoiningMember(u, IF u = g.learder_guid THEN "leader" ELSE "member")
           list == [n \in Nodes(g) |-> IF n \in visited
                                       THEN Normal(g.members_list[n].user_guid)
                                       ELSE g.members_list[n]]
           h == Normalised(g, known)
<1>1. h = [learder_guid |-> g.learder_guid, member_count |-> g.member_count,
           members_list |-> list, managers_map |-> g.managers_map,
           members_map |-> g.members_map, relic |-> g.relic,
           surplus |-> g.surplus, msg_list |-> g.msg_list, msg_limit |-> g.msg_limit]
  BY DEF Normalised, WellFormed, IsGroup, Nodes
<1>2. \A n \in Nodes(g) : g.members_list[n] \in Member
  BY DEF WellFormed, IsGroup, IsMap, Nodes
<1>3. \A u \in Guid : Normal(u) \in Member /\ Normal(u).user_guid = u
  BY BoundsAssumption
     DEF JoiningMember, Member, Permission, JOB, SEND_TO_ALL, SEND_TO_GROUP,
         CANT_SEND_MSG
<1>4. \A n \in Nodes(g) : g.members_list[n].user_guid \in Guid
  BY <1>2 DEF Member
<1> HIDE DEF h, visited, Normal
<1>5. \A n \in Nodes(g) : /\ list[n] \in Member
                          /\ list[n].user_guid = g.members_list[n].user_guid
  BY <1>2, <1>3, <1>4
<1>6. DOMAIN list = Nodes(g)
  OBVIOUS
<1>7. IsMap(list, Node, Member)
  BY <1>5 DEF IsMap, WellFormed, IsGroup, Nodes
<1> HIDE DEF list
<1>8. IsGroup(h)
  BY <1>1, <1>7 DEF WellFormed, IsGroup
<1>9. ASSUME RelicsIntact(h)
      PROVE  IndexSound(h) /\ IndexDisjoint(h)
  <2>1. IndexSound(g) /\ IndexDisjoint(g)
    BY <1>1, <1>9 DEF WellFormed, RelicsIntact
  <2>2. \A k : Holds(g, k) \in Nodes(g) => ShowsSame(h, g, k)
    BY <1>1, <1>5, <1>6 DEF Holds, ShowsSame, Nodes
  <2>3. /\ Managers(h) = Managers(g) /\ h.managers_map = g.managers_map
        /\ Normals(h) = Normals(g) /\ h.members_map = g.members_map
    BY <1>1 DEF Managers, Normals
  <2>4. /\ \A x \in Managers(h) : ShowsSame(h, g, g.managers_map[x])
        /\ \A x \in Normals(h) : ShowsSame(h, g, g.members_map[x])
    BY <2>1, <2>2, <2>3, IndexSoundFacts
  <2> QED
    BY <2>1, <2>3, <2>4, IndexInherited
<1>10. CountMatchesList(h) /\ WindowKept(h) /\ Nodes(h) = Nodes(g)
  BY <1>1, <1>6 DEF WellFormed, CountMatchesList, WindowKept, Nodes
<1> QED
  BY <1>8, <1>9, <1>10 DEF WellFormed, h

LEMMA CopyWellFormed ==
    ASSUME NEW g, WellFormed(g), IndexSound(g), IndexDisjoint(g),
           Nodes(g) \subseteq 1 .. MaxNodes,
           \A u \in Managers(g) : g.managers_map[u] \in Nodes(g),
           \A u \in Normals(g) : g.members_map[u] \in Nodes(g)
    PROVE  WellFormed(CopyOf(g))
<1> DEFINE h == CopyOf(g)
           old == {n + MaxNodes : n \in Nodes(g)}
<1>0. IsGroup(g) /\ MaxNodes \in Nat /\ Node = 1 .. 2 * MaxNodes
  BY BoundsAssumption DEF WellFormed, Node
<1>1. h = [learder_guid |-> g.learder_guid, member_count |-> g.member_count,
           members_list |-> g.members_list,
           managers_map |-> [u \in Managers(g) |-> g.managers_map[u] + MaxNodes],
           members_map |-> [u \in Normals(g) |-> g.members_map[u] + MaxNodes],
           relic |-> [k \in old |-> k - MaxNodes],
           surplus |-> g.surplus, msg_list |-> g.msg_list,
           msg_limit |-> g.msg_limit]
  <2>1. h = [g EXCEPT !.managers_map = [u \in Managers(g) |-> g.managers_map[u] + MaxNodes],
                      !.members_map = [u \in Normals(g) |-> g.members_map[u] + MaxNodes],
                      !.relic = [k \in old |-> k - MaxNodes]]
    BY Zenon DEF CopyOf, Managers, Normals
  <2> HIDE DEF h, old
  <2> QED
    BY <1>0, <2>1 DEF IsGroup
<1>2. \A n \in Nodes(g) : /\ n \in Node
                           /\ n + MaxNodes \in Node
                           /\ n + MaxNodes \notin Nodes(g)
                           /\ (n + MaxNodes) - MaxNodes = n
  BY <1>0
<1>3. Nodes(h) = Nodes(g) /\ Managers(h) = Managers(g) /\ Normals(h) = Normals(g)
  BY <1>1 DEF Nodes, Managers, Normals
<1>4. \A n \in Nodes(g) : Holds(g, n) = n /\ Holds(h, n + MaxNodes) = n
  BY <1>1, <1>2, <1>3 DEF Holds
<1>5. IsGroup(h)
  <2>1. IsMap(h.managers_map, Guid, Node) /\ IsMap(h.members_map, Guid, Node)
    BY <1>0, <1>1, <1>2 DEF IsGroup, IsMap, Managers, Normals
  <2>2. IsMap(h.relic, Node, Node \cup {0})
    BY <1>1, <1>2 DEF IsMap
  <2> QED
    BY <1>0, <1>1, <2>1, <2>2 DEF IsGroup
<1>6. /\ \A u \in Managers(g) : Holds(h, h.managers_map[u]) = Holds(g, g.managers_map[u])
      /\ \A u \in Normals(g) : Holds(h, h.members_map[u]) = Holds(g, g.members_map[u])
  BY <1>1, <1>4
<1>7. IndexSound(h)
  BY <1>1, <1>3, <1>6, IndexSoundFacts
<1>8. IndexDisjoint(h)
  BY <1>3, <1>6 DEF IndexDisjoint
<1>9. CountMatchesList(h) /\ WindowKept(h)
  BY <1>1, <1>3 DEF WellFormed, CountMatchesList, WindowKept
<1> HIDE DEF h
<1> QED
  BY <1>5, <1>7, <1>8, <1>9 DEF WellFormed, h

(* on_group_add: parsed, normalised and copied, a group is well-formed: what *)
(* is read through the freed memory is the member of the copy, as long as    *)
(* that memory is left alone.                                              *)
LEMMA CreatedWellFormed ==
    ASSUME NEW leader \in Guid, NEW sent \in Seq(Member), Len(sent) <= MaxNodes,
           NEW count \in Nat, NEW known
    PROVE  WellFormed(CopyOf(Normalised(FromData(leader, sent, count), known)))
<1> DEFINE f == FromData(leader, sent, count)
           g == Normalised(f, known)
<1>1. WellFormed(f) /\ Nodes(f) \subseteq 1 .. MaxNodes
  BY FromDataWellFormed
<1>2. DOMAIN f.relic = {}
  BY Zenon DEF FromData, EmptyMap
<1>3. g.relic = f.relic
  BY <1>1 DEF Normalised, WellFormed, IsGroup
<1> HIDE DEF f
<1>4. WellFormed(g) /\ Nodes(g) = Nodes(f)
  BY <1>1, NormalisedWellFormed
<1> HIDE DEF g
<1>5. IndexSound(g) /\ IndexDisjoint(g)
  BY <1>2, <1>3, <1>4 DEF WellFormed, RelicsIntact
<1>6. 0 \notin Nodes(g)
  BY <1>1, <1>4
<1>7. \A k : Holds(g, k) \in Nodes(g) => k \in Nodes(g)
  BY <1>2, <1>3, <1>6 DEF Holds
<1>8. WellFormed(CopyOf(g))
  BY <1>1, <1>4, <1>5, <1>7, IndexSoundFacts, CopyWellFormed
<1> QED
  BY <1>8 DEF f, g

-----------------------------------------------------------------------------
(* Who is in a group, and who leads it, after each method. *)

(* h has the members, and the leader, of g. *)
SameMembers(h, g) == /\ \A v : InGroup(h, v) <=> InGroup(g, v)
                     /\ h.learder_guid = g.learder_guid

LEMMA SameMapsSameMembers ==
    ASSUME NEW g, NEW h, h.managers_map = g.managers_map, h.members_map = g.members_map,
           h.learder_guid = g.learder_guid
    PROVE  SameMembers(h, g)
BY DEF SameMembers, InGroup, Managers, Normals

LEMMA AddMemberMembers ==
    ASSUME NEW g, IsGroup(g), NEW op, NEW u, NEW n
    PROVE  /\ \A v : InGroup(AddMember(g, op, u, n), v) <=> InGroup(g, v) \/ v = u
           /\ AddMember(g, op, u, n).learder_guid = g.learder_guid
<1> DEFINE h == AddMember(g, op, u, n)
           leads == op = 0 /\ u = g.learder_guid
<1>1. /\ h.managers_map = IF leads THEN Put(g.managers_map, u, n) ELSE g.managers_map
      /\ h.members_map = IF leads THEN g.members_map ELSE Put(g.members_map, u, n)
      /\ h.learder_guid = g.learder_guid
  BY AddMemberFields
<1> HIDE DEF h, leads
<1>2. \/ Managers(h) = Managers(g) \cup {u} /\ Normals(h) = Normals(g)
      \/ Managers(h) = Managers(g) /\ Normals(h) = Normals(g) \cup {u}
  BY <1>1 DEF Managers, Normals, Put
<1> QED
  BY <1>1, <1>2 DEF InGroup, h

LEMMA DeleteMemberMembers ==
    ASSUME NEW g, IsGroup(g), NEW op, NEW u
    PROVE  /\ \A v : InGroup(DeleteMember(g, op, u), v) => InGroup(g, v)
           /\ \A v : v # u /\ InGroup(g, v) => InGroup(DeleteMember(g, op, u), v)
           /\ DeleteMember(g, op, u).learder_guid = g.learder_guid
<1> DEFINE h == DeleteMember(g, op, u)
<1>1. /\ h.managers_map = IF u \in Managers(g) THEN Erase(g.managers_map, u)
                                               ELSE g.managers_map
      /\ h.members_map = IF u \in Managers(g) THEN g.members_map
                                              ELSE Erase(g.members_map, u)
      /\ h.learder_guid = g.learder_guid
  BY DeleteMemberFields
<1> HIDE DEF h
<1>2. \/ Managers(h) = Managers(g) \ {u} /\ Normals(h) = Normals(g)
      \/ Managers(h) = Managers(g) /\ Normals(h) = Normals(g) \ {u}
  BY <1>1 DEF Managers, Normals, Erase, Restrict
<1> QED
  BY <1>1, <1>2 DEF InGroup, h

(* A promotion and a demotion move u from one map to the other. *)
LEMMA AddManagerMembers ==
    ASSUME NEW g, IsGroup(g), NEW op, NEW u, CanAddManager(g, op, u)
    PROVE  SameMembers(AddManager(g, op, u), g)
<1> DEFINE h == AddManager(g, op, u)
<1>1. /\ h.managers_map = Put(g.managers_map, u, g.members_map[u])
      /\ h.members_map = Erase(g.members_map, u)
      /\ h.learder_guid = g.learder_guid
  BY DEF AddManager, SetJob, IsGroup
<1> HIDE DEF h
<1>2. Managers(h) = Managers(g) \cup {u} /\ Normals(h) = Normals(g) \ {u}
  BY <1>1 DEF Managers, Normals, Put, Erase, Restrict
<1> QED
  BY <1>1, <1>2 DEF CanAddManager, SameMembers, InGroup, h

LEMMA DeleteManagerMembers ==
    ASSUME NEW g, IsGroup(g), NEW op, NEW u, CanDeleteManager(g, op, u)
    PROVE  SameMembers(DeleteManager(g, op, u), g)
<1> DEFINE h == DeleteManager(g, op, u)
<1>1. /\ h.managers_map = Erase(g.managers_map, u)
      /\ h.members_map = Put(g.members_map, u, g.managers_map[u])
      /\ h.learder_guid = g.learder_guid
  BY DEF DeleteManager, SetJob, IsGroup
<1> HIDE DEF h
<1>2. Managers(h) = Managers(g) \ {u} /\ Normals(h) = Normals(g) \cup {u}
  BY <1>1 DEF Managers, Normals, Put, Erase, Restrict
<1> QED
  BY <1>1, <1>2 DEF CanDeleteManager, SameMembers, InGroup, h

(* A permission and the history leave the maps alone, and the copy has the  *)
(* same keys.                                                              *)
LEMMA OtherMethodsMembers ==
    ASSUME NEW g, IsGroup(g), NEW op, NEW u, NEW p, NEW num, NEW known
    PROVE  /\ SameMembers(ChangePermissions(g, op, u, p), g)
           /\ SameMembers(AddMsg(g, num), g)
           /\ SameMembers(DeleteMsg(g, num), g)
           /\ SameMembers(ClearMsg(g), g)
           /\ SameMembers(Normalised(g, known), g)
           /\ SameMembers(CopyOf(g), g)
<1>1. SameMembers(ChangePermissions(g, op, u, p), g)
  BY SameMapsSameMembers DEF ChangePermissions, IsGroup
<1>2. SameMembers(AddMsg(g, num), g)
  BY SameMapsSameMembers DEF AddMsg, IsGroup
<1>3. SameMembers(DeleteMsg(g, num), g)
  BY SameMapsSameMembers DEF DeleteMsg, IsGroup
<1>4. SameMembers(ClearMsg(g), g)
  BY SameMapsSameMembers DEF ClearMsg, IsGroup
<1>6. SameMembers(CopyOf(g), g)
  BY DEF CopyOf, SameMembers, InGroup, Managers, Normals, IsGroup
<1>5. SameMembers(Normalised(g, known), g)
  BY SameMapsSameMembers DEF Normalised, IsGroup
<1> QED
  BY <1>1, <1>2, <1>3, <1>4, <1>5, <1>6

(* Whoever leads it, the same people are in it. *)
LEMMA SetLeaderMembers ==
    ASSUME NEW g, IsGroup(g), NEW u
    PROVE  /\ \A v : InGroup(SetLeader(g, u), v) <=> InGroup(g, v)
           /\ SetLeader(g, u).learder_guid = u
BY DEF SetLeader, IsGroup, InGroup, Managers, Normals

(* A parsed group has the people of its roster in it. *)
LEMMA FromDataMembers ==
    ASSUME NEW leader, NEW sent \in Seq(Member), NEW count \in Nat
    PROVE  /\ \A v : InGroup(FromData(leader, sent, count), v)
                      => \E i \in 1 .. Len(sent) : sent[i].user_guid = v
           /\ FromData(leader, sent, count).learder_guid = leader
<1> DEFINE roster == SubSeq(sent, 1, IF count < Len(sent) THEN count ELSE Len(sent))
           chiefs == {i \in 1 .. Len(roster) : roster[i].job # "member"}
           others == (1 .. Len(roster)) \ chiefs
           g == FromData(leader, sent, count)
<1>1. /\ g.managers_map = LastOf(roster, chiefs)
      /\ g.members_map = LastOf(roster, others)
      /\ g.learder_guid = leader
  BY DEF FromData
<1>2. /\ chiefs \subseteq 1 .. Len(roster)
      /\ others \subseteq 1 .. Len(roster)
  OBVIOUS
<1>3. \A i \in 1 .. Len(roster) : i \in 1 .. Len(sent) /\ roster[i] = sent[i]
  BY FromDataRoster
<1> HIDE DEF g, roster, chiefs, others
<1>4. /\ Managers(g) = {roster[i].user_guid : i \in chiefs}
      /\ Normals(g) = {roster[i].user_guid : i \in others}
  BY <1>1 DEF Managers, Normals, LastOf
<1>5. \A v : InGroup(g, v) => \E i \in 1 .. Len(sent) : sent[i].user_guid = v
  BY <1>2, <1>3, <1>4 DEF InGroup
<1> QED
  BY <1>1, <1>5 DEF g

=============================================================================
