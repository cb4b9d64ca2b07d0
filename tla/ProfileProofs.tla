---------------------------- MODULE ProfileProofs ----------------------------
(***************************************************************************)
(* Two facts about an account, for any keys, lengths and numbers: the      *)
(* history of private messages is a window of user_msgs_max_len, and       *)
(* data_len, which five methods adjust by hand, is the length of the text  *)
(* that to_data writes.  For the second, the text is counted byte by byte: *)
(* the entry of a key is a set of StrText bytes that is disjoint from the  *)
(* bytes of all other keys, so that setting or deleting it moves the       *)
(* length by just that much.                                               *)
(***************************************************************************)
EXTENDS Profile, FiniteSetTheorems, TLAPS

-----------------------------------------------------------------------------
(* The history. *)

Nums == 0 .. NumMod - 1
HistoryInv == msgs \in Seq(Nums) /\ msg_map_limit \in Nat /\ HistoryWindow

LEMMA AddKeeps == ASSUME HistoryInv, NEW num \in Nums, OnAddMsg(num) PROVE HistoryInv'
  <1>1. CASE UNCHANGED history
    BY <1>1 DEF history, HistoryInv, HistoryWindow
  <1>2. ASSUME NEW n \in (IF num # 0 THEN {num} ELSE NextNums),
               IF msg_map_limit + 1 > UserMsgsMaxLen
               THEN msgs' = Tail(Append(msgs, n)) /\ UNCHANGED msg_map_limit
               ELSE msgs' = Append(msgs, n) /\ msg_map_limit' = msg_map_limit + 1
        PROVE  HistoryInv'
    <2>1. n \in Nums
      <3>1. CASE num # 0
        BY <1>2, <3>1
      <3>2. CASE num = 0 /\ ~ has_list
        BY <1>2, <3>2, ProfileAssumption DEF NextNums, Nums
      <3>3. CASE num = 0 /\ has_list /\ msgs = <<>>
        BY <1>2, <3>3 DEF NextNums, Nums
      <3>4. CASE num = 0 /\ has_list /\ msgs # <<>>
        BY <1>2, <3>4, ProfileAssumption DEF NextNums, HistoryInv, Nums
      <3> QED
        BY <3>1, <3>2, <3>3, <3>4
    <2>2. /\ Append(msgs, n) \in Seq(Nums) /\ Len(Append(msgs, n)) = Len(msgs) + 1
          /\ Tail(Append(msgs, n)) \in Seq(Nums)
          /\ Len(Tail(Append(msgs, n))) = Len(msgs) /\ Len(msgs) \in Nat
      BY <2>1 DEF HistoryInv
    <2>3. CASE msg_map_limit + 1 > UserMsgsMaxLen
      BY <1>2, <2>2, <2>3, ProfileAssumption DEF HistoryInv, HistoryWindow
    <2>4. CASE ~ (msg_map_limit + 1 > UserMsgsMaxLen)
      BY <1>2, <2>2, <2>4, ProfileAssumption DEF HistoryInv, HistoryWindow
    <2> QED
      BY <2>3, <2>4
  <1> QED
    BY <1>1, <1>2 DEF OnAddMsg

LEMMA DeleteKeeps ==
    ASSUME HistoryInv, NEW num \in Nums, OnDeleteMsg(num) PROVE HistoryInv'
  <1>1. PICK i \in DOMAIN msgs : msgs' = SubSeq(msgs, 1, i - 1) \o SubSeq(msgs, i + 1, Len(msgs))
    BY DEF OnDeleteMsg
  <1>2. msgs \in Seq(Nums) /\ i \in 1 .. Len(msgs) /\ Len(msgs) \in Nat
    BY DEF HistoryInv
  <1>3. /\ SubSeq(msgs, 1, i - 1) \in Seq(Nums) /\ Len(SubSeq(msgs, 1, i - 1)) = i - 1
        /\ SubSeq(msgs, i + 1, Len(msgs)) \in Seq(Nums)
        /\ Len(SubSeq(msgs, i + 1, Len(msgs))) = Len(msgs) - i
    BY <1>2
  <1>4. msgs' \in Seq(Nums) /\ Len(msgs') = Len(msgs) - 1
    <2> DEFINE front == SubSeq(msgs, 1, i - 1)
               back  == SubSeq(msgs, i + 1, Len(msgs))
    <2>1. /\ front \in Seq(Nums) /\ Len(front) = i - 1
          /\ back \in Seq(Nums) /\ Len(back) = Len(msgs) - i
      BY <1>3
    <2>2. msgs' = front \o back
      BY <1>1
    <2> HIDE DEF front, back
    <2>3. front \o back \in Seq(Nums) /\ Len(front \o back) = Len(front) + Len(back)
      BY <2>1
    <2> QED
      BY <1>2, <2>1, <2>2, <2>3
  <1>5. msg_map_limit' \in {msg_map_limit - 1, msg_map_limit}
        /\ Len(msgs) <= msg_map_limit /\ msg_map_limit <= UserMsgsMaxLen
    BY DEF HistoryInv, HistoryWindow, OnDeleteMsg
  <1> QED
    BY <1>2, <1>4, <1>5, ProfileAssumption DEF HistoryInv, HistoryWindow

LEMMA HistoryStep == HistoryInv /\ [Next]_vars => HistoryInv'
  <1> SUFFICES ASSUME HistoryInv, [Next]_vars PROVE HistoryInv'
    OBVIOUS
  <1>1. CASE UNCHANGED history
    BY <1>1 DEF history, HistoryInv, HistoryWindow
  <1>2. CASE ClearMsg
    <2>1. msgs' = <<>> /\ msg_map_limit' = 0
      BY <1>2 DEF ClearMsg
    <2>2. <<>> \in Seq(Nums) /\ Len(<<>>) = 0
      OBVIOUS
    <2> QED
      BY <2>1, <2>2, ProfileAssumption DEF HistoryInv, HistoryWindow
  <1>6. CASE GiveUp \/ \E t \in Texts : Receive(t)
    BY <1>1, <1>6 DEF GiveUp, Receive
  <1>3. ASSUME NEW k \in Keys, NEW v, AddStr(k, v) \/ AddNum(k, v) \/ DeleteStr(k) \/ DeleteNum(k)
        PROVE  HistoryInv'
    BY <1>1, <1>3 DEF AddStr, AddNum, DeleteStr, DeleteNum, history
  <1>4. ASSUME NEW num \in Nums, OnAddMsg(num) \/ OnDeleteMsg(num) PROVE HistoryInv'
    BY <1>4, AddKeeps, DeleteKeeps
  <1>5. CASE UNCHANGED vars
    BY <1>1, <1>5 DEF vars, history
  <1> QED
    BY <1>2, <1>3, <1>4, <1>5, <1>6 DEF Next, Nums

(* However messages are added, deleted and cleared, the counter of the      *)
(* history is between its length and user_msgs_max_len, so that the history *)
(* never grows beyond it (user_info.cpp:158-221).                           *)
THEOREM HistoryIsWindow == Spec => []HistoryWindow
  <1>1. Init => HistoryInv
    BY ProfileAssumption DEF Init, HistoryInv, HistoryWindow
  <1>2. HistoryInv => HistoryWindow
    BY DEF HistoryInv
  <1> QED
    BY <1>1, <1>2, HistoryStep, PTL DEF Spec

-----------------------------------------------------------------------------
(* Counting the text. *)

OneEntry(k, len) == {k} \X (1 .. StrText(len))

LEMMA StrTextNat == ASSUME NEW len \in Nat PROVE StrText(len) \in Nat \ {0}
  BY ProfileAssumption DEF StrText

LEMMA NumTextNat == NumText \in Nat \ {0}
  BY ProfileAssumption DEF NumText

LEMMA OneEntrySize ==
    ASSUME NEW k, NEW len \in Nat
    PROVE  /\ IsFiniteSet(OneEntry(k, len))
           /\ Cardinality(OneEntry(k, len)) = StrText(len)
  <1>1. IsFiniteSet({k}) /\ Cardinality({k}) = 1
    BY FS_Singleton
  <1>2. StrText(len) \in Nat \ {0}
    BY StrTextNat
  <1>3. IsFiniteSet(1 .. StrText(len)) /\ Cardinality(1 .. StrText(len)) = StrText(len)
    BY <1>2, FS_Interval
  <1>4. /\ IsFiniteSet({k} \X (1 .. StrText(len)))
        /\ Cardinality({k} \X (1 .. StrText(len))) =
              Cardinality({k}) * Cardinality(1 .. StrText(len))
    BY <1>1, <1>3, FS_Product, Zenon
  <1> QED
    BY <1>1, <1>2, <1>3, <1>4 DEF OneEntry

(* With one entry more there is one key more and the bytes of that entry.   *)
LEMMA OneEntryMore ==
    ASSUME NEW strs, NEW k \in DOMAIN strs, strs[k] \in Nat,
           IsFiniteSet(DOMAIN Without(strs, k)), IsFiniteSet(StrBytes(Without(strs, k)))
    PROVE  /\ IsFiniteSet(DOMAIN strs) /\ IsFiniteSet(StrBytes(strs))
           /\ Cardinality(DOMAIN strs) = Cardinality(DOMAIN Without(strs, k)) + 1
           /\ Cardinality(StrBytes(strs)) =
                 Cardinality(StrBytes(Without(strs, k))) + StrText(strs[k])
  <1> DEFINE rest == Without(strs, k)
  <1>1. /\ DOMAIN rest = DOMAIN strs \ {k}
        /\ \A x \in DOMAIN rest : rest[x] = strs[x]
    BY DEF Without, Restrict
  <1>2. DOMAIN strs = DOMAIN rest \cup {k} /\ k \notin DOMAIN rest
    BY <1>1
  <1>3. /\ IsFiniteSet(DOMAIN strs)
        /\ Cardinality(DOMAIN strs) = Cardinality(DOMAIN rest) + 1
    BY <1>2, FS_AddElement
  <1>4. StrBytes(strs) = StrBytes(rest) \cup OneEntry(k, strs[k])
    BY <1>1, <1>2 DEF StrBytes, OneEntry
  <1>5. StrBytes(rest) \cap OneEntry(k, strs[k]) = {}
    BY <1>2 DEF StrBytes, OneEntry
  <1>6. /\ IsFiniteSet(OneEntry(k, strs[k]))
        /\ Cardinality(OneEntry(k, strs[k])) = StrText(strs[k])
    BY OneEntrySize
  <1>7. Cardinality(StrBytes(rest)) \in Nat /\ StrText(strs[k]) \in Nat
    BY FS_CardinalityType, StrTextNat
  <1>8. /\ IsFiniteSet(StrBytes(strs))
        /\ Cardinality(StrBytes(strs)) =
              Cardinality(StrBytes(rest)) + StrText(strs[k]) - Cardinality({})
    BY <1>4, <1>5, <1>6, FS_Union
  <1>9. Cardinality({}) = 0
    BY FS_EmptySet
  <1> QED
    BY <1>3, <1>7, <1>8, <1>9

(* Only an empty map has no bytes.                                          *)
LEMMA BytesOfSome ==
    ASSUME NEW strs, \A k \in DOMAIN strs : strs[k] \in Nat,
           IsFiniteSet(DOMAIN strs), IsFiniteSet(StrBytes(strs))
    PROVE  Cardinality(DOMAIN strs) = 0 <=> Cardinality(StrBytes(strs)) = 0
  <1>1. ASSUME NEW k \in DOMAIN strs PROVE <<k, 1>> \in StrBytes(strs)
    <2>1. StrText(strs[k]) \in Nat \ {0}
      BY StrTextNat
    <2> QED
      BY <2>1 DEF StrBytes
  <1>2. DOMAIN strs = {} => StrBytes(strs) = {}
    BY DEF StrBytes
  <1>3. DOMAIN strs = {} <=> StrBytes(strs) = {}
    BY <1>1, <1>2
  <1> QED
    BY <1>3, FS_EmptySet

(* data_len is the length of the joined entries, if the last text fitted.   *)
Fits(ok, len, entries, bytes) ==
    /\ len \in Int /\ entries \in Nat /\ bytes \in Nat
    /\ entries = 0 <=> bytes = 0
    /\ ok => len = Joined(entries, bytes)

LEMMA LongerFits ==
    ASSUME NEW ok, NEW len, NEW entries, NEW bytes, NEW text \in Nat \ {0},
           Fits(ok, len, entries, bytes)
    PROVE  Fits(ok, Longer(len, text), entries + 1, bytes + text)
  BY DEF Fits, Joined, Longer

LEMMA ShorterFits ==
    ASSUME NEW ok, NEW len, NEW entries \in Nat, NEW bytes \in Nat,
           NEW text \in Nat \ {0}, entries = 0 <=> bytes = 0,
           Fits(ok, len, entries + 1, bytes + text)
    PROVE  Fits(ok, Shorter(len, text), entries, bytes)
  BY DEF Fits, Joined, Shorter

-----------------------------------------------------------------------------
(* Setting and deleting entries. *)

Kinds == Numbers \cup {0}
Account(strs, nums) ==
    /\ strs \in [DOMAIN strs -> StrLens] /\ DOMAIN strs \subseteq Keys
    /\ IsFiniteSet(DOMAIN strs) /\ IsFiniteSet(StrBytes(strs))
    /\ nums \in [DOMAIN nums -> Kinds] /\ DOMAIN nums \subseteq Keys
    /\ IsFiniteSet(DOMAIN nums)

Entries(strs, nums) == Cardinality(DOMAIN strs) + Cardinality(DOMAIN nums)
Bytes(strs, nums) == Cardinality(StrBytes(strs)) + NumText * Cardinality(DOMAIN nums)

Kept(ok, len, strs, nums) ==
    Account(strs, nums) /\ Fits(ok, len, Entries(strs, nums), Bytes(strs, nums))

LEMMA Scaled ==
    ASSUME NEW c \in Nat
    PROVE  /\ NumText * c \in Nat /\ (NumText * c = 0 <=> c = 0)
           /\ NumText * (c + 1) = NumText * c + NumText
  BY NumTextNat

LEMMA Sizes ==
    ASSUME NEW strs, NEW nums, Account(strs, nums)
    PROVE  /\ Cardinality(DOMAIN strs) \in Nat /\ Cardinality(DOMAIN nums) \in Nat
           /\ Cardinality(StrBytes(strs)) \in Nat
           /\ NumText * Cardinality(DOMAIN nums) \in Nat
           /\ Entries(strs, nums) \in Nat /\ Bytes(strs, nums) \in Nat
           /\ Entries(strs, nums) = 0 <=> Bytes(strs, nums) = 0
  <1>1. /\ Cardinality(DOMAIN strs) \in Nat /\ Cardinality(DOMAIN nums) \in Nat
        /\ Cardinality(StrBytes(strs)) \in Nat
    BY FS_CardinalityType DEF Account
  <1>2. Cardinality(DOMAIN strs) = 0 <=> Cardinality(StrBytes(strs)) = 0
    <2>1. \A k \in DOMAIN strs : strs[k] \in Nat
      BY ProfileAssumption DEF Account
    <2> QED
      BY <2>1, BytesOfSome DEF Account
  <1>3. /\ NumText * Cardinality(DOMAIN nums) \in Nat
        /\ NumText * Cardinality(DOMAIN nums) = 0 <=> Cardinality(DOMAIN nums) = 0
    BY <1>1, Scaled
  <1> QED
    BY <1>1, <1>2, <1>3 DEF Entries, Bytes

LEMMA StrLess ==
    ASSUME NEW ok, NEW len, NEW strs, NEW nums, Kept(ok, len, strs, nums),
           NEW k \in DOMAIN strs
    PROVE  Kept(ok, Shorter(len, StrText(strs[k])), Without(strs, k), nums)
  <1> DEFINE rest == Without(strs, k)
  <1>1. /\ rest \in [DOMAIN rest -> StrLens] /\ DOMAIN rest \subseteq DOMAIN strs
        /\ StrBytes(rest) \subseteq StrBytes(strs)
    BY DEF Kept, Account, Without, Restrict, StrBytes
  <1>2. Account(rest, nums)
    BY <1>1, FS_Subset DEF Kept, Account
  <1>3. strs[k] \in Nat /\ StrText(strs[k]) \in Nat \ {0}
    BY ProfileAssumption, StrTextNat DEF Kept, Account
  <1>4. /\ Cardinality(DOMAIN strs) = Cardinality(DOMAIN rest) + 1
        /\ Cardinality(StrBytes(strs)) = Cardinality(StrBytes(rest)) + StrText(strs[k])
    BY <1>2, <1>3, OneEntryMore DEF Account
  <1> HIDE DEF rest
  <1>5. /\ Entries(strs, nums) = Entries(rest, nums) + 1
        /\ Bytes(strs, nums) = Bytes(rest, nums) + StrText(strs[k])
    BY <1>2, <1>3, <1>4, Sizes DEF Entries, Bytes
  <1>6. Fits(ok, len, Entries(rest, nums) + 1, Bytes(rest, nums) + StrText(strs[k]))
    BY <1>5 DEF Kept
  <1>7. Fits(ok, Shorter(len, StrText(strs[k])), Entries(rest, nums), Bytes(rest, nums))
    BY <1>2, <1>3, <1>6, Sizes, ShorterFits
  <1> QED
    BY <1>2, <1>7 DEF Kept, rest

LEMMA StrMore ==
    ASSUME NEW ok, NEW len, NEW strs, NEW nums, Kept(ok, len, strs, nums),
           NEW k \in Keys \ DOMAIN strs, NEW l \in StrLens
    PROVE  Kept(ok, Longer(len, StrText(l)), With(strs, k, l), nums)
  <1> DEFINE more == With(strs, k, l)
  <1>1. /\ more \in [DOMAIN more -> StrLens] /\ DOMAIN more = DOMAIN strs \cup {k}
        /\ more[k] = l /\ \A x \in DOMAIN strs : more[x] = strs[x]
    BY DEF Kept, Account, With
  <1>2. strs = Without(more, k)
    <2>1. strs = [x \in DOMAIN strs |-> strs[x]]
      BY DEF Kept, Account
    <2>2. DOMAIN more \ {k} = DOMAIN strs
      BY <1>1
    <2> HIDE DEF more
    <2> QED
      BY <1>1, <2>1, <2>2 DEF Without, Restrict
  <1>3. l \in Nat /\ StrText(l) \in Nat \ {0}
    BY ProfileAssumption, StrTextNat
  <1> HIDE DEF more
  <1>4. /\ IsFiniteSet(DOMAIN more) /\ IsFiniteSet(StrBytes(more))
        /\ Cardinality(DOMAIN more) = Cardinality(DOMAIN strs) + 1
        /\ Cardinality(StrBytes(more)) = Cardinality(StrBytes(strs)) + StrText(l)
    <2>1. /\ IsFiniteSet(DOMAIN Without(more, k)) /\ IsFiniteSet(StrBytes(Without(more, k)))
          /\ k \in DOMAIN more /\ more[k] \in Nat
      BY <1>1, <1>2, <1>3 DEF Kept, Account
    <2>2. /\ IsFiniteSet(DOMAIN more) /\ IsFiniteSet(StrBytes(more))
          /\ Cardinality(DOMAIN more) = Cardinality(DOMAIN Without(more, k)) + 1
          /\ Cardinality(StrBytes(more)) =
                Cardinality(StrBytes(Without(more, k))) + StrText(more[k])
      BY <2>1, OneEntryMore
    <2> QED
      BY <2>2, <1>1, <1>2
  <1>5. Account(more, nums)
    BY <1>1, <1>4 DEF Kept, Account
  <1>6. /\ Entries(more, nums) = Entries(strs, nums) + 1
        /\ Bytes(more, nums) = Bytes(strs, nums) + StrText(l)
    BY <1>3, <1>4, Sizes DEF Entries, Bytes, Kept
  <1>7. Fits(ok, Longer(len, StrText(l)), Entries(more, nums), Bytes(more, nums))
    BY <1>3, <1>6, LongerFits DEF Kept
  <1> QED
    BY <1>5, <1>7 DEF Kept, more

LEMMA NumLess ==
    ASSUME NEW ok, NEW len, NEW strs, NEW nums, Kept(ok, len, strs, nums),
           NEW k \in DOMAIN nums
    PROVE  Kept(ok, Shorter(len, NumText), strs, Without(nums, k))
  <1> DEFINE rest == Without(nums, k)
  <1>1. rest \in [DOMAIN rest -> Kinds] /\ DOMAIN rest = DOMAIN nums \ {k}
    BY DEF Kept, Account, Without, Restrict
  <1> HIDE DEF rest
  <1>2. /\ IsFiniteSet(DOMAIN rest)
        /\ Cardinality(DOMAIN rest) = Cardinality(DOMAIN nums) - 1
    BY <1>1, FS_RemoveElement DEF Kept, Account
  <1>3. Account(strs, rest)
    BY <1>1, <1>2 DEF Kept, Account
  <1>4. Cardinality(DOMAIN nums) = Cardinality(DOMAIN rest) + 1
    BY <1>2, Sizes DEF Kept
  <1>5. NumText * Cardinality(DOMAIN nums) = NumText * Cardinality(DOMAIN rest) + NumText
    BY <1>3, <1>4, Scaled, Sizes
  <1>6. /\ Entries(strs, nums) = Entries(strs, rest) + 1
        /\ Bytes(strs, nums) = Bytes(strs, rest) + NumText
    BY <1>3, <1>4, <1>5, Sizes, NumTextNat DEF Entries, Bytes
  <1>7. Fits(ok, len, Entries(strs, rest) + 1, Bytes(strs, rest) + NumText)
    BY <1>6 DEF Kept
  <1>8. Fits(ok, Shorter(len, NumText), Entries(strs, rest), Bytes(strs, rest))
    BY <1>3, <1>7, Sizes, ShorterFits, NumTextNat
  <1> QED
    BY <1>3, <1>8 DEF Kept, rest

LEMMA NumMore ==
    ASSUME NEW ok, NEW len, NEW strs, NEW nums, Kept(ok, len, strs, nums),
           NEW k \in Keys \ DOMAIN nums, NEW n \in Kinds
    PROVE  Kept(ok, Longer(len, NumText), strs, With(nums, k, n))
  <1> DEFINE more == With(nums, k, n)
  <1>1. more \in [DOMAIN more -> Kinds] /\ DOMAIN more = DOMAIN nums \cup {k}
    BY DEF Kept, Account, With
  <1> HIDE DEF more
  <1>2. /\ IsFiniteSet(DOMAIN more)
        /\ Cardinality(DOMAIN more) = Cardinality(DOMAIN nums) + 1
    BY <1>1, FS_AddElement DEF Kept, Account
  <1>3. Account(strs, more)
    BY <1>1, <1>2 DEF Kept, Account
  <1>4. NumText * Cardinality(DOMAIN more) = NumText * Cardinality(DOMAIN nums) + NumText
    BY <1>2, Scaled, Sizes DEF Kept
  <1>5. /\ Entries(strs, more) = Entries(strs, nums) + 1
        /\ Bytes(strs, more) = Bytes(strs, nums) + NumText
    <2>1. /\ Cardinality(DOMAIN strs) \in Nat /\ Cardinality(DOMAIN nums) \in Nat
          /\ Cardinality(StrBytes(strs)) \in Nat
          /\ NumText * Cardinality(DOMAIN nums) \in Nat
      BY Sizes DEF Kept
    <2> QED
      BY <1>2, <1>4, <2>1, NumTextNat DEF Entries, Bytes
  <1>6. Fits(ok, Longer(len, NumText), Entries(strs, more), Bytes(strs, more))
    BY <1>5, LongerFits, NumTextNat DEF Kept
  <1> QED
    BY <1>3, <1>6 DEF Kept, more

-----------------------------------------------------------------------------
(* The steps of an account. *)

CustomInv ==
    /\ Kept(fits, data_len, str_map, num_map)
    /\ fits \in BOOLEAN /\ custom_length \in Nat

LEMMA LengthIsKept == CustomInv => LengthKept
  BY DEF CustomInv, Kept, Fits, LengthKept, TextLength, TextOf, Entries, Bytes

(* The bytes of finitely many strings are finitely many.                    *)
LEMMA FewBytes ==
    ASSUME NEW strs, IsFiniteSet(DOMAIN strs), \A k \in DOMAIN strs : strs[k] \in Nat
    PROVE  IsFiniteSet(StrBytes(strs))
  <1> DEFINE parts == {OneEntry(k, strs[k]) : k \in DOMAIN strs}
             part  == [k \in DOMAIN strs |-> OneEntry(k, strs[k])]
  <1>1. part \in Surjection(DOMAIN strs, parts)
    BY DEF Surjection
  <1>2. IsFiniteSet(parts)
    <2> HIDE DEF part, parts
    <2> QED
      BY <1>1, FS_Surjection
  <1>3. \A p \in parts : IsFiniteSet(p)
    BY OneEntrySize
  <1>4. StrBytes(strs) = UNION parts
    BY DEF StrBytes, OneEntry
  <1> HIDE DEF parts
  <1> QED
    BY <1>2, <1>3, <1>4, FS_UNION

(* What a text brings is an account, whatever the text is.                  *)
LEMMA ReceiveKeeps == ASSUME NEW t \in Texts, Receive(t) PROVE CustomInv'
  <1>1. IsText(t)
    BY ProfileAssumption
  <1>2. str_map' = t.strs /\ num_map' = NumbersKept(t) /\ custom_length' \in Nat
    BY <1>1 DEF Receive, IsText
  <1>3. /\ str_map' \in [DOMAIN str_map' -> StrLens] /\ DOMAIN str_map' \subseteq Keys
        /\ IsFiniteSet(DOMAIN str_map')
    BY <1>1, <1>2 DEF IsText
  <1>4. IsFiniteSet(StrBytes(str_map'))
    <2>1. \A k \in DOMAIN str_map' : str_map'[k] \in Nat
      BY <1>3, ProfileAssumption
    <2> QED
      BY <1>3, <2>1, FewBytes
  <1>5. /\ num_map' \in [DOMAIN num_map' -> Kinds]
        /\ DOMAIN num_map' \subseteq DOMAIN t.nums
    BY <1>1, <1>2 DEF NumbersKept, Restrict, IsText, Kinds
  <1>6. DOMAIN num_map' \subseteq Keys /\ IsFiniteSet(DOMAIN num_map')
    BY <1>1, <1>5, FS_Subset DEF IsText
  <1>7. Account(str_map', num_map')
    BY <1>3, <1>4, <1>5, <1>6 DEF Account
  <1>8. fits' \in BOOLEAN /\ (fits' => data_len' = TextOf(str_map', num_map'))
    BY <1>2 DEF Receive
  <1>9. data_len' \in Int
    BY <1>1 DEF Receive, IsText
  <1>10. TextOf(str_map', num_map') = Joined(Entries(str_map', num_map'), Bytes(str_map', num_map'))
    BY DEF TextOf, Entries, Bytes
  <1>11. Fits(fits', data_len', Entries(str_map', num_map'), Bytes(str_map', num_map'))
    BY <1>7, <1>8, <1>9, <1>10, Sizes DEF Fits
  <1> QED
    BY <1>2, <1>7, <1>8, <1>11 DEF CustomInv, Kept

LEMMA SettingKeeps ==
    ASSUME CustomInv, NEW k \in Keys,
           \/ \E len \in StrLens : AddStr(k, len)
           \/ \E n \in Numbers : AddNum(k, n)
           \/ DeleteStr(k) \/ DeleteNum(k)
    PROVE  CustomInv'
  <1>0. Kept(fits, data_len, str_map, num_map) /\ fits \in BOOLEAN /\ custom_length \in Nat
    BY DEF CustomInv
  <1>1. ASSUME NEW len \in StrLens, AddStr(k, len) PROVE CustomInv'
    <2>1. CASE k \notin DOMAIN str_map
      BY <1>0, <1>1, <2>1, StrMore DEF AddStr, CustomInv
    <2>2. CASE k \in DOMAIN str_map
      <3> DEFINE rest == Without(str_map, k)
                 old  == Shorter(data_len, StrText(str_map[k]))
      <3>1. Kept(fits, old, rest, num_map)
        BY <1>0, <2>2, StrLess
      <3>2. DOMAIN rest = DOMAIN str_map \ {k} /\ With(rest, k, len) = With(str_map, k, len)
        BY <2>2 DEF With, Without, Restrict
      <3>3. /\ data_len' = Longer(old, StrText(len)) /\ str_map' = With(str_map, k, len)
            /\ num_map' = num_map /\ fits' = fits /\ custom_length' = custom_length
        BY <1>1, <2>2 DEF AddStr
      <3> HIDE DEF rest, old
      <3>4. Kept(fits, Longer(old, StrText(len)), With(rest, k, len), num_map)
        BY <3>1, <3>2, StrMore
      <3> QED
        BY <1>0, <3>2, <3>3, <3>4 DEF CustomInv
    <2> QED
      BY <2>1, <2>2
  <1>2. ASSUME NEW n \in Numbers, AddNum(k, n) PROVE CustomInv'
    <2>0. n \in Kinds
      BY DEF Kinds
    <2>1. CASE k \notin DOMAIN num_map
      BY <1>0, <1>2, <2>0, <2>1, NumMore DEF AddNum, CustomInv
    <2>2. CASE k \in DOMAIN num_map
      <3> DEFINE rest == Without(num_map, k)
                 old  == Shorter(data_len, NumText)
      <3>1. Kept(fits, old, str_map, rest)
        BY <1>0, <2>2, NumLess
      <3>2. DOMAIN rest = DOMAIN num_map \ {k} /\ With(rest, k, n) = With(num_map, k, n)
        BY <2>2 DEF With, Without, Restrict
      <3>3. /\ data_len' = Longer(old, NumText) /\ num_map' = With(num_map, k, n)
            /\ str_map' = str_map /\ fits' = fits /\ custom_length' = custom_length
        BY <1>2, <2>2 DEF AddNum
      <3> HIDE DEF rest, old
      <3>4. Kept(fits, Longer(old, NumText), str_map, With(rest, k, n))
        BY <2>0, <3>1, <3>2, NumMore
      <3> QED
        BY <1>0, <3>2, <3>3, <3>4 DEF CustomInv
    <2> QED
      BY <2>1, <2>2
  <1>3. CASE DeleteStr(k)
    BY <1>0, <1>3, StrLess DEF DeleteStr, CustomInv
  <1>4. CASE DeleteNum(k)
    BY <1>0, <1>4, NumLess DEF DeleteNum, CustomInv
  <1> QED
    BY <1>1, <1>2, <1>3, <1>4

LEMMA CustomStep == CustomInv /\ [Next]_vars => CustomInv'
  <1> SUFFICES ASSUME CustomInv, [Next]_vars PROVE CustomInv'
    OBVIOUS
  <1>1. CASE UNCHANGED custom
    BY <1>1 DEF custom, CustomInv
  <1>2. ASSUME NEW k \in Keys,
               \/ \E len \in StrLens : AddStr(k, len)
               \/ \E n \in Numbers : AddNum(k, n)
               \/ DeleteStr(k) \/ DeleteNum(k)
        PROVE  CustomInv'
    BY <1>2, SettingKeeps
  <1>3. ASSUME NEW t \in Texts, Receive(t) PROVE CustomInv'
    BY <1>3, ReceiveKeeps
  <1>4. CASE ClearMsg \/ GiveUp
    BY <1>1, <1>4 DEF ClearMsg, GiveUp
  <1>5. ASSUME NEW num, OnAddMsg(num) \/ OnDeleteMsg(num) PROVE CustomInv'
    BY <1>1, <1>5 DEF OnAddMsg, OnDeleteMsg
  <1>6. CASE UNCHANGED vars
    BY <1>1, <1>6 DEF vars
  <1> QED
    BY <1>2, <1>3, <1>4, <1>5, <1>6 DEF Next

LEMMA CustomInit == Init => CustomInv
  <1> SUFFICES ASSUME Init PROVE CustomInv
    OBVIOUS
  <1>1. /\ DOMAIN str_map = {} /\ DOMAIN num_map = {} /\ data_len = 0 /\ fits = TRUE /\ custom_length = 0
        /\ str_map \in [{} -> StrLens] /\ num_map \in [{} -> Kinds]
    BY DEF Init, Empty
  <1>2. StrBytes(str_map) = {}
    BY <1>1 DEF StrBytes
  <1>3. IsFiniteSet({}) /\ Cardinality({}) = 0
    BY FS_EmptySet
  <1>4. Account(str_map, num_map)
    BY <1>1, <1>2, <1>3 DEF Account
  <1>5. Entries(str_map, num_map) = 0 /\ Bytes(str_map, num_map) = 0
    BY <1>1, <1>2, <1>3, NumTextNat DEF Entries, Bytes
  <1>6. data_len = Joined(0, 0)
    BY <1>1 DEF Joined
  <1>7. Fits(fits, data_len, 0, 0)
    BY <1>1, <1>6 DEF Fits
  <1> QED
    BY <1>1, <1>4, <1>5, <1>7 DEF CustomInv, Kept

(* data_len is the length of the text to_data writes, so that to_data sends *)
(* the account's custom data, whatever is set, set again and deleted in a   *)
(* new account or in one read from a text as long as what was found in it,  *)
(* for any keys, lengths and texts (custom_data.cpp:4-176).                 *)
THEOREM LengthFits == Spec => []LengthKept
  BY CustomInit, CustomStep, LengthIsKept, PTL DEF Spec

Flags == has_list \in BOOLEAN /\ alive \in BOOLEAN

LEMMA FlagsStep == Flags /\ [Next]_vars => Flags'
  BY DEF Flags, Next, vars, custom, history, AddStr, AddNum, DeleteStr, DeleteNum,
         Receive, GiveUp, ClearMsg, OnAddMsg, OnDeleteMsg

(* Maps hold values of their kinds and the history holds message numbers    *)
(* (custom_data.h:20-22, user_info.h:105-109).                              *)
THEOREM AccountTyped == Spec => []TypeOK
  <1>1. CustomInv /\ HistoryInv /\ Flags => TypeOK
    BY DEF CustomInv, Kept, Account, Fits, Kinds, HistoryInv, Nums, Flags, TypeOK, Range
  <1>2. Init => HistoryInv
    BY ProfileAssumption DEF Init, HistoryInv, HistoryWindow
  <1>3. Init => Flags
    BY DEF Init, Flags
  <1> QED
    BY <1>1, <1>2, <1>3, CustomInit, CustomStep, HistoryStep, FlagsStep, PTL DEF Spec

=============================================================================
