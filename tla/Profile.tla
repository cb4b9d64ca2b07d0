------------------------------- MODULE Profile -------------------------------
(***************************************************************************)
(* What an account carries besides its fixed fields: the custom data       *)
(* (custom_data.cpp, class CustomData) and the history of private messages *)
(* (user_info.cpp, class UserInfo), under every sequence of calls of their *)
(* methods.  A string is represented by its length.  A text that a client  *)
(* sent is represented by what from_data finds in it: its strings and its  *)
(* numbers by key, and its length, which is free: a key may come twice, a  *)
(* part may be neither, commas may be doubled.  Keys and strings that the  *)
(* methods refuse are left out.                                            *)
(***************************************************************************)
EXTENDS Integers, Sequences, FiniteSets, Functions

CONSTANTS Keys,             \* keys
          KeyLen,           \* their length
          StrLens,          \* lengths of the strings
          Numbers,          \* the numbers that are set
          Texts,            \* the texts that clients send
          UserMsgsMaxLen,   \* user_msgs_max_len
          NumMod            \* message numbers are counted modulo this (2^16)

(* A text of a client: a number in it may be 0, which add_custom refuses.   *)
IsText(t) ==
    /\ DOMAIN t.strs \subseteq Keys /\ IsFiniteSet(DOMAIN t.strs)
    /\ t.strs \in [DOMAIN t.strs -> StrLens]
    /\ DOMAIN t.nums \subseteq Keys /\ IsFiniteSet(DOMAIN t.nums)
    /\ t.nums \in [DOMAIN t.nums -> Numbers \cup {0}]
    /\ t.len \in Nat

ASSUME ProfileAssumption ==
    /\ KeyLen \in Nat \ {0}
    /\ StrLens \subseteq Nat \ {0} /\ Numbers \subseteq Nat \ {0}
    /\ \A t \in Texts : IsText(t)
    /\ UserMsgsMaxLen \in Nat \ {0} /\ NumMod \in Nat \ {0, 1}

VARIABLES str_map, num_map, data_len,   \* CustomData; data_len modulo 2^32
          custom_length,  \* UserInfo's own length of the custom data
          fits,           \* the last text was as long as what was found in it
          msgs,           \* the history, the numbers of its messages
          has_list,       \* msg_map has an entry
          msg_map_limit,  \* its counter
          alive           \* the process has not followed an invalid reference

custom == <<str_map, num_map, data_len, custom_length, fits>>
history == <<msgs, has_list, msg_map_limit>>
vars == <<custom, history, alive>>

Without(f, k) == Restrict(f, DOMAIN f \ {k})
With(f, k, v) == [x \in DOMAIN f \cup {k} |-> IF x = k THEN v ELSE f[x]]
Empty == [k \in {} |-> 0]

Init ==
    /\ str_map = Empty /\ num_map = Empty /\ data_len = 0 /\ custom_length = 0
    /\ fits = TRUE /\ msgs = <<>> /\ has_list = FALSE /\ msg_map_limit = 0
    /\ alive = TRUE

(*------------------------------ custom data -------------------------------*)
(* "k:" key "," "s:" value, and "k:" key "," "n:" eight bytes.              *)
StrText(len) == (KeyLen + 3) + (len + 2)
NumText == (KeyLen + 3) + (8 + 2)

AlwaysComma(len, text) == len + 1 + text

(* data_len after an entry of that text came or went, with its comma.       *)
Longer(len, text) == (IF len # 0 THEN len + 1 ELSE len) + text
Shorter(len, text) == LET rest == len - text IN IF rest # 0 THEN rest - 1 ELSE rest

(* The bytes of the entries of strings, each with its place in its entry.   *)
StrBytes(strs) == UNION {{k} \X (1 .. StrText(strs[k])) : k \in DOMAIN strs}

(* The length of what to_data writes, all entries joined by commas.         *)
Joined(entries, bytes) == IF entries = 0 THEN 0 ELSE bytes + entries - 1

TextOf(strs, nums) ==
    Joined(Cardinality(DOMAIN strs) + Cardinality(DOMAIN nums),
           Cardinality(StrBytes(strs)) + NumText * Cardinality(DOMAIN nums))
TextLength == TextOf(str_map, num_map)

AddStr(k, len) ==
    LET old == IF k \in DOMAIN str_map THEN Shorter(data_len, StrText(str_map[k]))
                                       ELSE data_len
    IN  /\ data_len' = Longer(old, StrText(len))
        /\ str_map' = With(str_map, k, len)
        /\ UNCHANGED <<num_map, custom_length, fits, history, alive>>

AddNum(k, n) ==
    LET old == IF k \in DOMAIN num_map THEN Shorter(data_len, NumText) ELSE data_len
    IN  /\ data_len' = Longer(old, NumText)
        /\ num_map' = With(num_map, k, n)
        /\ UNCHANGED <<str_map, custom_length, fits, history, alive>>

DeleteStr(k) ==
    /\ k \in DOMAIN str_map
    /\ data_len' = Shorter(data_len, StrText(str_map[k]))
    /\ str_map' = Without(str_map, k)
    /\ UNCHANGED <<num_map, custom_length, fits, history, alive>>

DeleteNum(k) ==
    /\ k \in DOMAIN num_map
    /\ data_len' = Shorter(data_len, NumText)
    /\ num_map' = Without(num_map, k)
    /\ UNCHANGED <<str_map, custom_length, fits, history, alive>>

(* from_data keeps of the numbers only those that are 0.                    *)
NumbersKept(t) == Restrict(t.nums, {k \in DOMAIN t.nums : t.nums[k] = 0})

(* A text of a client comes with the account: a new object reads the number *)
(* of bytes that custom_length says, and takes that for data_len if it      *)
(* found an entry.  A text it refuses brings no new object.  The old object  *)
(* has no history to give up.                                               *)
Receive(t) ==
    /\ ~ has_list
    /\ str_map' = t.strs /\ num_map' = NumbersKept(t)
    /\ data_len' = IF DOMAIN str_map' \cup DOMAIN num_map' # {} THEN t.len ELSE 0
    /\ custom_length' = t.len
    /\ fits' = (data_len' = TextOf(t.strs, NumbersKept(t)))
    /\ UNCHANGED <<history, alive>>

(* One that has is never given up: the destructor does not get past the list *)
(* that it has deleted.                                                      *)
GiveUp == has_list /\ alive' = FALSE /\ UNCHANGED <<custom, history>>

(*-------------------------- private messages ------------------------------*)
NextNumsWide ==
    IF ~ has_list THEN {1}
    ELSE IF msgs = <<>> THEN 0 .. NumMod - 1 ELSE {msgs[Len(msgs)] + 1}

(* Only messages to oneself pass the first test of on_add_msg.  Without a   *)
(* number a message takes the one after the last; the last of an empty list *)
(* is not there, and what is read then is anything, if it can be read.      *)
NextNums ==
    IF ~ has_list THEN {1}
    ELSE IF msgs = <<>> THEN 0 .. NumMod - 1 ELSE {(msgs[Len(msgs)] + 1) % NumMod}

OnAddMsg(num) ==
    \/ \E n \in IF num # 0 THEN {num} ELSE NextNums :
          LET more == Append(msgs, n) IN
          /\ IF msg_map_limit + 1 > UserMsgsMaxLen
             THEN msgs' = Tail(more) /\ UNCHANGED msg_map_limit
             ELSE msgs' = more /\ msg_map_limit' = msg_map_limit + 1
          /\ has_list' = TRUE
          /\ UNCHANGED <<custom, alive>>
    \/ /\ num = 0 /\ has_list /\ msgs = <<>>
       /\ alive' = FALSE /\ UNCHANGED <<custom, history>>

(* The last message of that number goes.  The counter is then looked up     *)
(* through the message that is gone: it is lowered, or another one is, or   *)
(* the process ends.                                                        *)
OnDeleteMsg(num) ==
    /\ \E i \in DOMAIN msgs :
          /\ msgs[i] = num /\ \A j \in DOMAIN msgs : j > i => msgs[j] # num
          /\ msgs' = SubSeq(msgs, 1, i - 1) \o SubSeq(msgs, i + 1, Len(msgs))
    /\ msg_map_limit' \in {msg_map_limit - 1, msg_map_limit}
    /\ alive' \in BOOLEAN
    /\ UNCHANGED <<custom, has_list>>

ClearMsgKeepsList ==
    /\ has_list /\ msg_map_limit' = 0
    /\ UNCHANGED <<custom, msgs, has_list, alive>>

ClearMsg ==
    /\ has_list /\ msgs' = <<>> /\ msg_map_limit' = 0
    /\ UNCHANGED <<custom, has_list, alive>>

Next ==
    /\ alive
    /\ \/ \E k \in Keys : \/ \E len \in StrLens : AddStr(k, len)
                          \/ \E n \in Numbers : AddNum(k, n)
                          \/ DeleteStr(k) \/ DeleteNum(k)
       \/ ClearMsg \/ GiveUp \/ \E t \in Texts : Receive(t)
       \/ \E num \in 0 .. NumMod - 1 : OnAddMsg(num) \/ OnDeleteMsg(num)

Spec == Init /\ [][Next]_vars

(*------------------------------- properties -------------------------------*)
TypeOK ==
    /\ DOMAIN str_map \subseteq Keys /\ Range(str_map) \subseteq StrLens
    /\ DOMAIN num_map \subseteq Keys /\ Range(num_map) \subseteq Numbers \cup {0}
    /\ data_len \in Int /\ custom_length \in Nat
    /\ {fits, has_list, alive} \subseteq BOOLEAN
    /\ msgs \in Seq(0 .. NumMod - 1)

(* to_data sends the custom data of an account only if data_len, which five *)
(* methods adjust by hand with one comma for every entry but the first, is  *)
(* the length of the text (:100): it is, whatever is set, set again and     *)
(* deleted, in a new account and in one that was read from a text as long   *)
(* as what was found in it.  From another text it can be anything.          *)
LengthKept == fits => data_len = TextLength

(* The history is a window: its counter is never below its length, so that  *)
(* the oldest message goes as soon as there are user_msgs_max_len.          *)
HistoryWindow == Len(msgs) <= msg_map_limit /\ msg_map_limit <= UserMsgsMaxLen

=============================================================================
