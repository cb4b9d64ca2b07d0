------------------------------ MODULE MCProfile ------------------------------
(***************************************************************************)
(* Texts of clients for Profile: with the keys 1 and 2 of length 1, an     *)
(* entry of a string of length n is n + 6 long and one of a number 14.     *)
(***************************************************************************)
EXTENDS Profile, TLC

None == [k \in {} |-> 0]
Text(strs, nums, len) == [strs |-> strs, nums |-> nums, len |-> len]

MCTexts ==
    {Text(None, None, 0),                    \* nothing
     Text(None, None, 2),                    \* commas
     Text(1 :> 2, None, 8),                  \* as to_data writes it
     Text(1 :> 1 @@ 2 :> 2, None, 16),
     Text(None, 1 :> 300, 14),               \* a number, dropped
     Text(None, 1 :> 0, 14),                 \* a zero, kept
     Text(1 :> 1, 2 :> 300, 22),             \* a string stays, its number does not
     Text(2 :> 1, None, 15)}                 \* a key that comes twice

=============================================================================
