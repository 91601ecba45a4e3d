---------------------------- MODULE AbstractList ----------------------------
(***************************************************************************)
(* What class List promises (threads/list.h): a sequence of items with     *)
(* keys, taken from the front.  Items go to the back or to the front, with *)
(* key 0, or before the first item of a larger key: among items of one key *)
(* the older one comes first.                                              *)
(***************************************************************************)
EXTENDS Integers, Sequences

CONSTANTS Items, Keys, Nothing

VARIABLES
    list,       \* of pairs of an item and its key
    returned    \* by the last call that removed something

alistvars == << list, returned >>

AInit == list = << >> /\ returned = Nothing

ToBack(item) == list' = Append(list, << item, 0 >>)
ToFront(item) == list' = << << item, 0 >> >> \o list

\* After as many items as are before the first larger one.
InOrder(item, key) ==
    \E n \in 0..Len(list) :
        /\ \A k \in 1..n : list[k][2] <= key
        /\ n < Len(list) => list[n + 1][2] > key
        /\ list' = SubSeq(list, 1, n) \o << << item, key >> >> \o SubSeq(list, n + 1, Len(list))

Take ==
    IF list = << >> THEN returned' = Nothing /\ UNCHANGED list
    ELSE returned' = Head(list) /\ list' = Tail(list)

ANext ==
    \/ /\ \E item \in Items :
            ToBack(item) \/ ToFront(item) \/ \E key \in Keys : InOrder(item, key)
       /\ UNCHANGED returned
    \/ Take

AListSpec == AInit /\ [][ANext]_alistvars
=============================================================================
