------------------------------ MODULE DequeSpec ------------------------------
(***************************************************************************)
(* The double-ended queue that the comments of deque.c describe: a         *)
(* sequence whose left end is the tail and whose right end is the head.    *)
(* result is what the last call returned.                                  *)
(***************************************************************************)
EXTENDS Integers, Sequences

CONSTANTS
    Value,  \* the items, pointers in the code
    Null

VARIABLES items, result

vars == <<items, result>>

Init == items = <<>> /\ result = <<"item", Null>>

Left  == items[1]
Right == items[Len(items)]

\* append and appendleft may find no memory
Append_(v)    == items' \in {Append(items, v), items} /\ UNCHANGED result
AppendLeft(v) == items' \in {<<v>> \o items, items} /\ UNCHANGED result

Pop ==
    \/ items = <<>> /\ result' = <<"item", Null>> /\ UNCHANGED items
    \/ /\ items # <<>>
       /\ result' = <<"item", Right>>
       /\ items' = SubSeq(items, 1, Len(items) - 1)

PopLeft ==
    \/ items = <<>> /\ result' = <<"item", Null>> /\ UNCHANGED items
    \/ items # <<>> /\ result' = <<"item", Left>> /\ items' = Tail(items)

Peek     == result' = <<"item", IF items = <<>> THEN Null ELSE Right>> /\ UNCHANGED items
PeekLeft == result' = <<"item", IF items = <<>> THEN Null ELSE Left>> /\ UNCHANGED items
Count    == result' = <<"count", Len(items)>> /\ UNCHANGED items
Clear    == items' = <<>> /\ UNCHANGED result
Copy     == result' = <<"copy", items>> /\ UNCHANGED items

Contains(v) ==
    /\ result' = <<"found", \E n \in DOMAIN items : items[n] = v>>
    /\ UNCHANGED items

\* the first occurrence, from the left
Remove(v) ==
    \/ /\ \A n \in DOMAIN items : items[n] # v
       /\ result' = <<"item", Null>>
       /\ UNCHANGED items
    \/ \E n \in DOMAIN items :
          /\ items[n] = v
          /\ \A k \in 1 .. n - 1 : items[k] # v
          /\ result' = <<"item", v>>
          /\ items' = SubSeq(items, 1, n - 1) \o SubSeq(items, n + 1, Len(items))

RotateRight ==
    /\ items' = IF items = <<>> THEN items
                ELSE <<Right>> \o SubSeq(items, 1, Len(items) - 1)
    /\ UNCHANGED result

RotateLeft ==
    /\ items' = IF items = <<>> THEN items ELSE Append(Tail(items), Left)
    /\ UNCHANGED result

Reverse ==
    /\ items' = [n \in DOMAIN items |-> items[Len(items) + 1 - n]]
    /\ UNCHANGED result

Next ==
    \/ \E v \in Value : Append_(v) \/ AppendLeft(v) \/ Contains(v) \/ Remove(v)
    \/ Pop \/ PopLeft \/ Peek \/ PeekLeft \/ Count \/ Clear \/ Copy
    \/ RotateRight \/ RotateLeft \/ Reverse

Spec == Init /\ [][Next]_vars

=============================================================================
