------------------------------ MODULE ListSpec ------------------------------
(***************************************************************************)
(* The list that the comments of arraylist.c describe: a sequence indexed  *)
(* from 0.  result is what the last call returned.                         *)
(***************************************************************************)
EXTENDS Integers, Sequences

CONSTANT Item

VARIABLES items, result

vars == <<items, result>>

Init == items = <<>> /\ result = <<"create">>

Add(x) == items' = Append(items, x) /\ UNCHANGED result

Pop ==
    /\ items # <<>>
    /\ result' = <<"item", items[Len(items)]>>
    /\ items' = SubSeq(items, 1, Len(items) - 1)

Get(index) ==
    /\ index < Len(items)
    /\ result' = <<"item", items[index + 1]>>
    /\ UNCHANGED items

Set(index, x) ==
    /\ index < Len(items)
    /\ items' = [items EXCEPT ![index + 1] = x]
    /\ UNCHANGED result

Insert(index, x) ==
    /\ index <= Len(items)
    /\ items' = SubSeq(items, 1, index) \o <<x>> \o SubSeq(items, index + 1, Len(items))
    /\ UNCHANGED result

Remove(index) ==
    /\ index < Len(items)
    /\ result' = <<"item", items[index + 1]>>
    /\ items' = SubSeq(items, 1, index) \o SubSeq(items, index + 2, Len(items))

Clear == items' = <<>> /\ UNCHANGED result
Size  == result' = <<"size", Len(items)>> /\ UNCHANGED items

Slice(index, length) ==
    /\ index + length <= Len(items)
    /\ result' = <<"list", SubSeq(items, index + 1, index + length)>>
    /\ UNCHANGED items

\* a list of n times x goes in at index
Splice(index, x, n) ==
    /\ index <= Len(items)
    /\ items' = SubSeq(items, 1, index) \o [k \in 1 .. n |-> x]
                    \o SubSeq(items, index + 1, Len(items))
    /\ UNCHANGED result

Next ==
    \/ \E x \in Item : Add(x)
    \/ \E index \in 0 .. Len(items) :
          \/ Get(index) \/ Remove(index)
          \/ \E x \in Item : Set(index, x) \/ Insert(index, x)
          \/ \E x \in Item, n \in 0 .. 2 : Splice(index, x, n)
          \/ \E length \in 0 .. Len(items) : Slice(index, length)
    \/ Pop \/ Clear \/ Size

Spec == Init /\ [][Next]_vars

=============================================================================
