----------------------------- MODULE ArrayList -----------------------------
(***************************************************************************)
(* arraylist.c: an array of pointers that doubles when it is full.  body   *)
(* is the memory of the array, garbage included; the memmove of            *)
(* arraylist_memshift is modelled cell by cell, so a move that reads past  *)
(* the allocated cells shows.                                              *)
(***************************************************************************)
EXTENDS Integers, Sequences

CONSTANTS
    Item,               \* the pointers the client stores
    Garbage,            \* what is in a cell nobody has written
    InitialCapacity,    \* ARRAYLIST_INITIAL_CAPACITY, 4 in the code
    MaxSize             \* bound: the client stores no more than this

ASSUME GarbageAssumption == Garbage \notin Item
ASSUME CapacityAssumption == InitialCapacity \in Nat \ {0} /\ MaxSize \in Nat

VARIABLES
    size, capacity, body,
    result,     \* what the last call returned
    overrun,    \* a call touched memory past the array
    asserted    \* an assertion ended the process

vars == <<size, capacity, body, result, overrun, asserted>>

Init ==
    /\ size = 0
    /\ capacity = InitialCapacity
    /\ body = [c \in 0 .. InitialCapacity - 1 |-> Garbage]
    /\ result = <<"create">>
    /\ overrun = FALSE /\ asserted = FALSE

Runs == ~asserted

DoubledOnce(needed) == IF needed > capacity THEN 2 * capacity ELSE capacity

\* the capacity arraylist_allocate reaches by doubling, the least that is enough
Doubled(needed) ==
    LET doublings == CHOOSE n \in 0 .. needed :
            /\ capacity * 2^n >= needed
            /\ \A m \in 0 .. n - 1 : capacity * 2^m < needed
    IN capacity * 2^doublings

\* the cells after the allocation
Grown(needed) ==
    [c \in 0 .. Doubled(needed) - 1 |-> IF c < capacity THEN body[c] ELSE Garbage]

ShiftedShort(cells, s, offset, length) ==
    [c \in DOMAIN cells |->
        IF c - offset \in s .. s + length - 2
        THEN IF c - offset \in DOMAIN cells THEN cells[c - offset] ELSE Garbage
        ELSE cells[c]]

\* memmove of length cells from s to s + offset; what lies past the array is garbage
Shifted(cells, s, offset, length) ==
    [c \in DOMAIN cells |->
        IF c - offset \in s .. s + length - 1
        THEN IF c - offset \in DOMAIN cells THEN cells[c - offset] ELSE Garbage
        ELSE cells[c]]

\* the move touches cells that are not there
Overruns(cells, s, offset, length) ==
    length > 0 /\ ~((s .. s + length - 1) \cup (s + offset .. s + offset + length - 1)
                      \subseteq DOMAIN cells)

Assert_(holds) ==
    /\ Runs
    /\ ~holds
    /\ asserted' = TRUE
    /\ UNCHANGED <<size, capacity, body, result, overrun>>

Allocate(needed) == capacity' = Doubled(needed)

Add(x) ==
    /\ Runs /\ size < MaxSize
    /\ Allocate(size + 1)
    /\ body' = [Grown(size + 1) EXCEPT ![size] = x]
    /\ size' = size + 1
    /\ UNCHANGED <<result, overrun, asserted>>

Pop ==
    /\ Runs
    /\ size > 0
    /\ size' = size - 1
    /\ result' = <<"item", body[size - 1]>>
    /\ UNCHANGED <<capacity, body, overrun, asserted>>

Get(index) ==
    /\ Runs
    /\ index < size
    /\ result' = <<"item", body[index]>>
    /\ UNCHANGED <<size, capacity, body, overrun, asserted>>

Set(index, x) ==
    /\ Runs
    /\ index < size
    /\ body' = [body EXCEPT ![index] = x]
    /\ UNCHANGED <<size, capacity, result, overrun, asserted>>

\* the assertions of pop, get, set and slice
PopAsserts        == Assert_(size > 0)
GetAsserts(index) == Assert_(index < size)
SetAsserts(index) == Assert_(index < size)

Insert(index, x) ==
    /\ Runs /\ size < MaxSize
    /\ index <= size
    /\ Allocate(size + 1)
    /\ LET cells == Grown(size + 1) IN
       /\ body' = [Shifted(cells, index, 1, size - index) EXCEPT ![index] = x]
       /\ overrun' = (overrun \/ Overruns(cells, index, 1, size - index))
    /\ size' = size + 1
    /\ UNCHANGED <<result, asserted>>

\* the move is one cell longer than what follows index
Remove(index) ==
    /\ Runs
    /\ index < size
    /\ result' = <<"item", body[index]>>
    /\ body' = Shifted(body, index + 1, -1, size - index)
    /\ overrun' = (overrun \/ Overruns(body, index + 1, -1, size - index))
    /\ size' = size - 1
    /\ UNCHANGED <<capacity, asserted>>

Clear ==
    /\ Runs
    /\ size' = 0
    /\ UNCHANGED <<capacity, body, result, overrun, asserted>>

Size ==
    /\ Runs
    /\ result' = <<"size", size>>
    /\ UNCHANGED <<size, capacity, body, overrun, asserted>>

\* the new list allocates length cells, which arraylist_allocate asserts is
\* not zero
Slice(index, length) ==
    /\ Runs
    /\ index + length <= size /\ length > 0
    /\ result' = <<"list", [n \in 1 .. length |-> body[index + n - 1]]>>
    /\ UNCHANGED <<size, capacity, body, overrun, asserted>>

SliceAsserts(index, length) ==
    Assert_(index + length <= size /\ length > 0)

\* arraylist_copy is a slice_end from 0, and that a slice of what follows
Copy        == Slice(0, size)
CopyAsserts == SliceAsserts(0, size)

\* a source list of n times x; arraylist_join is a splice at the end
Splice(index, x, n) ==
    /\ Runs /\ size + n <= MaxSize
    /\ index <= size /\ size + n > 0
    /\ Allocate(size + n)
    /\ LET cells == Grown(size + n)
           moved == Shifted(cells, index, n, size - index)
       IN
       /\ body' = [c \in DOMAIN cells |->
                      IF c \in index .. index + n - 1 THEN x ELSE moved[c]]
       /\ overrun' = (overrun \/ Overruns(cells, index, n, size - index))
    /\ size' = size + n
    /\ UNCHANGED <<result, asserted>>

SpliceAsserts(n) == Assert_(size + n > 0)

Next ==
    \/ \E x \in Item : Add(x)
    \/ \E index \in 0 .. MaxSize :
          \/ Get(index) \/ GetAsserts(index) \/ SetAsserts(index) \/ Remove(index)
          \/ \E x \in Item : Set(index, x) \/ Insert(index, x)
          \/ \E x \in Item, n \in 0 .. 2 : Splice(index, x, n)
          \/ \E length \in 0 .. MaxSize :
                Slice(index, length) \/ SliceAsserts(index, length)
    \/ \E n \in 0 .. 2 : SpliceAsserts(n)
    \/ Pop \/ PopAsserts \/ Clear \/ Size \/ Copy \/ CopyAsserts

Spec == Init /\ [][Next]_vars

-----------------------------------------------------------------------------
\* The array has capacity cells, holds size items and no garbage among them.
TypeOK ==
    /\ size \in 0 .. capacity
    /\ DOMAIN body = 0 .. capacity - 1
    /\ \A c \in DOMAIN body : body[c] \in Item \cup {Garbage}
    /\ \A c \in 0 .. size - 1 : body[c] \in Item
    /\ overrun \in BOOLEAN /\ asserted \in BOOLEAN

\* The move of arraylist_remove is one cell too long: it leaves the memory of
\* the array only where a full list loses an item, and no other call does.
OverrunOnlyWhenFull ==
    [][overrun' /\ ~overrun => size = capacity /\ size' = size - 1]_vars

Items == [n \in 1 .. size |-> body[n - 1]]

Contract == INSTANCE ListSpec WITH items <- Items

\* The calls behave as the comments of arraylist.c describe them: shifting,
\* growing and the long move of remove leave the other items in their order.
ImplementsList == Contract!Spec

=============================================================================
