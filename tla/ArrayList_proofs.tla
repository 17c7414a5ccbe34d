-------------------------- MODULE ArrayList_proofs --------------------------
(***************************************************************************)
(* Theorems about ArrayList, for any items, initial capacity and bound:    *)
(* its types, which call may leave the memory of the array, and that the   *)
(* calls behave as ListSpec says, through growth and the moves of cells.   *)
(***************************************************************************)
EXTENDS ArrayList, SequenceTheorems, FiniteSetTheorems, WellFoundedInduction, TLAPS

-----------------------------------------------------------------------------
(***************************************************************************)
(* How far an array grows.                                                 *)
(***************************************************************************)
\* A set of numbers that is not empty has a least one.
LEMMA Least ==
    ASSUME NEW S \in SUBSET Nat, S # {}
    PROVE  \E n \in S : \A m \in S : n <= m
<1> DEFINE R == OpToRel(<, Nat)
<1>1. IsWellFoundedOn(R, Nat)
    BY NatLessThanWellFounded
<1>2. \A x, y \in Nat : <<y, x>> \in R <=> y < x
    BY DEF OpToRel
<1> HIDE DEF R
<1>3. PICK n \in S : \A y \in S : ~ (<<y, n>> \in R)
    BY <1>1, WFMin
<1>4. ASSUME NEW m \in S PROVE n <= m
    <2>1. n \in Nat /\ m \in Nat
        OBVIOUS
    <2>2. ~ (m < n)
        BY <1>2, <1>3, <2>1
    <2> QED
        BY <2>1, <2>2
<1> QED
    BY <1>4

\* A power of two exceeds its exponent: a set has more subsets than elements.
LEMMA PowerExceeds ==
    ASSUME NEW n \in Nat
    PROVE  2^n \in Nat /\ 2^n > n
<1>1. IsFiniteSet(1 .. n) /\ Cardinality(1 .. n) = n
    BY FS_Interval
<1>2. IsFiniteSet(SUBSET (1 .. n)) /\ Cardinality(SUBSET (1 .. n)) = 2^n
    BY <1>1, FS_SUBSET
<1> DEFINE f == [a \in 0 .. n |-> 1 .. a]
<1>3. f \in Injection(0 .. n, SUBSET (1 .. n))
    <2>1. f \in [0 .. n -> SUBSET (1 .. n)]
        OBVIOUS
    <2>2. ASSUME NEW a \in 0 .. n, NEW b \in 0 .. n, f[a] = f[b] PROVE a = b
        <3>1. (a \in 1 .. a \/ a = 0) /\ (b \in 1 .. b \/ b = 0)
            OBVIOUS
        <3>2. 1 .. a = 1 .. b
            BY <2>2
        <3> QED
            BY <3>1, <3>2
    <2> QED
        BY <2>1, <2>2 DEF Injection, IsInjective
<1>4. IsFiniteSet(0 .. n) /\ Cardinality(0 .. n) = n + 1
    BY FS_Interval
<1>5. n + 1 <= 2^n
    BY <1>2, <1>3, <1>4, FS_Injection
<1>6. 2^n \in Nat
    BY <1>2, FS_CardinalityType
<1> QED
    BY <1>5, <1>6

\* Doubling ends at a capacity that is enough, and never shrinks the array.
LEMMA DoubledEnough ==
    ASSUME capacity \in Nat \ {0}, NEW needed \in Nat
    PROVE  /\ Doubled(needed) \in Nat \ {0}
           /\ Doubled(needed) >= needed /\ Doubled(needed) >= capacity
<1> DEFINE Enough == {n \in Nat : capacity * 2^n >= needed}
<1>1. \A n \in Nat : 2^n \in Nat /\ 2^n > n
    BY PowerExceeds
<1>2. needed \in Enough
    <2>1. 2^needed \in Nat /\ 2^needed >= needed
        BY <1>1
    <2>2. \A c \in Nat \ {0}, p \in Nat : c * p >= p
        OBVIOUS
    <2>3. capacity * 2^needed >= 2^needed /\ capacity * 2^needed \in Nat
        BY <2>1, <2>2
    <2>4. capacity * 2^needed >= needed
        BY <2>1, <2>3
    <2> QED
        BY <2>4
<1>3. PICK least \in Enough : \A m \in Enough : least <= m
    BY <1>2, Least
<1>4. least \in 0 .. needed
    BY <1>2, <1>3
<1>5. ASSUME NEW m \in 0 .. least - 1 PROVE capacity * 2^m < needed
    <2>1. m \in Nat /\ m \notin Enough
        BY <1>3
    <2>2. capacity * 2^m \in Nat
        BY <1>1, <2>1
    <2> QED
        BY <2>1, <2>2
<1> DEFINE doublings == CHOOSE n \in 0 .. needed :
                            /\ capacity * 2^n >= needed
                            /\ \A m \in 0 .. n - 1 : capacity * 2^m < needed
<1>6. doublings \in 0 .. needed /\ capacity * 2^doublings >= needed
    BY <1>3, <1>4, <1>5
<1>7. Doubled(needed) = capacity * 2^doublings
    BY DEF Doubled
<1> HIDE DEF doublings
<1>8. 2^doublings \in Nat \ {0}
    BY <1>1, <1>6
<1>9. \A c \in Nat \ {0}, p \in Nat \ {0} : c * p \in Nat \ {0} /\ c * p >= c
    OBVIOUS
<1> QED
    BY <1>6, <1>7, <1>8, <1>9

-----------------------------------------------------------------------------
(***************************************************************************)
(* Type correctness.                                                       *)
(***************************************************************************)
\* capacity never gets to zero, which doubling could not leave.
ArrayInv == TypeOK /\ capacity \in Nat \ {0}

\* The cells after an allocation: those there were, then garbage.
LEMMA GrownCells ==
    ASSUME ArrayInv, NEW needed \in Nat
    PROVE  /\ DOMAIN Grown(needed) = 0 .. Doubled(needed) - 1
           /\ \A c \in 0 .. Doubled(needed) - 1 : Grown(needed)[c] \in Item \cup {Garbage}
           /\ \A c \in 0 .. size - 1 : Grown(needed)[c] = body[c]
           /\ 0 .. size - 1 \subseteq 0 .. Doubled(needed) - 1
<1>1. Doubled(needed) \in Nat \ {0} /\ Doubled(needed) >= capacity
    BY DoubledEnough DEF ArrayInv
<1>2. size \in 0 .. capacity /\ capacity \in Nat
    BY DEF ArrayInv, TypeOK
<1>3. \A c \in 0 .. Doubled(needed) - 1 : Grown(needed)[c] \in Item \cup {Garbage}
    BY <1>1, <1>2 DEF Grown, ArrayInv, TypeOK
<1>4. \A c \in 0 .. size - 1 : c < capacity /\ c \in 0 .. Doubled(needed) - 1
    BY <1>1, <1>2
<1> QED
    BY <1>3, <1>4 DEF Grown

LEMMA TypeInit == Init => ArrayInv
<1> SUFFICES ASSUME Init PROVE ArrayInv
    OBVIOUS
<1>1. overrun \in BOOLEAN /\ asserted \in BOOLEAN
    BY DEF Init
<1>2. /\ size \in 0 .. capacity /\ capacity \in Nat \ {0}
      /\ DOMAIN body = 0 .. capacity - 1
      /\ \A c \in DOMAIN body : body[c] \in Item \cup {Garbage}
      /\ \A c \in 0 .. size - 1 : body[c] \in Item
    BY CapacityAssumption DEF Init
<1> QED
    BY <1>1, <1>2 DEF ArrayInv, TypeOK

LEMMA AddTyped == ArrayInv /\ (\E x \in Item : Add(x)) => ArrayInv'
<1> SUFFICES ASSUME ArrayInv, NEW x \in Item, Add(x) PROVE ArrayInv'
    OBVIOUS
<1>1. size + 1 \in Nat /\ size \in 0 .. capacity
    BY DEF ArrayInv, TypeOK
<1> DEFINE cap == Doubled(size + 1)
           cells == Grown(size + 1)
<1>2. cap \in Nat \ {0} /\ cap >= size + 1
    BY <1>1, DoubledEnough DEF ArrayInv
<1>3. /\ DOMAIN cells = 0 .. cap - 1
      /\ \A c \in 0 .. cap - 1 : cells[c] \in Item \cup {Garbage}
      /\ \A c \in 0 .. size - 1 : cells[c] \in Item
    BY <1>1, GrownCells DEF ArrayInv, TypeOK
<1>4. capacity' = cap /\ body' = [cells EXCEPT ![size] = x] /\ size' = size + 1
    BY DEF Add, Allocate
<1> HIDE DEF cap, cells
<1>5. /\ DOMAIN body' = 0 .. capacity' - 1 /\ size' \in 0 .. capacity'
      /\ \A c \in DOMAIN body' : body'[c] \in Item \cup {Garbage}
      /\ \A c \in 0 .. size' - 1 : body'[c] \in Item
    BY <1>1, <1>2, <1>3, <1>4
<1> QED
    BY <1>2, <1>4, <1>5 DEF Add, ArrayInv, TypeOK

\* What the cells hold after an insertion, and that it touches no other.
LEMMA InsertCells ==
    ASSUME ArrayInv, NEW index \in Nat, NEW x \in Item, Insert(index, x)
    PROVE  /\ capacity' \in Nat \ {0} /\ size' = size + 1 /\ size' \in 0 .. capacity'
           /\ DOMAIN body' = 0 .. capacity' - 1
           /\ \A c \in DOMAIN body' : body'[c] \in Item \cup {Garbage}
           /\ \A c \in 0 .. size :
                 body'[c] = IF c < index THEN body[c]
                            ELSE IF c = index THEN x ELSE body[c - 1]
           /\ index <= size /\ result' = result
           /\ overrun' = overrun
<1> DEFINE cap == Doubled(size + 1)
           cells == Grown(size + 1)
           moved == Shifted(cells, index, 1, size - index)
<1>1. size \in Nat /\ size + 1 \in Nat /\ size \in 0 .. capacity
    BY DEF ArrayInv, TypeOK
<1>2. cap \in Nat \ {0} /\ cap >= size + 1
    BY <1>1, DoubledEnough DEF ArrayInv
<1>3. /\ DOMAIN cells = 0 .. cap - 1
      /\ \A c \in 0 .. cap - 1 : cells[c] \in Item \cup {Garbage}
      /\ \A c \in 0 .. size - 1 : cells[c] = body[c]
    BY <1>1, GrownCells
<1>4. /\ capacity' = cap /\ size' = size + 1 /\ index <= size /\ result' = result
      /\ body' = [moved EXCEPT ![index] = x]
      /\ overrun' = (overrun \/ Overruns(cells, index, 1, size - index))
    BY DEF Insert, Allocate
<1> HIDE DEF cap, cells
<1>5. /\ DOMAIN moved = 0 .. cap - 1
      /\ \A c \in 0 .. cap - 1 : moved[c] \in Item \cup {Garbage}
    BY <1>3 DEF Shifted
<1>6. \A c \in 0 .. size : moved[c] = IF c <= index THEN cells[c] ELSE cells[c - 1]
    <2> SUFFICES ASSUME NEW c \in 0 .. size
                 PROVE  moved[c] = IF c <= index THEN cells[c] ELSE cells[c - 1]
        OBVIOUS
    <2>1. c \in DOMAIN cells /\ (c > index => c - 1 \in DOMAIN cells)
        BY <1>1, <1>2, <1>3
    <2>2. c - 1 \in index .. index + (size - index) - 1 <=> c > index
        BY <1>1, <1>4
    <2> QED
        BY <2>1, <2>2 DEF Shifted
<1>7. index \in 0 .. cap - 1
    BY <1>1, <1>2, <1>4
<1> HIDE DEF moved
<1>8. \A c \in 0 .. size :
         body'[c] = IF c < index THEN body[c] ELSE IF c = index THEN x ELSE body[c - 1]
    <2> SUFFICES ASSUME NEW c \in 0 .. size
                 PROVE  body'[c] = IF c < index THEN body[c]
                                   ELSE IF c = index THEN x ELSE body[c - 1]
        OBVIOUS
    <2>1. c \in 0 .. cap - 1
        BY <1>1, <1>2
    <2>2. c < index => c \in 0 .. size - 1
        BY <1>1, <1>4
    <2>3. c > index => c - 1 \in 0 .. size - 1
        BY <1>1
    <2> QED
        BY <1>3, <1>4, <1>5, <1>6, <2>1, <2>2, <2>3
<1>9. /\ DOMAIN body' = 0 .. cap - 1
      /\ \A c \in DOMAIN body' : body'[c] \in Item \cup {Garbage}
    BY <1>4, <1>5, <1>7
<1>10. overrun' = overrun
    <2>1. ~Overruns(cells, index, 1, size - index)
        BY <1>1, <1>2, <1>3, <1>4 DEF Overruns
    <2>2. overrun \in BOOLEAN
        BY DEF ArrayInv, TypeOK
    <2> QED
        BY <1>4, <2>1, <2>2
<1>11. size' \in 0 .. capacity'
    BY <1>1, <1>2, <1>4
<1> QED
    BY <1>2, <1>4, <1>8, <1>9, <1>10, <1>11

\* The same for a splice of n times x.
LEMMA SpliceCells ==
    ASSUME ArrayInv, NEW index \in Nat, NEW x \in Item, NEW n \in Nat, Splice(index, x, n)
    PROVE  /\ capacity' \in Nat \ {0} /\ size' = size + n /\ size' \in 0 .. capacity'
           /\ DOMAIN body' = 0 .. capacity' - 1
           /\ \A c \in DOMAIN body' : body'[c] \in Item \cup {Garbage}
           /\ \A c \in 0 .. size + n - 1 :
                 body'[c] = IF c < index THEN body[c]
                            ELSE IF c < index + n THEN x ELSE body[c - n]
           /\ index <= size /\ result' = result
           /\ overrun' = overrun
<1> DEFINE cap == Doubled(size + n)
           cells == Grown(size + n)
           moved == Shifted(cells, index, n, size - index)
<1>1. size \in Nat /\ size + n \in Nat /\ size \in 0 .. capacity
    BY DEF ArrayInv, TypeOK
<1>2. cap \in Nat \ {0} /\ cap >= size + n
    BY <1>1, DoubledEnough DEF ArrayInv
<1>3. /\ DOMAIN cells = 0 .. cap - 1
      /\ \A c \in 0 .. cap - 1 : cells[c] \in Item \cup {Garbage}
      /\ \A c \in 0 .. size - 1 : cells[c] = body[c]
    BY <1>1, GrownCells
<1>4. /\ capacity' = cap /\ size' = size + n /\ index <= size /\ result' = result
      /\ body' = [c \in DOMAIN cells |->
                     IF c \in index .. index + n - 1 THEN x ELSE moved[c]]
      /\ overrun' = (overrun \/ Overruns(cells, index, n, size - index))
    BY DEF Splice, Allocate
<1> HIDE DEF cap, cells
<1>5. /\ DOMAIN moved = 0 .. cap - 1
      /\ \A c \in 0 .. cap - 1 : moved[c] \in Item \cup {Garbage}
    BY <1>3 DEF Shifted
<1>6. ASSUME NEW c \in 0 .. size + n - 1
      PROVE  /\ c < index => moved[c] = body[c]
             /\ c >= index + n => moved[c] = body[c - n]
    <2>1. c \in DOMAIN cells /\ (c >= index + n => c - n \in DOMAIN cells)
        BY <1>1, <1>2, <1>3, <1>4
    <2>2. c - n \in index .. index + (size - index) - 1 <=> c >= index + n
        BY <1>1, <1>4
    <2>3. moved[c] = IF c >= index + n THEN cells[c - n] ELSE cells[c]
        BY <2>1, <2>2 DEF Shifted
    <2>4. (c < index => c \in 0 .. size - 1) /\ (c >= index + n => c - n \in 0 .. size - 1)
        BY <1>1, <1>4
    <2>5. c < index => ~(c >= index + n)
        BY <1>1
    <2> HIDE DEF moved
    <2> QED
        BY <1>3, <2>3, <2>4, <2>5
<1> HIDE DEF moved
<1>7. \A c \in 0 .. size + n - 1 :
         body'[c] = IF c < index THEN body[c]
                    ELSE IF c < index + n THEN x ELSE body[c - n]
    <2> SUFFICES ASSUME NEW c \in 0 .. size + n - 1
                 PROVE  body'[c] = IF c < index THEN body[c]
                                   ELSE IF c < index + n THEN x ELSE body[c - n]
        OBVIOUS
    <2>1. c \in DOMAIN cells
        BY <1>1, <1>2, <1>3
    <2>2. body'[c] = IF c \in index .. index + n - 1 THEN x ELSE moved[c]
        BY <1>4, <2>1
    <2> QED
        BY <1>6, <2>2
<1>8. /\ DOMAIN body' = 0 .. cap - 1
      /\ \A c \in DOMAIN body' : body'[c] \in Item \cup {Garbage}
    BY <1>3, <1>4, <1>5
<1>9. overrun' = overrun
    <2>1. ~Overruns(cells, index, n, size - index)
        BY <1>1, <1>2, <1>3, <1>4 DEF Overruns
    <2>2. overrun \in BOOLEAN
        BY DEF ArrayInv, TypeOK
    <2> QED
        BY <1>4, <2>1, <2>2
<1>10. size' \in 0 .. capacity'
    BY <1>1, <1>2, <1>4
<1> QED
    BY <1>2, <1>4, <1>7, <1>8, <1>9, <1>10

\* The same for a removal, whose move leaves the array only when that is full.
LEMMA RemoveCells ==
    ASSUME ArrayInv, NEW index \in Nat, Remove(index)
    PROVE  /\ capacity' = capacity /\ size' = size - 1 /\ size' \in 0 .. capacity'
           /\ DOMAIN body' = 0 .. capacity' - 1
           /\ \A c \in DOMAIN body' : body'[c] \in Item \cup {Garbage}
           /\ \A c \in 0 .. size - 2 : body'[c] = IF c < index THEN body[c] ELSE body[c + 1]
           /\ index < size /\ result' = <<"item", body[index]>>
           /\ overrun' = (overrun \/ size = capacity)
<1>1. size \in Nat /\ size \in 0 .. capacity /\ capacity \in Nat \ {0}
    BY DEF ArrayInv, TypeOK
<1>2. /\ DOMAIN body = 0 .. capacity - 1
      /\ \A c \in 0 .. capacity - 1 : body[c] \in Item \cup {Garbage}
    BY DEF ArrayInv, TypeOK
<1>3. /\ capacity' = capacity /\ size' = size - 1 /\ index < size
      /\ result' = <<"item", body[index]>>
      /\ body' = Shifted(body, index + 1, -1, size - index)
      /\ overrun' = (overrun \/ Overruns(body, index + 1, -1, size - index))
    BY DEF Remove
<1>4. /\ DOMAIN body' = 0 .. capacity - 1
      /\ \A c \in DOMAIN body' : body'[c] \in Item \cup {Garbage}
    BY <1>2, <1>3 DEF Shifted
<1>5. \A c \in 0 .. size - 2 : body'[c] = IF c < index THEN body[c] ELSE body[c + 1]
    <2> SUFFICES ASSUME NEW c \in 0 .. size - 2
                 PROVE  body'[c] = IF c < index THEN body[c] ELSE body[c + 1]
        OBVIOUS
    <2>1. c \in DOMAIN body /\ c + 1 \in DOMAIN body
        BY <1>1, <1>2
    <2>2. c - (-1) = c + 1
        OBVIOUS
    <2>3. c + 1 \in index + 1 .. index + 1 + (size - index) - 1 <=> ~(c < index)
        BY <1>1, <1>3
    <2> QED
        BY <1>3, <2>1, <2>2, <2>3 DEF Shifted
<1>6. Overruns(body, index + 1, -1, size - index) <=> size = capacity
    <2>1. size - index > 0 /\ index + 1 + (size - index) - 1 = size
        BY <1>1, <1>3
    <2>2. index + 1 + -1 = index /\ index + 1 + -1 + (size - index) - 1 = size - 1
        BY <1>1, <1>3
    <2>3. Overruns(body, index + 1, -1, size - index)
              <=> ~((index + 1 .. size) \cup (index .. size - 1) \subseteq 0 .. capacity - 1)
        BY <1>2, <2>1, <2>2 DEF Overruns
    <2>4. size \in index + 1 .. size
        BY <1>1, <1>3
    <2> QED
        BY <1>1, <1>3, <2>3, <2>4
<1>7. overrun' = (overrun \/ size = capacity)
    BY <1>3, <1>6
<1>8. size' \in 0 .. capacity'
    BY <1>1, <1>3
<1> QED
    BY <1>3, <1>4, <1>5, <1>7, <1>8

LEMMA TypeStep == ArrayInv /\ [Next]_vars => ArrayInv'
<1> SUFFICES ASSUME ArrayInv, [Next]_vars PROVE ArrayInv'
    OBVIOUS
<1>1. /\ size \in Nat /\ size \in 0 .. capacity /\ capacity \in Nat \ {0}
      /\ DOMAIN body = 0 .. capacity - 1
      /\ \A c \in DOMAIN body : body[c] \in Item \cup {Garbage}
      /\ \A c \in 0 .. size - 1 : body[c] \in Item
    BY DEF ArrayInv, TypeOK
<1>2. overrun \in BOOLEAN /\ asserted \in BOOLEAN
    BY DEF ArrayInv, TypeOK
<1>3. ASSUME /\ size' \in 0 .. capacity' /\ capacity' \in Nat \ {0}
             /\ DOMAIN body' = 0 .. capacity' - 1
             /\ \A c \in DOMAIN body' : body'[c] \in Item \cup {Garbage}
             /\ \A c \in 0 .. size' - 1 : body'[c] \in Item,
             overrun' \in BOOLEAN, asserted' \in BOOLEAN
      PROVE  ArrayInv'
    BY <1>3 DEF ArrayInv, TypeOK
<1>4. CASE UNCHANGED <<size, capacity, body, overrun, asserted>>
    BY <1>4 DEF ArrayInv, TypeOK
<1>5. ASSUME NEW holds, Assert_(holds) PROVE ArrayInv'
    BY <1>1, <1>2, <1>3, <1>5 DEF Assert_
<1>6. CASE \E x \in Item : Add(x)
    BY <1>6, AddTyped
<1>7. CASE Pop
    BY <1>1, <1>2, <1>3, <1>7 DEF Pop
<1>8. CASE \E index \in 0 .. MaxSize, x \in Item : Set(index, x)
    <2>1. PICK index \in 0 .. MaxSize, x \in Item : Set(index, x)
        BY <1>8
    <2>2. index \in 0 .. size - 1
        BY <2>1, <1>1, CapacityAssumption DEF Set
    <2> QED
        BY <1>1, <1>2, <1>3, <2>1, <2>2 DEF Set
<1>9. CASE \E index \in 0 .. MaxSize, x \in Item : Insert(index, x)
    <2>1. PICK index \in 0 .. MaxSize, x \in Item : Insert(index, x)
        BY <1>9
    <2>2. index \in Nat
        BY CapacityAssumption
    <2>3. \A c \in 0 .. size' - 1 : body'[c] \in Item
        <3> SUFFICES ASSUME NEW c \in 0 .. size' - 1 PROVE body'[c] \in Item
            OBVIOUS
        <3>1. size' = size + 1 /\ c \in 0 .. size /\ index <= size
            BY <1>1, <2>1, <2>2, InsertCells
        <3>2. body'[c] = IF c < index THEN body[c] ELSE IF c = index THEN x ELSE body[c - 1]
            BY <2>1, <2>2, <3>1, InsertCells
        <3> QED
            BY <1>1, <2>2, <3>1, <3>2
    <2>4. asserted' = asserted
        BY <2>1 DEF Insert
    <2> QED
        BY <1>2, <1>3, <2>1, <2>2, <2>3, <2>4, InsertCells
<1>10. CASE \E index \in 0 .. MaxSize, x \in Item, n \in 0 .. 2 : Splice(index, x, n)
    <2>1. PICK index \in 0 .. MaxSize, x \in Item, n \in 0 .. 2 : Splice(index, x, n)
        BY <1>10
    <2>2. index \in Nat /\ n \in Nat
        BY CapacityAssumption
    <2>3. \A c \in 0 .. size' - 1 : body'[c] \in Item
        <3> SUFFICES ASSUME NEW c \in 0 .. size' - 1 PROVE body'[c] \in Item
            OBVIOUS
        <3>1. size' = size + n /\ c \in 0 .. size + n - 1 /\ index <= size
            BY <1>1, <2>1, <2>2, SpliceCells
        <3>2. body'[c] = IF c < index THEN body[c]
                         ELSE IF c < index + n THEN x ELSE body[c - n]
            BY <2>1, <2>2, <3>1, SpliceCells
        <3> QED
            BY <1>1, <2>2, <3>1, <3>2
    <2>4. asserted' = asserted
        BY <2>1 DEF Splice
    <2> QED
        BY <1>2, <1>3, <2>1, <2>2, <2>3, <2>4, SpliceCells
<1>11. CASE \E index \in 0 .. MaxSize : Remove(index)
    <2>1. PICK index \in 0 .. MaxSize : Remove(index)
        BY <1>11
    <2>2. index \in Nat
        BY CapacityAssumption
    <2>3. \A c \in 0 .. size' - 1 : body'[c] \in Item
        <3> SUFFICES ASSUME NEW c \in 0 .. size' - 1 PROVE body'[c] \in Item
            OBVIOUS
        <3>1. size' = size - 1 /\ c \in 0 .. size - 2
            BY <1>1, <2>1, <2>2, RemoveCells
        <3>2. body'[c] = IF c < index THEN body[c] ELSE body[c + 1]
            BY <2>1, <2>2, <3>1, RemoveCells
        <3> QED
            BY <1>1, <2>2, <3>1, <3>2
    <2>4. asserted' = asserted
        BY <2>1 DEF Remove
    <2>5. overrun' \in BOOLEAN
        BY <2>1 DEF Remove
    <2> QED
        BY <1>1, <1>2, <1>3, <2>1, <2>2, <2>3, <2>4, <2>5, RemoveCells
<1>12. CASE Clear
    BY <1>1, <1>2, <1>3, <1>12 DEF Clear
<1>13. ASSUME NEW index, NEW length, Slice(index, length) PROVE ArrayInv'
    BY <1>4, <1>13 DEF Slice
<1>14. ASSUME NEW index, Get(index) PROVE ArrayInv'
    BY <1>4, <1>14 DEF Get
<1>15. CASE Size
    BY <1>4, <1>15 DEF Size
<1>16. CASE UNCHANGED vars
    BY <1>4, <1>16 DEF vars
<1> QED
    BY <1>5, <1>6, <1>7, <1>8, <1>9, <1>10, <1>11, <1>12, <1>13, <1>14, <1>15, <1>16
    DEF Next, PopAsserts, GetAsserts, SetAsserts, SliceAsserts, SpliceAsserts, Copy,
        CopyAsserts

\* TypeOK for any items and any initial capacity: no item is ever garbage, although the
\* move of arraylist_remove may bring garbage into the cell behind the last.
THEOREM TypeCorrect == Spec => []TypeOK
<1>1. ArrayInv => TypeOK
    BY DEF ArrayInv
<1> QED
    BY <1>1, TypeInit, TypeStep, PTL DEF Spec

-----------------------------------------------------------------------------
(***************************************************************************)
(* The move that is too long.                                              *)
(***************************************************************************)
LEMMA OverrunStep ==
    ArrayInv /\ [Next]_vars => (overrun' /\ ~overrun => size = capacity /\ size' = size - 1)
<1> SUFFICES ASSUME ArrayInv, [Next]_vars, overrun' # overrun
             PROVE  size = capacity /\ size' = size - 1
    OBVIOUS
<1>1. ASSUME NEW index \in 0 .. MaxSize, NEW x \in Item, Insert(index, x) PROVE FALSE
    BY <1>1, CapacityAssumption, InsertCells
<1>2. ASSUME NEW index \in 0 .. MaxSize, NEW x \in Item, NEW n \in 0 .. 2,
             Splice(index, x, n)
      PROVE  FALSE
    BY <1>2, CapacityAssumption, SpliceCells
<1>3. ASSUME NEW index \in 0 .. MaxSize, Remove(index)
      PROVE  size = capacity /\ size' = size - 1
    BY <1>3, CapacityAssumption, RemoveCells DEF ArrayInv, TypeOK
<1>4. CASE \E x \in Item : Add(x)
    BY <1>4 DEF Add
<1>5. ASSUME NEW index, NEW x, Set(index, x) PROVE FALSE
    BY <1>5 DEF Set
<1>6. ASSUME NEW holds, Assert_(holds) PROVE FALSE
    BY <1>6 DEF Assert_
<1>7. ASSUME NEW index, Get(index) PROVE FALSE
    BY <1>7 DEF Get
<1>8. ASSUME NEW index, NEW length, Slice(index, length) PROVE FALSE
    BY <1>8 DEF Slice
<1>9. CASE Pop \/ Clear \/ Size \/ UNCHANGED vars
    BY <1>9 DEF Pop, Clear, Size, vars
<1> QED
    BY <1>1, <1>2, <1>3, <1>4, <1>5, <1>6, <1>7, <1>8, <1>9
    DEF Next, PopAsserts, GetAsserts, SetAsserts, SliceAsserts, SpliceAsserts, Copy,
        CopyAsserts

\* OverrunOnlyWhenFull for any items and any initial capacity.
THEOREM OverrunsOnlyWhenFull == Spec => OverrunOnlyWhenFull
    BY TypeInit, TypeStep, OverrunStep, PTL DEF Spec, OverrunOnlyWhenFull

-----------------------------------------------------------------------------
(***************************************************************************)
(* The calls behave as ListSpec says.                                      *)
(***************************************************************************)
\* The parts of a sequence.
LEMMA Part ==
    ASSUME NEW S, NEW s \in Seq(S), NEW a \in Nat \ {0}, NEW b \in Nat,
           b <= Len(s), a <= b + 1
    PROVE  /\ SubSeq(s, a, b) \in Seq(S) /\ Len(SubSeq(s, a, b)) = b - a + 1
           /\ \A k \in 1 .. b - a + 1 : SubSeq(s, a, b)[k] = s[a + k - 1]
<1>1. Len(s) \in Nat /\ \A k \in a .. b : k \in 1 .. Len(s)
    BY LenProperties
<1>2. \A k \in a .. b : s[k] \in S
    BY <1>1, ElementOfSeq
<1> QED
    BY <1>2, SubSeqProperties

\* Two sequences of known lengths, one after the other.
Follows(t, s1, i, s2, j) ==
    /\ Len(t) = i + j
    /\ \A k \in 1 .. i + j : t[k] = IF k <= i THEN s1[k] ELSE s2[k - i]

LEMMA Concatenated ==
    ASSUME NEW S, NEW s1, NEW s2, s1 \in Seq(S), s2 \in Seq(S),
           NEW i \in Nat, NEW j \in Nat, Len(s1) = i, Len(s2) = j
    PROVE  s1 \o s2 \in Seq(S) /\ Follows(s1 \o s2, s1, i, s2, j)
    BY ConcatProperties DEF Follows

\* A middle put in after the first i elements.
Joined(s, i, mid) == SubSeq(s, 1, i) \o mid \o SubSeq(s, i + 1, Len(s))

\* What t, of l + n elements, then holds.
Contains(t, s, l, i, mid, n) ==
    /\ Len(t) = l + n
    /\ \A k \in 1 .. l + n : t[k] = IF k <= i THEN s[k]
                                    ELSE IF k <= i + n THEN mid[k - i]
                                    ELSE s[k - n]

LEMMA JoinedParts ==
    ASSUME NEW S, NEW s \in Seq(S), NEW mid \in Seq(S), NEW n \in Nat, n = Len(mid),
           NEW i \in 0 .. Len(s)
    PROVE  /\ Joined(s, i, mid) \in Seq(S)
           /\ Contains(Joined(s, i, mid), s, Len(s), i, mid, n)
<1> DEFINE l == Len(s)
           first == SubSeq(s, 1, i)
           last == SubSeq(s, i + 1, l)
           start == first \o mid
           u == start \o last
<1>1. l \in Nat /\ i \in Nat /\ l - i \in Nat
    BY LenProperties
<1>2. first \in Seq(S) /\ Len(first) = i /\ \A k \in 1 .. i : first[k] = s[k]
    <2>1. 1 <= i + 1 /\ i <= l /\ i - 1 + 1 = i /\ \A k \in 1 .. i : 1 + k - 1 = k
        BY <1>1
    <2> QED
        BY <1>1, <2>1, Part
<1>3. /\ last \in Seq(S) /\ Len(last) = l - i
      /\ \A k \in 1 .. l - i : last[k] = s[i + k]
    <2>1. /\ i + 1 \in Nat \ {0} /\ i + 1 <= l + 1 /\ l - (i + 1) + 1 = l - i
          /\ \A k \in 1 .. l - i : i + 1 + k - 1 = i + k
        BY <1>1
    <2>2. /\ last \in Seq(S) /\ Len(last) = l - (i + 1) + 1
          /\ \A k \in 1 .. l - (i + 1) + 1 : last[k] = s[i + 1 + k - 1]
        <3>1. /\ s \in Seq(S) /\ i + 1 \in Nat \ {0} /\ l \in Nat
              /\ l <= Len(s) /\ i + 1 <= l + 1
            BY <1>1, <2>1
        <3> QED
            BY <3>1, Part, Zenon
    <2> HIDE DEF last, l
    <2> QED
        BY <2>1, <2>2
<1>4. Joined(s, i, mid) = u
    BY DEF Joined
<1> HIDE DEF first, last, l
<1>5. /\ start \in Seq(S) /\ Len(start) = i + n
      /\ \A k \in 1 .. i + n : start[k] = IF k <= i THEN first[k] ELSE mid[k - i]
    BY <1>1, <1>2, ConcatProperties
<1> HIDE DEF start
<1>6. /\ u \in Seq(S) /\ Len(u) = l + n
      /\ \A k \in 1 .. l + n : u[k] = IF k <= i + n THEN start[k] ELSE last[k - (i + n)]
    <2> DEFINE a == i + n
               b == l - i
    <2>1. /\ start \in Seq(S) /\ last \in Seq(S) /\ Len(start) = a /\ Len(last) = b
          /\ a \in Nat /\ b \in Nat /\ a + b = l + n
        BY <1>1, <1>3, <1>5
    <2> HIDE DEF a, b
    <2>2. /\ u \in Seq(S) /\ Len(u) = a + b
          /\ \A k \in 1 .. a + b : u[k] = IF k <= a THEN start[k] ELSE last[k - a]
        <3>1. u \in Seq(S) /\ Follows(u, start, a, last, b)
            BY <2>1, Concatenated, Zenon
        <3> HIDE DEF u
        <3> QED
            BY <3>1 DEF Follows
    <2> QED
        BY <2>1, <2>2 DEF a
<1> HIDE DEF u
<1>7. ASSUME NEW k \in 1 .. l + n
      PROVE  u[k] = IF k <= i THEN s[k] ELSE IF k <= i + n THEN mid[k - i] ELSE s[k - n]
    <2>1. CASE k <= i + n
        <3>1. u[k] = start[k] /\ k \in 1 .. i + n
            BY <1>1, <1>6, <2>1
        <3>2. ASSUME k <= i PROVE first[k] = s[k]
            <4>1. k \in 1 .. i
                BY <1>1, <3>1, <3>2
            <4> QED
                BY <1>2, <4>1
        <3> QED
            BY <1>5, <2>1, <3>1, <3>2
    <2>2. CASE ~(k <= i + n)
        <3>1. u[k] = last[k - (i + n)] /\ ~(k <= i)
            BY <1>1, <1>6, <2>2
        <3>2. k - (i + n) \in 1 .. l - i /\ i + (k - (i + n)) = k - n
            BY <1>1, <2>2
        <3> QED
            BY <1>3, <2>2, <3>1, <3>2
    <2> QED
        BY <2>1, <2>2
<1> QED
    BY <1>4, <1>6, <1>7 DEF l, Contains

\* The items are those of the cells that are in use.
LEMMA ItemsAre ==
    ArrayInv => /\ Items \in Seq(Item) /\ Len(Items) = size /\ size \in Nat
                /\ \A k \in 1 .. size : Items[k] = body[k - 1]
<1> SUFFICES ASSUME ArrayInv
             PROVE  /\ Items \in Seq(Item) /\ Len(Items) = size /\ size \in Nat
                    /\ \A k \in 1 .. size : Items[k] = body[k - 1]
    OBVIOUS
<1>1. size \in Nat /\ \A c \in 0 .. size - 1 : body[c] \in Item
    BY DEF ArrayInv, TypeOK
<1>2. \A k \in 1 .. size : k - 1 \in 0 .. size - 1
    BY <1>1
<1>3. Items \in [1 .. size -> Item]
    BY <1>1, <1>2 DEF Items
<1> QED
    BY <1>1, <1>3, SeqDef, LenProperties DEF Items

\* The items after a step that leaves size cells with the elements of t.
LEMMA ItemsBecome ==
    ASSUME ArrayInv', NEW t \in Seq(Item), Len(t) = size',
           \A k \in 1 .. size' : body'[k - 1] = t[k]
    PROVE  Items' = t
<1>1. (/\ Items \in Seq(Item) /\ Len(Items) = size /\ size \in Nat
       /\ \A k \in 1 .. size : Items[k] = body[k - 1])'
    BY ItemsAre, PTL
<1> QED
    BY <1>1, SeqEqual

LEMMA AddListed ==
    ASSUME ArrayInv, ArrayInv', NEW x \in Item, Add(x)
    PROVE  Contract!Add(x)
<1> DEFINE t == Append(Items, x)
<1>1. /\ Items \in Seq(Item) /\ Len(Items) = size /\ size \in Nat
      /\ \A k \in 1 .. size : Items[k] = body[k - 1]
    BY ItemsAre
<1>2. /\ t \in Seq(Item) /\ Len(t) = size + 1
      /\ \A k \in 1 .. size : t[k] = Items[k]
      /\ t[size + 1] = x
    BY <1>1, AppendProperties
<1>3. body' = [Grown(size + 1) EXCEPT ![size] = x] /\ size' = size + 1 /\ result' = result
    BY DEF Add
<1>4. ASSUME NEW k \in 1 .. size' PROVE body'[k - 1] = t[k]
    <2>1. k - 1 \in 0 .. size /\ size \in 0 .. Doubled(size + 1) - 1
        BY <1>1, <1>3, DoubledEnough DEF ArrayInv
    <2>2. /\ DOMAIN Grown(size + 1) = 0 .. Doubled(size + 1) - 1
          /\ 0 .. size - 1 \subseteq 0 .. Doubled(size + 1) - 1
          /\ \A c \in 0 .. size - 1 : Grown(size + 1)[c] = body[c]
        BY <1>1, GrownCells
    <2>3. CASE k = size + 1
        <3>1. k - 1 = size
            BY <1>1, <2>3
        <3>2. size \in DOMAIN Grown(size + 1)
            BY <2>1, <2>2
        <3>3. body'[size] = x
            BY <1>3, <3>2
        <3> QED
            BY <1>2, <2>3, <3>1, <3>3
    <2>4. CASE k # size + 1
        <3>1. k \in 1 .. size /\ k - 1 \in 0 .. size - 1 /\ k - 1 # size
            BY <1>1, <1>3, <2>4
        <3> QED
            BY <1>1, <1>2, <1>3, <2>2, <3>1
    <2> QED
        BY <2>3, <2>4
<1>5. Items' = t
    BY <1>2, <1>3, <1>4, ItemsBecome
<1> QED
    BY <1>3, <1>5 DEF Contract!Add

LEMMA PopListed ==
    ASSUME ArrayInv, ArrayInv', Pop
    PROVE  Contract!Pop
<1>1. /\ Items \in Seq(Item) /\ Len(Items) = size /\ size \in Nat
      /\ \A k \in 1 .. size : Items[k] = body[k - 1]
    BY ItemsAre
<1>2. /\ size > 0 /\ size' = size - 1 /\ result' = <<"item", body[size - 1]>>
      /\ body' = body
    BY DEF Pop
<1> DEFINE t == SubSeq(Items, 1, size - 1)
<1>3. t \in Seq(Item) /\ Len(t) = size - 1 /\ \A k \in 1 .. size - 1 : t[k] = Items[k]
    <2>1. /\ size - 1 \in Nat /\ size - 1 <= Len(Items) /\ 1 <= size - 1 + 1
          /\ size - 1 - 1 + 1 = size - 1
        BY <1>1, <1>2
    <2>2. \A k \in 1 .. size - 1 : 1 + k - 1 = k
        BY <1>1
    <2> HIDE DEF t
    <2> QED
        BY <1>1, <2>1, <2>2, Part DEF t
<1>4. \A k \in 1 .. size - 1 : k \in 1 .. size
    BY <1>1
<1>5. Items' = t
    BY <1>1, <1>2, <1>3, <1>4, ItemsBecome
<1>6. Items # <<>> /\ Items[size] = body[size - 1]
    BY <1>1, <1>2, EmptySeq
<1> QED
    BY <1>1, <1>2, <1>5, <1>6 DEF Contract!Pop

LEMMA SetListed ==
    ASSUME ArrayInv, ArrayInv', NEW index \in Nat, NEW x \in Item, Set(index, x)
    PROVE  Contract!Set(index, x)
<1>1. /\ Items \in Seq(Item) /\ Len(Items) = size /\ size \in Nat
      /\ \A k \in 1 .. size : Items[k] = body[k - 1]
    BY ItemsAre
<1>2. /\ index < size /\ size' = size /\ result' = result
      /\ body' = [body EXCEPT ![index] = x]
    BY DEF Set
<1> DEFINE t == [Items EXCEPT ![index + 1] = x]
<1>3. /\ t \in Seq(Item) /\ Len(t) = size
      /\ \A k \in 1 .. size : t[k] = IF k = index + 1 THEN x ELSE Items[k]
    <2>1. index + 1 \in 1 .. Len(Items)
        BY <1>1, <1>2
    <2> QED
        BY <1>1, <2>1, ExceptSeq
<1>4. ASSUME NEW k \in 1 .. size PROVE body'[k - 1] = t[k]
    <2>1. k - 1 \in DOMAIN body
        BY <1>1 DEF ArrayInv, TypeOK
    <2>2. k - 1 = index <=> k = index + 1
        BY <1>1
    <2> HIDE DEF t
    <2> QED
        BY <1>1, <1>2, <1>3, <2>1, <2>2
<1>5. Items' = t
    BY <1>2, <1>3, <1>4, ItemsBecome
<1> QED
    BY <1>1, <1>2, <1>5 DEF Contract!Set

LEMMA InsertListed ==
    ASSUME ArrayInv, ArrayInv', NEW index \in Nat, NEW x \in Item, Insert(index, x)
    PROVE  Contract!Insert(index, x)
<1>1. /\ Items \in Seq(Item) /\ Len(Items) = size /\ size \in Nat
      /\ \A k \in 1 .. size : Items[k] = body[k - 1]
    BY ItemsAre
<1>2. /\ index <= size /\ size' = size + 1 /\ result' = result
      /\ \A c \in 0 .. size :
            body'[c] = IF c < index THEN body[c] ELSE IF c = index THEN x ELSE body[c - 1]
    BY InsertCells
<1> DEFINE t == SubSeq(Items, 1, index) \o <<x>> \o SubSeq(Items, index + 1, Len(Items))
<1>3. <<x>> \in Seq(Item) /\ Len(<<x>>) = 1 /\ <<x>>[1] = x
    OBVIOUS
<1>4. /\ t \in Seq(Item) /\ Len(t) = size + 1
      /\ \A k \in 1 .. size + 1 : t[k] = IF k <= index THEN Items[k]
                                        ELSE IF k <= index + 1 THEN <<x>>[k - index]
                                        ELSE Items[k - 1]
    <2>1. index \in 0 .. Len(Items)
        BY <1>1, <1>2
    <2>2. Items \in Seq(Item) /\ <<x>> \in Seq(Item) /\ 1 \in Nat /\ 1 = Len(<<x>>)
        BY <1>1, <1>3
    <2>3. /\ Joined(Items, index, <<x>>) \in Seq(Item)
          /\ Contains(Joined(Items, index, <<x>>), Items, Len(Items), index, <<x>>, 1)
        BY <2>1, <2>2, JoinedParts, Zenon
    <2>4. t = Joined(Items, index, <<x>>)
        BY DEF Joined
    <2> HIDE DEF t
    <2> QED
        BY <1>1, <2>3, <2>4 DEF Contains
<1> HIDE DEF t
<1>5. ASSUME NEW k \in 1 .. size' PROVE body'[k - 1] = t[k]
    <2>1. k \in 1 .. size + 1 /\ k - 1 \in 0 .. size
        BY <1>1, <1>2
    <2>2. CASE k <= index
        <3>1. t[k] = Items[k] /\ k \in 1 .. size /\ k - 1 < index
            BY <1>1, <1>2, <1>4, <2>1, <2>2
        <3> QED
            BY <1>1, <1>2, <2>1, <3>1
    <2>3. CASE k = index + 1
        <3>1. ~(k <= index) /\ k <= index + 1 /\ k - index = 1 /\ k - 1 = index
            BY <2>1, <2>3
        <3>2. t[k] = <<x>>[k - index]
            BY <1>4, <2>1, <3>1
        <3>3. t[k] = x
            BY <1>3, <3>1, <3>2
        <3> QED
            BY <1>2, <2>1, <3>1, <3>3
    <2>4. CASE k > index + 1
        <3>1. t[k] = Items[k - 1] /\ k - 1 \in 1 .. size /\ k - 1 > index
            BY <1>1, <1>4, <2>1, <2>4
        <3> QED
            BY <1>1, <1>2, <2>1, <3>1
    <2> QED
        BY <2>1, <2>2, <2>3, <2>4
<1>6. Items' = t
    BY <1>2, <1>4, <1>5, ItemsBecome
<1> QED
    BY <1>1, <1>2, <1>6 DEF Contract!Insert, t

LEMMA SpliceListed ==
    ASSUME ArrayInv, ArrayInv', NEW index \in Nat, NEW x \in Item, NEW n \in Nat,
           Splice(index, x, n)
    PROVE  Contract!Splice(index, x, n)
<1>1. /\ Items \in Seq(Item) /\ Len(Items) = size /\ size \in Nat
      /\ \A k \in 1 .. size : Items[k] = body[k - 1]
    BY ItemsAre
<1>2. /\ index <= size /\ size' = size + n /\ result' = result
      /\ \A c \in 0 .. size + n - 1 :
            body'[c] = IF c < index THEN body[c]
                       ELSE IF c < index + n THEN x ELSE body[c - n]
    BY SpliceCells
<1> DEFINE mid == [k \in 1 .. n |-> x]
           t == SubSeq(Items, 1, index) \o mid \o SubSeq(Items, index + 1, Len(Items))
<1>3. mid \in Seq(Item) /\ Len(mid) = n /\ \A k \in 1 .. n : mid[k] = x
    BY SeqDef, LenProperties
<1> HIDE DEF mid
<1>4. /\ t \in Seq(Item) /\ Len(t) = size + n
      /\ \A k \in 1 .. size + n : t[k] = IF k <= index THEN Items[k]
                                        ELSE IF k <= index + n THEN mid[k - index]
                                        ELSE Items[k - n]
    <2>1. index \in 0 .. Len(Items)
        BY <1>1, <1>2
    <2>2. Items \in Seq(Item) /\ mid \in Seq(Item) /\ n \in Nat /\ n = Len(mid)
        BY <1>1, <1>3
    <2>3. /\ Joined(Items, index, mid) \in Seq(Item)
          /\ Contains(Joined(Items, index, mid), Items, Len(Items), index, mid, n)
        BY <2>1, <2>2, JoinedParts, Zenon
    <2>4. t = Joined(Items, index, mid)
        BY DEF Joined
    <2> HIDE DEF t
    <2> QED
        BY <1>1, <2>3, <2>4 DEF Contains
<1> HIDE DEF t
<1>5. ASSUME NEW k \in 1 .. size' PROVE body'[k - 1] = t[k]
    <2>1. k \in 1 .. size + n /\ k - 1 \in 0 .. size + n - 1
        BY <1>1, <1>2
    <2>2. CASE k <= index
        <3>1. t[k] = Items[k] /\ k \in 1 .. size /\ k - 1 < index
            BY <1>1, <1>2, <1>4, <2>1, <2>2
        <3> QED
            BY <1>1, <1>2, <2>1, <3>1
    <2>3. CASE k > index /\ k <= index + n
        <3>1. t[k] = x /\ ~(k - 1 < index) /\ k - 1 < index + n
            BY <1>3, <1>4, <2>1, <2>3
        <3> QED
            BY <1>2, <2>1, <3>1
    <2>4. CASE k > index + n
        <3>1. ~(k <= index) /\ ~(k <= index + n) /\ k - n \in 1 .. size
            BY <1>1, <2>1, <2>4
        <3>2. ~(k - 1 < index) /\ ~(k - 1 < index + n) /\ k - n - 1 = k - 1 - n
            BY <2>1, <2>4
        <3>3. t[k] = Items[k - n]
            BY <1>4, <2>1, <3>1
        <3>4. Items[k - n] = body[k - 1 - n]
            BY <1>1, <3>1, <3>2
        <3>5. body'[k - 1] = body[k - 1 - n]
            BY <1>2, <2>1, <3>2
        <3> QED
            BY <3>3, <3>4, <3>5
    <2> QED
        BY <2>1, <2>2, <2>3, <2>4
<1>6. Items' = t
    BY <1>2, <1>4, <1>5, ItemsBecome
<1> QED
    BY <1>1, <1>2, <1>6 DEF Contract!Splice, t, mid

LEMMA RemoveListed ==
    ASSUME ArrayInv, ArrayInv', NEW index \in Nat, Remove(index)
    PROVE  Contract!Remove(index)
<1>1. /\ Items \in Seq(Item) /\ Len(Items) = size /\ size \in Nat
      /\ \A k \in 1 .. size : Items[k] = body[k - 1]
    BY ItemsAre
<1>2. /\ index < size /\ size' = size - 1 /\ result' = <<"item", body[index]>>
      /\ \A c \in 0 .. size - 2 : body'[c] = IF c < index THEN body[c] ELSE body[c + 1]
    BY RemoveCells
<1> DEFINE first == SubSeq(Items, 1, index)
           last == SubSeq(Items, index + 2, Len(Items))
           t == first \o last
<1>3. first \in Seq(Item) /\ Len(first) = index /\ \A k \in 1 .. index : first[k] = Items[k]
    <2>1. index <= Len(Items) /\ 1 <= index + 1 /\ index - 1 + 1 = index
        BY <1>1, <1>2
    <2>2. \A k \in 1 .. index : 1 + k - 1 = k
        OBVIOUS
    <2> QED
        BY <1>1, <2>1, <2>2, Part
<1>4. /\ last \in Seq(Item) /\ Len(last) = size - index - 1
      /\ \A k \in 1 .. size - index - 1 : last[k] = Items[index + 1 + k]
    <2>1. /\ index + 2 \in Nat \ {0} /\ index + 2 <= Len(Items) + 1
          /\ size - (index + 2) + 1 = size - index - 1
        BY <1>1, <1>2
    <2>2. \A k \in 1 .. size - index - 1 : index + 2 + k - 1 = index + 1 + k
        BY <1>1
    <2>3. /\ last \in Seq(Item) /\ Len(last) = Len(Items) - (index + 2) + 1
          /\ \A k \in 1 .. Len(Items) - (index + 2) + 1 : last[k] = Items[index + 2 + k - 1]
        <3>1. /\ Items \in Seq(Item) /\ index + 2 \in Nat \ {0} /\ Len(Items) \in Nat
              /\ Len(Items) <= Len(Items) /\ index + 2 <= Len(Items) + 1
            BY <1>1, <2>1
        <3> QED
            BY <3>1, Part, Zenon
    <2> HIDE DEF last
    <2> QED
        BY <1>1, <2>1, <2>2, <2>3
<1> HIDE DEF first, last
<1>5. /\ t \in Seq(Item) /\ Len(t) = index + (size - index - 1)
      /\ \A k \in 1 .. index + (size - index - 1) :
            t[k] = IF k <= index THEN first[k] ELSE last[k - index]
    <2>1. /\ t \in Seq(Item) /\ Len(t) = Len(first) + Len(last)
          /\ \A k \in 1 .. Len(first) + Len(last) :
                t[k] = IF k <= Len(first) THEN first[k] ELSE last[k - Len(first)]
        BY <1>3, <1>4, ConcatProperties
    <2> HIDE DEF t
    <2> QED
        BY <1>3, <1>4, <2>1
<1>6. Len(t) = size - 1
    BY <1>1, <1>2, <1>5
<1> HIDE DEF t
<1>7. ASSUME NEW k \in 1 .. size' PROVE body'[k - 1] = t[k]
    <2>1. /\ k \in 1 .. size - 1 /\ k - 1 \in 0 .. size - 2
          /\ k \in 1 .. index + (size - index - 1)
        BY <1>1, <1>2
    <2>2. CASE k <= index
        <3>1. t[k] = Items[k] /\ k \in 1 .. size /\ k - 1 < index
            BY <1>1, <1>2, <1>3, <1>5, <2>1, <2>2
        <3> QED
            BY <1>1, <1>2, <2>1, <3>1
    <2>3. CASE k > index
        <3>1. /\ t[k] = last[k - index] /\ k - index \in 1 .. size - index - 1
              /\ index + 1 + (k - index) = k + 1
            BY <1>1, <1>2, <1>5, <2>1, <2>3
        <3>2. t[k] = Items[k + 1]
            BY <1>4, <3>1
        <3>3. k + 1 \in 1 .. size /\ ~(k - 1 < index) /\ k + 1 - 1 = k - 1 + 1
            BY <1>1, <2>1, <2>3
        <3> QED
            BY <1>1, <1>2, <2>1, <3>2, <3>3
    <2> QED
        BY <2>1, <2>2, <2>3
<1>8. Items' = t
    BY <1>2, <1>5, <1>6, <1>7, ItemsBecome
<1>9. Items[index + 1] = body[index]
    BY <1>1, <1>2
<1> QED
    BY <1>1, <1>2, <1>8, <1>9 DEF Contract!Remove, t, first, last

LEMMA SliceListed ==
    ASSUME ArrayInv, NEW index \in Nat, NEW length \in Nat, Slice(index, length)
    PROVE  /\ Contract!Slice(index, length)
           /\ index \in 0 .. Len(Items) /\ length \in 0 .. Len(Items)
<1>1. /\ Items \in Seq(Item) /\ Len(Items) = size /\ size \in Nat
      /\ \A k \in 1 .. size : Items[k] = body[k - 1]
    BY ItemsAre
<1>2. /\ index + length <= size /\ size' = size /\ body' = body
      /\ result' = <<"list", [n \in 1 .. length |-> body[index + n - 1]]>>
    BY DEF Slice
<1> DEFINE t == SubSeq(Items, index + 1, index + length)
           u == [n \in 1 .. length |-> body[index + n - 1]]
<1>3. /\ t \in Seq(Item) /\ Len(t) = length
      /\ \A k \in 1 .. length : t[k] = Items[index + k]
    <2>1. /\ index + length <= Len(Items) /\ index + 1 <= index + length + 1
          /\ index + length - (index + 1) + 1 = length
        BY <1>1, <1>2
    <2>2. \A k \in 1 .. length : index + 1 + k - 1 = index + k
        OBVIOUS
    <2> QED
        BY <1>1, <2>1, <2>2, Part
<1>4. ASSUME NEW k \in 1 .. length
      PROVE  t[k] = body[index + k - 1] /\ body[index + k - 1] \in Item
    <2>1. index + k \in 1 .. size
        BY <1>1, <1>2
    <2>2. Items[index + k] \in Item
        BY <1>1, <2>1, ElementOfSeq
    <2> QED
        BY <1>1, <1>3, <2>1, <2>2
<1>5. u \in Seq(Item) /\ Len(u) = length
    <2>1. u \in [1 .. length -> Item]
        BY <1>4
    <2> HIDE DEF u
    <2>2. u \in Seq(Item)
        BY <2>1, SeqDef
    <2> QED
        BY <2>1, <2>2, LenProperties
<1>6. t = u
    BY <1>3, <1>4, <1>5, SeqEqual
<1>7. Items' = Items
    BY <1>2 DEF Items
<1>8. index \in 0 .. size /\ length \in 0 .. size
    BY <1>1, <1>2
<1> QED
    BY <1>1, <1>2, <1>6, <1>7, <1>8 DEF Contract!Slice

\* Every call is one of the list, or ends the process by an assertion.
LEMMA ListStep ==
    ArrayInv /\ ArrayInv' /\ [Next]_vars => [Contract!Next]_(Contract!vars)
<1> SUFFICES ASSUME ArrayInv, ArrayInv', [Next]_vars
             PROVE  Contract!Next \/ UNCHANGED Contract!vars
    OBVIOUS
<1>1. Len(Items) = size /\ size \in Nat /\ \A k \in 1 .. size : Items[k] = body[k - 1]
    BY ItemsAre
<1>2. ASSUME NEW index \in 0 .. MaxSize, index <= size
      PROVE  index \in 0 .. Len(Items) /\ index \in Nat
    BY <1>1, <1>2, CapacityAssumption
<1>3. CASE UNCHANGED <<size, body, result>>
    BY <1>3 DEF Contract!vars, Items
<1>4. ASSUME NEW holds, Assert_(holds) PROVE UNCHANGED <<size, body, result>>
    BY <1>4 DEF Assert_
<1>5. ASSUME NEW x \in Item, Add(x) PROVE Contract!Next
    BY <1>5, AddListed DEF Contract!Next
<1>6. ASSUME NEW index \in 0 .. MaxSize, Get(index) PROVE Contract!Next
    <2>1. /\ index < size /\ result' = <<"item", body[index]>>
          /\ size' = size /\ body' = body
        BY <1>6 DEF Get
    <2>2. index \in 0 .. Len(Items) /\ index \in Nat
        BY <1>1, <1>2, <2>1
    <2>3. Items[index + 1] = body[index]
        BY <1>1, <2>1, <2>2
    <2>4. Items' = Items
        BY <2>1 DEF Items
    <2>5. Contract!Get(index)
        BY <1>1, <2>1, <2>3, <2>4 DEF Contract!Get
    <2> QED
        BY <2>2, <2>5 DEF Contract!Next
<1>7. ASSUME NEW index \in 0 .. MaxSize, NEW x \in Item, Set(index, x) PROVE Contract!Next
    <2>1. index < size
        BY <1>7 DEF Set
    <2>2. index \in 0 .. Len(Items) /\ index \in Nat
        BY <1>1, <1>2, <2>1
    <2> QED
        BY <1>7, <2>2, SetListed DEF Contract!Next
<1>8. ASSUME NEW index \in 0 .. MaxSize, NEW x \in Item, Insert(index, x)
      PROVE  Contract!Next
    <2>1. index <= size
        BY <1>8 DEF Insert
    <2>2. index \in 0 .. Len(Items) /\ index \in Nat
        BY <1>2, <2>1
    <2> QED
        BY <1>8, <2>2, InsertListed DEF Contract!Next
<1>9. ASSUME NEW index \in 0 .. MaxSize, NEW x \in Item, NEW n \in 0 .. 2,
             Splice(index, x, n)
      PROVE  Contract!Next
    <2>1. index <= size
        BY <1>9 DEF Splice
    <2>2. index \in 0 .. Len(Items) /\ index \in Nat
        BY <1>2, <2>1
    <2> QED
        BY <1>9, <2>2, SpliceListed DEF Contract!Next
<1>10. ASSUME NEW index \in 0 .. MaxSize, Remove(index) PROVE Contract!Next
    <2>1. index < size
        BY <1>10 DEF Remove
    <2>2. index \in 0 .. Len(Items) /\ index \in Nat
        BY <1>1, <1>2, <2>1
    <2> QED
        BY <1>10, <2>2, RemoveListed DEF Contract!Next
<1>11. ASSUME NEW index \in Nat, NEW length \in Nat, Slice(index, length)
       PROVE  Contract!Next
    BY <1>11, SliceListed DEF Contract!Next
<1>12. CASE Pop
    BY <1>12, PopListed DEF Contract!Next
<1>13. CASE Clear
    <2>1. size' = 0 /\ result' = result
        BY <1>13 DEF Clear
    <2>2. Items' = <<>>
        BY <2>1 DEF Items
    <2> QED
        BY <2>1, <2>2 DEF Contract!Next, Contract!Clear
<1>14. CASE Size
    BY <1>1, <1>14 DEF Size, Items, Contract!Next, Contract!Size
<1>15. CASE UNCHANGED vars
    BY <1>3, <1>15 DEF vars
<1>16. \A n \in 0 .. MaxSize : n \in Nat
    BY CapacityAssumption
<1> QED
    BY <1>1, <1>3, <1>4, <1>5, <1>6, <1>7, <1>8, <1>9, <1>10, <1>11, <1>12, <1>13, <1>14,
       <1>15, <1>16
    DEF Next, PopAsserts, GetAsserts, SetAsserts, SliceAsserts, SpliceAsserts, Copy,
        CopyAsserts

\* ImplementsList for any items and any initial capacity: through every growth and
\* every move of cells the list is the one that the comments of arraylist.c describe.
THEOREM ListImplemented == Spec => ImplementsList
<1>1. Init => Contract!Init
    <2> SUFFICES ASSUME Init PROVE Contract!Init
        OBVIOUS
    <2>1. size = 0 /\ result = <<"create">>
        BY DEF Init
    <2>2. Items = <<>>
        BY <2>1 DEF Items
    <2> QED
        BY <2>1, <2>2 DEF Contract!Init
<1> QED
    BY <1>1, TypeInit, TypeStep, ListStep, PTL DEF Spec, ImplementsList, Contract!Spec
=============================================================================
