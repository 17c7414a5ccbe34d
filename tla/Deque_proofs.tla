---------------------------- MODULE Deque_proofs ----------------------------
(***************************************************************************)
(* Theorems about Deque, for any heap, items and width of the count: its   *)
(* types, that the count is backed by nodes whatever is called, that a     *)
(* tame client meets no bad pointer, and that its calls behave as          *)
(* DequeSpec says.                                                         *)
(***************************************************************************)
EXTENDS Deque, SequenceTheorems, FiniteSetTheorems, WellFoundedInduction, TLAPS

-----------------------------------------------------------------------------
(***************************************************************************)
(* Numbers.                                                                *)
(***************************************************************************)
\* A set of numbers that is not empty has a least one.
LEMMA Least ==
    ASSUME NEW S \in SUBSET Nat, S # {}
    PROVE  \E n \in S : \A m \in S : n <= m
<1> DEFINE R == OpToRel(<, Nat)
<1>1. IsWellFoundedOn(R, Nat)
    BY NatLessThanWellFounded
<1>2. \A x, y \in Nat : <<y, x>> \in R <=> y < x
    BY DEF OpToRel
<1> HIDE DEF R
<1>3. PICK n \in S : \A y \in S : ~ (<<y, n>> \in R)
    BY <1>1, WFMin
<1>4. ASSUME NEW m \in S PROVE n <= m
    <2>1. n \in Nat /\ m \in Nat
        OBVIOUS
    <2>2. ~ (m < n)
        BY <1>2, <1>3, <2>1
    <2> QED
        BY <2>1, <2>2
<1> QED
    BY <1>4

\* Induction: a set with 0 that contains the successor of each of its numbers.
LEMMA Induct ==
    ASSUME NEW S \in SUBSET Nat, 0 \in S, \A n \in S : n + 1 \in S
    PROVE  S = Nat
<1> SUFFICES ASSUME Nat \ S # {} PROVE FALSE
    OBVIOUS
<1>1. PICK n \in Nat \ S : \A m \in Nat \ S : n <= m
    BY Least
<1>2. n # 0 /\ n - 1 \in Nat
    BY <1>1
<1>3. n - 1 \in S
    BY <1>1, <1>2
<1>4. n - 1 + 1 = n
    BY <1>1
<1> QED
    BY <1>1, <1>3, <1>4

\* number_items wraps at Modulus, beyond the number of nodes.
Modulus == 2^CountBits

LEMMA Numbers ==
    /\ Size \in Nat /\ Modulus \in Nat /\ Size < Modulus
    /\ \A n \in 0 .. Modulus - 1 : Counted(n) = n
    /\ \A n \in Int : Counted(n) \in 0 .. Modulus - 1
<1>1. Size \in Nat
    BY NodeAssumption, FS_CardinalityType DEF Size
<1>2. Modulus \in Nat
    <2>1. IsFiniteSet(1 .. CountBits) /\ Cardinality(1 .. CountBits) = CountBits
        BY FS_Interval, WidthAssumption
    <2>2. IsFiniteSet(SUBSET (1 .. CountBits))
          /\ Cardinality(SUBSET (1 .. CountBits)) = Modulus
        BY <2>1, FS_SUBSET DEF Modulus
    <2> QED
        BY <2>2, FS_CardinalityType
<1>3. Size < Modulus
    BY NodeAssumption DEF Size, Modulus
<1>4. Modulus > 0
    BY <1>1, <1>2, <1>3
<1>5. \A n \in Int : Counted(n) = n % Modulus
    BY DEF Counted, Modulus
<1> HIDE DEF Modulus
<1>6. \A n \in 0 .. Modulus - 1 : n % Modulus = n
    BY <1>2, <1>4
<1>7. \A n \in Int : n % Modulus \in 0 .. Modulus - 1
    BY <1>2, <1>4
<1>8. 0 .. Modulus - 1 \subseteq Int
    BY <1>2
<1> QED
    BY <1>1, <1>2, <1>3, <1>5, <1>6, <1>7, <1>8

-----------------------------------------------------------------------------
(***************************************************************************)
(* Walks along a field.                                                    *)
(***************************************************************************)
\* g holds the pointers of k hops
IsPath(g, from, field, k) ==
    g = [n \in 0 .. k |-> IF n = 0 THEN from
                          ELSE IF g[n - 1] = Null THEN Null ELSE field[g[n - 1]]]

LEMMA PathExists ==
    ASSUME NEW from, NEW field, NEW k \in Nat
    PROVE  \E g : IsPath(g, from, field, k)
<1> DEFINE S == {j \in Nat : \E g : IsPath(g, from, field, j)}
<1>1. 0 \in S
    <2>1. IsPath([n \in 0 .. 0 |-> from], from, field, 0)
        BY DEF IsPath
    <2> QED
        BY <2>1
<1>2. ASSUME NEW j \in S PROVE j + 1 \in S
    <2>1. PICK g : IsPath(g, from, field, j)
        OBVIOUS
    <2> DEFINE x == IF g[j] = Null THEN Null ELSE field[g[j]]
               h == [n \in 0 .. j + 1 |-> IF n = j + 1 THEN x ELSE g[n]]
    <2>2. ASSUME NEW n \in 0 .. j + 1
          PROVE  h[n] = IF n = 0 THEN from
                        ELSE IF h[n - 1] = Null THEN Null ELSE field[h[n - 1]]
        <3> HIDE DEF x
        <3>1. CASE n = j + 1
            <4>1. n - 1 = j /\ n - 1 # j + 1 /\ n - 1 \in 0 .. j + 1 /\ n # 0
                BY <3>1
            <4>2. h[n] = x /\ h[n - 1] = g[j]
                BY <3>1, <4>1
            <4> QED
                BY <4>1, <4>2 DEF x
        <3>2. CASE n # j + 1
            <4>1. n \in 0 .. j
                BY <3>2
            <4>2. h[n] = IF n = 0 THEN from
                         ELSE IF g[n - 1] = Null THEN Null ELSE field[g[n - 1]]
                BY <2>1, <3>2, <4>1 DEF IsPath
            <4>3. n # 0 => n - 1 \in 0 .. j + 1 /\ n - 1 # j + 1
                BY <4>1
            <4> QED
                BY <4>2, <4>3
        <3> QED
            BY <3>1, <3>2
    <2>3. IsPath(h, from, field, j + 1)
        BY <2>2 DEF IsPath
    <2> QED
        BY <2>3
<1>3. S = Nat
    BY <1>1, <1>2, Induct
<1> QED
    BY <1>3

LEMMA HopPath ==
    ASSUME NEW from, NEW field, NEW k \in Nat
    PROVE  \E g : IsPath(g, from, field, k) /\ Hop(from, field, k) = g[k]
<1> DEFINE at == CHOOSE h : h = [n \in 0 .. k |->
                                    IF n = 0 THEN from
                                    ELSE IF h[n - 1] = Null THEN Null ELSE field[h[n - 1]]]
<1>1. Hop(from, field, k) = at[k]
    BY DEF Hop
<1>2. \E g : g = [n \in 0 .. k |->
                     IF n = 0 THEN from
                     ELSE IF g[n - 1] = Null THEN Null ELSE field[g[n - 1]]]
    <2>1. PICK g : IsPath(g, from, field, k)
        BY PathExists
    <2>2. g = [n \in 0 .. k |-> IF n = 0 THEN from
                                ELSE IF g[n - 1] = Null THEN Null ELSE field[g[n - 1]]]
        BY <2>1 DEF IsPath
    <2> QED
        BY <2>2
<1>3. at = [n \in 0 .. k |-> IF n = 0 THEN from
                             ELSE IF at[n - 1] = Null THEN Null ELSE field[at[n - 1]]]
    BY <1>2
<1>4. IsPath(at, from, field, k)
    BY <1>3 DEF IsPath
<1> QED
    BY <1>1, <1>4

\* Two paths agree as far as both go.
LEMMA PathUnique ==
    ASSUME NEW from, NEW field, NEW k \in Nat, NEW l \in Nat, NEW g, NEW h,
           IsPath(g, from, field, k), IsPath(h, from, field, l),
           NEW j \in Nat, j <= k, j <= l
    PROVE  g[j] = h[j]
<1> DEFINE S == {n \in Nat : n <= k /\ n <= l => g[n] = h[n]}
<1>1. 0 \in S
    <2>1. 0 \in 0 .. k /\ 0 \in 0 .. l
        OBVIOUS
    <2> QED
        BY <2>1 DEF IsPath
<1>2. ASSUME NEW n \in S PROVE n + 1 \in S
    <2>1. CASE n + 1 <= k /\ n + 1 <= l
        <3>1. g[n] = h[n] /\ n + 1 \in 0 .. k /\ n + 1 \in 0 .. l /\ n + 1 # 0 /\ n + 1 - 1 = n
            BY <2>1
        <3>2. /\ g[n + 1] = IF g[n] = Null THEN Null ELSE field[g[n]]
              /\ h[n + 1] = IF h[n] = Null THEN Null ELSE field[h[n]]
            BY <3>1 DEF IsPath
        <3> QED
            BY <3>1, <3>2
    <2> QED
        BY <2>1
<1>3. S = Nat
    BY <1>1, <1>2, Induct
<1> QED
    BY <1>3

\* The pointers a walk meets, one after the other.
LEMMA Hops ==
    ASSUME NEW from, NEW field
    PROVE  /\ Hop(from, field, 0) = from
           /\ \A k \in Nat : Hop(from, field, k + 1)
                  = IF Hop(from, field, k) = Null THEN Null ELSE field[Hop(from, field, k)]
<1>1. Hop(from, field, 0) = from
    <2>1. PICK g : IsPath(g, from, field, 0) /\ Hop(from, field, 0) = g[0]
        BY HopPath
    <2>2. 0 \in 0 .. 0
        OBVIOUS
    <2> QED
        BY <2>1, <2>2 DEF IsPath
<1>2. ASSUME NEW k \in Nat
      PROVE  Hop(from, field, k + 1)
                 = IF Hop(from, field, k) = Null THEN Null ELSE field[Hop(from, field, k)]
    <2>1. PICK g : IsPath(g, from, field, k) /\ Hop(from, field, k) = g[k]
        BY HopPath
    <2>2. k + 1 \in Nat /\ k <= k + 1 /\ k <= k /\ k + 1 \in 0 .. k + 1 /\ k + 1 # 0
          /\ k + 1 - 1 = k
        OBVIOUS
    <2>3. PICK h : IsPath(h, from, field, k + 1) /\ Hop(from, field, k + 1) = h[k + 1]
        BY <2>2, HopPath
    <2>4. g[k] = h[k]
        BY <2>1, <2>2, <2>3, PathUnique
    <2>5. h[k + 1] = IF h[k] = Null THEN Null ELSE field[h[k]]
        BY <2>2, <2>3 DEF IsPath
    <2> QED
        BY <2>1, <2>3, <2>4, <2>5
<1> QED
    BY <1>1, <1>2

\* A walk stays in a set of pointers that is closed under the field.
LEMMA HopStays ==
    ASSUME NEW S, NEW from \in S \cup {Null}, NEW field,
           \A x \in S : field[x] \in S \cup {Null}
    PROVE  \A k \in Nat : Hop(from, field, k) \in S \cup {Null}
<1> DEFINE T == {k \in Nat : Hop(from, field, k) \in S \cup {Null}}
<1>1. 0 \in T
    BY Hops
<1>2. ASSUME NEW k \in T PROVE k + 1 \in T
    <2>1. Hop(from, field, k + 1)
              = IF Hop(from, field, k) = Null THEN Null ELSE field[Hop(from, field, k)]
        BY Hops
    <2> QED
        BY <2>1
<1>3. T = Nat
    BY <1>1, <1>2, Induct
<1> QED
    BY <1>3

LEMMA StepsAre ==
    ASSUME NEW from, NEW field
    PROVE  /\ Steps(from, field) \in 0 .. Size + 1
           /\ Steps(from, field) <= Size => Hop(from, field, Steps(from, field)) = Null
           /\ \A n \in 0 .. Steps(from, field) - 1 : Hop(from, field, n) # Null
<1> DEFINE Ends_(k) == /\ k <= Size => Hop(from, field, k) = Null
                       /\ \A n \in 0 .. k - 1 : Hop(from, field, n) # Null
           S == {k \in Nat : k = Size + 1 \/ Hop(from, field, k) = Null}
<1>1. PICK k \in S : \A m \in S : k <= m
    <2>1. Size + 1 \in S
        BY Numbers
    <2> QED
        BY <2>1, Least
<1>2. k \in 0 .. Size + 1
    BY <1>1, Numbers
<1>3. k <= Size => Hop(from, field, k) = Null
    BY <1>2, Numbers
<1>4. ASSUME NEW n \in 0 .. k - 1 PROVE Hop(from, field, n) # Null
    BY <1>1, <1>2, Numbers
<1>5. \E j \in 0 .. Size + 1 : Ends_(j)
    BY <1>2, <1>3, <1>4
<1>6. Steps(from, field) = CHOOSE j \in 0 .. Size + 1 : Ends_(j)
    BY DEF Steps
<1> HIDE DEF Ends_
<1>7. Steps(from, field) \in 0 .. Size + 1 /\ Ends_(Steps(from, field))
    BY <1>5, <1>6
<1> QED
    BY <1>7 DEF Ends_

LEMMA WalkIs ==
    ASSUME NEW from, NEW field
    PROVE  /\ Len(Walk(from, field)) = Steps(from, field)
           /\ DOMAIN Walk(from, field) = 1 .. Steps(from, field)
           /\ \A n \in 1 .. Steps(from, field) :
                 /\ Walk(from, field)[n] = Hop(from, field, n - 1)
                 /\ Walk(from, field)[n] # Null
<1> DEFINE l == Steps(from, field)
           w == Walk(from, field)
           S == {Hop(from, field, n - 1) : n \in 1 .. l}
<1>1. l \in Nat /\ \A n \in 1 .. l : n - 1 \in 0 .. l - 1
    BY StepsAre, Numbers
<1>2. \A n \in 0 .. l - 1 : Hop(from, field, n) # Null
    BY StepsAre
<1>3. w = [n \in 1 .. l |-> Hop(from, field, n - 1)]
    BY DEF Walk
<1> HIDE DEF w, l
<1>4. w \in [1 .. l -> S]
    BY <1>3
<1>5. Len(w) = l /\ DOMAIN w = 1 .. l
    BY <1>1, <1>4, SeqDef, LenProperties
<1> QED
    BY <1>1, <1>2, <1>3, <1>5 DEF w, l

LEMMA WalkStays ==
    ASSUME NEW S, NEW from \in S \cup {Null}, NEW field,
           \A x \in S : field[x] \in S \cup {Null}
    PROVE  /\ Walk(from, field) \in [1 .. Steps(from, field) -> S]
           /\ Walk(from, field) \in Seq(S)
           /\ Met(Walk(from, field)) \subseteq S
<1> DEFINE l == Steps(from, field)
           w == Walk(from, field)
<1>1. l \in Nat /\ \A n \in 1 .. l : n - 1 \in Nat
    BY StepsAre, Numbers
<1>2. DOMAIN w = 1 .. l /\ \A n \in 1 .. l : w[n] = Hop(from, field, n - 1) /\ w[n] # Null
    BY WalkIs
<1>3. \A k \in Nat : Hop(from, field, k) \in S \cup {Null}
    BY HopStays
<1>4. w = [n \in 1 .. l |-> w[n]]
    BY <1>2 DEF Walk
<1> HIDE DEF l, w
<1>5. \A n \in 1 .. l : w[n] \in S
    BY <1>1, <1>2, <1>3
<1>6. w \in [1 .. l -> S]
    BY <1>4, <1>5
<1>7. w \in Seq(S)
    BY <1>1, <1>6, SeqDef
<1>8. Met(w) \subseteq S
    BY <1>2, <1>5 DEF Met
<1> QED
    BY <1>6, <1>7, <1>8 DEF l, w

\* The walk along a chain of nodes that ends in NULL is that chain.
LEMMA WalkOfChain ==
    ASSUME NEW n \in Nat, n <= Size, NEW t \in [1 .. n -> Node], NEW field, NEW from,
           n = 0 => from = Null, n # 0 => from = t[1],
           \A i \in 1 .. n : field[t[i]] = IF i = n THEN Null ELSE t[i + 1]
    PROVE  Walk(from, field) = t /\ Steps(from, field) = n
<1>1. /\ Hop(from, field, 0) = from
      /\ \A k \in Nat : Hop(from, field, k + 1)
             = IF Hop(from, field, k) = Null THEN Null ELSE field[Hop(from, field, k)]
    BY Hops
<1> DEFINE T == {k \in Nat : k <= n => Hop(from, field, k) = IF k = n THEN Null ELSE t[k + 1]}
<1>2. 0 \in T
    BY <1>1
<1>3. ASSUME NEW k \in T PROVE k + 1 \in T
    <2>1. CASE k + 1 <= n
        <3>1. k \in Nat /\ k <= n /\ k # n /\ k + 1 \in 1 .. n /\ k + 1 + 1 = k + 2
            BY <2>1
        <3>2. Hop(from, field, k) = t[k + 1]
            BY <3>1
        <3>3. t[k + 1] # Null
            BY <3>1, NullAssumption
        <3>4. Hop(from, field, k + 1) = IF k + 1 = n THEN Null ELSE t[k + 1 + 1]
            BY <1>1, <3>1, <3>2, <3>3
        <3> QED
            BY <3>4
    <2> QED
        BY <2>1
<1>4. T = Nat
    BY <1>2, <1>3, Induct
<1>5. \A k \in Nat : k <= n => Hop(from, field, k) = IF k = n THEN Null ELSE t[k + 1]
    BY <1>4
<1> HIDE DEF T
<1> DEFINE l == Steps(from, field)
<1>6. /\ l \in Nat
      /\ l <= Size => Hop(from, field, l) = Null
      /\ \A j \in 0 .. l - 1 : Hop(from, field, j) # Null
    BY StepsAre, Numbers
<1>7. Walk(from, field) = [j \in 1 .. l |-> Hop(from, field, j - 1)]
    BY DEF Walk
<1> HIDE DEF l
<1>8. ~ (l < n)
    <2> SUFFICES ASSUME l < n PROVE FALSE
        OBVIOUS
    <2>1. l + 1 \in 1 .. n /\ l <= Size /\ l <= n /\ l # n
        BY <1>6, Numbers
    <2>2. Hop(from, field, l) = t[l + 1]
        BY <1>5, <1>6, <2>1
    <2> QED
        BY <1>6, <2>1, <2>2, NullAssumption
<1>9. ~ (l > n)
    <2> SUFFICES ASSUME l > n PROVE FALSE
        OBVIOUS
    <2>1. n \in 0 .. l - 1 /\ n <= n
        BY <1>6
    <2> QED
        BY <1>5, <1>6, <2>1
<1>10. l = n
    BY <1>6, <1>8, <1>9
<1>11. ASSUME NEW j \in 1 .. n PROVE Hop(from, field, j - 1) = t[j]
    <2>1. j - 1 \in Nat /\ j - 1 <= n /\ j - 1 # n /\ j - 1 + 1 = j
        OBVIOUS
    <2> QED
        BY <1>5, <2>1
<1> QED
    BY <1>7, <1>10, <1>11 DEF l

\* A part of a sequence.
LEMMA Part ==
    ASSUME NEW S, NEW s \in Seq(S), NEW a \in Nat \ {0}, NEW b \in Nat,
           b <= Len(s), a <= b + 1
    PROVE  /\ SubSeq(s, a, b) \in Seq(S) /\ Len(SubSeq(s, a, b)) = b - a + 1
           /\ \A k \in 1 .. b - a + 1 : SubSeq(s, a, b)[k] = s[a + k - 1]
<1>1. Len(s) \in Nat /\ \A k \in a .. b : k \in 1 .. Len(s)
    BY LenProperties
<1>2. \A k \in a .. b : s[k] \in S
    BY <1>1, ElementOfSeq
<1> QED
    BY <1>2, SubSeqProperties

\* A search ends at the first node with the item.
LEMMA Search ==
    ASSUME NEW S, NEW walk \in Seq(S), NEW v
    PROVE  /\ Hits(walk, v) \subseteq 1 .. Len(walk)
           /\ Hits(walk, v) # {} =>
                 /\ FirstHit(walk, v) \in Hits(walk, v)
                 /\ FirstHit(walk, v) \in 1 .. Len(walk)
                 /\ walk[FirstHit(walk, v)] \in S
                 /\ \A k \in Hits(walk, v) : FirstHit(walk, v) <= k
                 /\ Len(Visited(walk, v)) = FirstHit(walk, v)
                 /\ Met(Visited(walk, v)) = {walk[k] : k \in 1 .. FirstHit(walk, v)}
<1>1. Len(walk) \in Nat /\ DOMAIN walk = 1 .. Len(walk)
    BY LenProperties
<1>2. Hits(walk, v) \subseteq 1 .. Len(walk)
    BY <1>1 DEF Hits
<1> SUFFICES ASSUME Hits(walk, v) # {}
             PROVE  /\ FirstHit(walk, v) \in Hits(walk, v)
                    /\ FirstHit(walk, v) \in 1 .. Len(walk)
                    /\ walk[FirstHit(walk, v)] \in S
                    /\ \A k \in Hits(walk, v) : FirstHit(walk, v) <= k
                    /\ Len(Visited(walk, v)) = FirstHit(walk, v)
                    /\ Met(Visited(walk, v)) = {walk[k] : k \in 1 .. FirstHit(walk, v)}
    BY <1>2
<1> DEFINE f == FirstHit(walk, v)
           seen == SubSeq(walk, 1, f)
<1>3. f \in Hits(walk, v) /\ \A k \in Hits(walk, v) : f <= k
    <2>1. \E n \in Hits(walk, v) : \A k \in Hits(walk, v) : n <= k
        <3>1. Hits(walk, v) \in SUBSET Nat
            BY <1>1, <1>2
        <3> QED
            BY <3>1, Least
    <2> QED
        BY <2>1 DEF FirstHit
<1>4. Visited(walk, v) = seen
    BY DEF Visited
<1>5. f \in 1 .. Len(walk)
    BY <1>2, <1>3
<1> HIDE DEF f
<1>6. /\ seen \in Seq(S) /\ Len(seen) = f - 1 + 1
      /\ \A k \in 1 .. f - 1 + 1 : seen[k] = walk[1 + k - 1]
    <2>1. walk \in Seq(S) /\ 1 \in Nat \ {0} /\ f \in Nat /\ f <= Len(walk) /\ 1 <= f + 1
        BY <1>1, <1>5
    <2> QED
        BY <2>1, Part
<1> HIDE DEF seen
<1>7. f - 1 + 1 = f /\ \A k \in 1 .. f : 1 + k - 1 = k
    BY <1>1, <1>5
<1>8. Len(seen) = f /\ \A k \in 1 .. f : seen[k] = walk[k]
    BY <1>6, <1>7
<1>9. DOMAIN seen = 1 .. f
    BY <1>6, <1>8, LenProperties
<1>10. Met(seen) = {walk[k] : k \in 1 .. f}
    BY <1>8, <1>9 DEF Met
<1>11. walk[f] \in S
    BY <1>5, ElementOfSeq
<1> QED
    BY <1>3, <1>4, <1>5, <1>8, <1>10, <1>11 DEF f

-----------------------------------------------------------------------------
(***************************************************************************)
(* Types, and nodes behind the count.  Clear may leave nodes that nothing  *)
(* points to: L.  Every other allocated node is counted.                   *)
(***************************************************************************)
Leak(L) ==
    /\ number_items = Cardinality(live \ L)
    /\ head \notin L /\ tail \notin L
    /\ \A n \in Node \ L : next[n] \notin L /\ prev[n] \notin L
    /\ \A n \in Node \ live : next[n] = Null /\ prev[n] = Null

BackedInv == TypeOK /\ (~wild => \E L \in SUBSET live : Leak(L))

LEMMA BackedInit == Init => BackedInv
<1> SUFFICES ASSUME Init PROVE BackedInv
    OBVIOUS
<1>1. live = {} /\ number_items = 0 /\ head = Null /\ tail = Null /\ ~wild
    BY DEF Init
<1>2. TypeOK
    <2>1. 0 \in 0 .. 2^CountBits - 1
        BY Numbers DEF Modulus
    <2>2. wild \in BOOLEAN
        BY DEF Init
    <2> QED
        BY <2>1, <2>2 DEF Init, TypeOK, Pointer
<1>3. Leak({})
    BY <1>1, FS_EmptySet DEF Init, Leak
<1> QED
    BY <1>1, <1>2, <1>3 DEF BackedInv

\* A step that leaves the list alone.
LEMMA BackedSame ==
    ASSUME BackedInv, UNCHANGED <<heap_vars, head, tail, number_items, wild>>
    PROVE  BackedInv'
<1>1. TypeOK'
    BY DEF BackedInv, TypeOK, heap_vars
<1>2. ASSUME NEW L \in SUBSET live, Leak(L) PROVE L \in SUBSET live' /\ Leak(L)'
    BY <1>2 DEF Leak, heap_vars
<1> QED
    BY <1>1, <1>2 DEF BackedInv

LEMMA BackedWild ==
    ASSUME BackedInv, Wild
    PROVE  BackedInv'
    BY DEF BackedInv, TypeOK, Wild, heap_vars

\* The count follows a node that is added to the list or taken from it.
LEMMA CountFollows ==
    ASSUME live \subseteq Node, NEW L \in SUBSET live
    PROVE  /\ \A new \in Node \ live :
                 Counted(Cardinality(live \ L) + 1) = Cardinality((live \cup {new}) \ L)
           /\ \A old \in live \ L :
                 Counted(Cardinality(live \ L) - 1) = Cardinality((live \ {old}) \ L)
<1> DEFINE held == live \ L
<1>1. IsFiniteSet(Node)
    BY NodeAssumption
<1>2. /\ IsFiniteSet(held) /\ Cardinality(held) \in Nat
    BY <1>1, FS_Subset, FS_CardinalityType
<1>3. ASSUME NEW new \in Node \ live
      PROVE  Counted(Cardinality(held) + 1) = Cardinality((live \cup {new}) \ L)
    <2>1. (live \cup {new}) \ L = held \cup {new} /\ new \notin held
        OBVIOUS
    <2>2. Cardinality(held \cup {new}) = Cardinality(held) + 1
        BY <1>2, <2>1, FS_AddElement
    <2>3. Cardinality(held \cup {new}) <= Size
        <3>1. held \cup {new} \subseteq Node
            OBVIOUS
        <3> QED
            BY <1>1, <3>1, FS_Subset DEF Size
    <2>4. Cardinality(held) + 1 \in 0 .. Modulus - 1
        BY <1>2, <2>2, <2>3, Numbers
    <2>5. Counted(Cardinality(held) + 1) = Cardinality(held) + 1
        BY <2>4, Numbers
    <2> QED
        BY <2>1, <2>2, <2>5
<1>4. ASSUME NEW old \in held
      PROVE  Counted(Cardinality(held) - 1) = Cardinality((live \ {old}) \ L)
    <2>1. (live \ {old}) \ L = held \ {old}
        OBVIOUS
    <2>2. Cardinality(held \ {old}) = Cardinality(held) - 1
        BY <1>2, FS_RemoveElement
    <2>3. Cardinality(held \ {old}) \in Nat /\ Cardinality(held) <= Size
        <3>1. IsFiniteSet(held \ {old}) /\ held \subseteq Node
            BY <1>2, FS_Subset
        <3> QED
            BY <1>1, <3>1, FS_Subset, FS_CardinalityType DEF Size
    <2>4. Cardinality(held) - 1 \in 0 .. Modulus - 1
        BY <1>2, <2>2, <2>3, Numbers
    <2>5. Counted(Cardinality(held) - 1) = Cardinality(held) - 1
        BY <2>4, Numbers
    <2> QED
        BY <2>1, <2>2, <2>5
<1> QED
    BY <1>3, <1>4

LEMMA BackedAppendRight ==
    ASSUME BackedInv, NEW v \in Value, AppendRight(v)
    PROVE  BackedInv'
<1>1. CASE NoMemory
    BY <1>1, BackedSame DEF NoMemory
<1>2. CASE Wild
    BY <1>2, BackedWild
<1>3. ASSUME NEW new \in Node \ live,
             head = Null \/ head \in live,
             live' = live \cup {new},
             value' = [value EXCEPT ![new] = v],
             prev' = [prev EXCEPT ![new] = head],
             next' = [n \in Node |-> IF n = new THEN Null
                                     ELSE IF n = head THEN new
                                     ELSE next[n]],
             tail' = IF tail = Null THEN new ELSE tail,
             head' = new,
             number_items' = Counted(number_items + 1),
             wild' = wild, ~wild
      PROVE  BackedInv'
    <2>1. TypeOK
        BY DEF BackedInv
    <2>2. number_items + 1 \in Int
        BY <2>1, Numbers DEF TypeOK, Modulus
    <2>3. number_items' \in 0 .. 2^CountBits - 1
        BY <1>3, <2>2, Numbers DEF Modulus
    <2>4. TypeOK'
        <3>1. live' \subseteq Node /\ value' \in [Node -> Value \cup {Null}]
            BY <1>3, <2>1 DEF TypeOK
        <3>2. next' \in [Node -> Pointer] /\ prev' \in [Node -> Pointer]
            BY <1>3, <2>1 DEF TypeOK, Pointer
        <3>3. head' \in Pointer /\ tail' \in Pointer
            BY <1>3, <2>1 DEF TypeOK, Pointer
        <3>4. wild' \in BOOLEAN
            BY <1>3, <2>1 DEF TypeOK
        <3> QED
            BY <2>3, <3>1, <3>2, <3>3, <3>4 DEF TypeOK
    <2>5. PICK L \in SUBSET live : Leak(L)
        BY <1>3 DEF BackedInv
    <2>6. number_items' = Cardinality(live' \ L)
        BY <1>3, <2>1, <2>5, CountFollows DEF Leak, TypeOK
    <2>7. L \in SUBSET live' /\ new \notin L
        BY <1>3
    <2>8. head' \notin L /\ tail' \notin L
        BY <1>3, <2>5, <2>7 DEF Leak
    <2>9. ASSUME NEW n \in Node \ L PROVE next'[n] \notin L /\ prev'[n] \notin L
        <3>1. Null \notin L
            BY <2>1, NullAssumption DEF TypeOK
        <3> QED
            BY <1>3, <2>1, <2>5, <2>7, <3>1 DEF Leak, TypeOK
    <2>10. ASSUME NEW n \in Node \ live' PROVE next'[n] = Null /\ prev'[n] = Null
        <3>1. n # new /\ n # head
            BY <1>3, NullAssumption
        <3> QED
            BY <1>3, <2>1, <2>5, <3>1 DEF Leak, TypeOK
    <2>11. Leak(L)'
        BY <2>6, <2>8, <2>9, <2>10 DEF Leak
    <2> QED
        BY <2>4, <2>7, <2>11 DEF BackedInv
<1> QED
    BY <1>1, <1>2, <1>3 DEF AppendRight, Call, Dangling

LEMMA BackedAppendLeft ==
    ASSUME BackedInv, NEW v \in Value, AppendLeft(v)
    PROVE  BackedInv'
<1>1. CASE NoMemory
    BY <1>1, BackedSame DEF NoMemory
<1>2. CASE Wild
    BY <1>2, BackedWild
<1>3. ASSUME NEW new \in Node \ live,
             tail = Null \/ tail \in live,
             live' = live \cup {new},
             value' = [value EXCEPT ![new] = v],
             next' = [next EXCEPT ![new] = tail],
             prev' = [n \in Node |-> IF n = new THEN Null
                                     ELSE IF n = tail THEN new
                                     ELSE prev[n]],
             head' = IF head = Null THEN tail ELSE head,
             tail' = new,
             number_items' = Counted(number_items + 1),
             wild' = wild, ~wild
      PROVE  BackedInv'
    <2>1. TypeOK
        BY DEF BackedInv
    <2>2. number_items + 1 \in Int
        BY <2>1, Numbers DEF TypeOK, Modulus
    <2>3. number_items' \in 0 .. 2^CountBits - 1
        BY <1>3, <2>2, Numbers DEF Modulus
    <2>4. TypeOK'
        <3>1. live' \subseteq Node /\ value' \in [Node -> Value \cup {Null}]
            BY <1>3, <2>1 DEF TypeOK
        <3>2. next' \in [Node -> Pointer] /\ prev' \in [Node -> Pointer]
            BY <1>3, <2>1 DEF TypeOK, Pointer
        <3>3. head' \in Pointer /\ tail' \in Pointer
            BY <1>3, <2>1 DEF TypeOK, Pointer
        <3>4. wild' \in BOOLEAN
            BY <1>3, <2>1 DEF TypeOK
        <3> QED
            BY <2>3, <3>1, <3>2, <3>3, <3>4 DEF TypeOK
    <2>5. PICK L \in SUBSET live : Leak(L)
        BY <1>3 DEF BackedInv
    <2>6. number_items' = Cardinality(live' \ L)
        BY <1>3, <2>1, <2>5, CountFollows DEF Leak, TypeOK
    <2>7. L \in SUBSET live' /\ new \notin L
        BY <1>3
    <2>8. head' \notin L /\ tail' \notin L
        BY <1>3, <2>5, <2>7 DEF Leak
    <2>9. ASSUME NEW n \in Node \ L PROVE next'[n] \notin L /\ prev'[n] \notin L
        <3>1. Null \notin L
            BY <2>1, NullAssumption DEF TypeOK
        <3> QED
            BY <1>3, <2>1, <2>5, <2>7, <3>1 DEF Leak, TypeOK
    <2>10. ASSUME NEW n \in Node \ live' PROVE next'[n] = Null /\ prev'[n] = Null
        <3>1. n # new /\ n # tail
            BY <1>3, NullAssumption
        <3> QED
            BY <1>3, <2>1, <2>5, <3>1 DEF Leak, TypeOK
    <2>11. Leak(L)'
        BY <2>6, <2>8, <2>9, <2>10 DEF Leak
    <2> QED
        BY <2>4, <2>7, <2>11 DEF BackedInv
<1> QED
    BY <1>1, <1>2, <1>3 DEF AppendLeft, Call, Dangling

\* What is on the heap keeps its type.
HeapTyped ==
    /\ live \subseteq Node
    /\ value \in [Node -> Value \cup {Null}]
    /\ next \in [Node -> Pointer] /\ prev \in [Node -> Pointer]
    /\ head \in Pointer /\ tail \in Pointer

LEMMA Assembled ==
    ASSUME BackedInv, ~wild, wild' = wild, HeapTyped',
           number_items' \in 0 .. 2^CountBits - 1,
           NEW L \in SUBSET live', Leak(L)'
    PROVE  BackedInv'
<1>1. wild' \in BOOLEAN
    BY DEF BackedInv, TypeOK
<1>2. TypeOK'
    BY <1>1 DEF HeapTyped, TypeOK
<1> QED
    BY <1>2 DEF BackedInv

LEMMA BackedClear ==
    ASSUME BackedInv, Clear
    PROVE  BackedInv'
<1> DEFINE gone == Met(Walk(head, next))
<1>1. CASE Wild
    BY <1>1, BackedWild
<1>2. ASSUME gone \subseteq live, Free(gone),
             next' = Links(next, gone), prev' = Links(prev, gone),
             head' = Null, tail' = Null, number_items' = 0,
             wild' = wild, ~wild
      PROVE  BackedInv'
    <2> HIDE DEF gone
    <2>1. TypeOK
        BY DEF BackedInv
    <2>2. HeapTyped'
        BY <1>2, <2>1 DEF HeapTyped, TypeOK, Free, Links, Pointer
    <2>3. number_items' \in 0 .. 2^CountBits - 1
        BY <1>2, Numbers DEF Modulus
    <2>4. PICK L \in SUBSET live : Leak(L)
        BY <1>2 DEF BackedInv
    <2>5. PICK rest : rest = live'
        OBVIOUS
    <2>6. live' = live \ gone /\ Null \notin rest
        BY <1>2, <2>1, <2>5, NullAssumption DEF Free, TypeOK
    <2>7. ASSUME NEW n \in Node \ rest PROVE next'[n] = Null /\ prev'[n] = Null
        BY <1>2, <2>4, <2>5, <2>6 DEF Leak, Links
    <2>8. number_items' = Cardinality(live' \ rest)
        BY <1>2, <2>5, FS_EmptySet
    <2>9. Leak(rest)'
        BY <1>2, <2>5, <2>6, <2>7, <2>8 DEF Leak
    <2>10. rest \in SUBSET live'
        BY <2>5
    <2> QED
        BY <1>2, <2>2, <2>3, <2>9, <2>10, Assembled
<1> QED
    BY <1>1, <1>2 DEF Clear, Call, Safe

\* Taking a node off the list and freeing it.
LEMMA Freed ==
    ASSUME BackedInv, ~wild, wild' = wild, NEW L \in SUBSET live, Leak(L),
           NEW old \in live \ L, Free({old}),
           number_items' = Counted(number_items - 1),
           next' \in [Node -> Pointer], prev' \in [Node -> Pointer],
           head' \in Pointer, tail' \in Pointer, head' \notin L, tail' \notin L,
           \A n \in Node \ L : next'[n] \notin L /\ prev'[n] \notin L,
           next'[old] = Null, prev'[old] = Null,
           \A n \in Node \ live : next'[n] = Null /\ prev'[n] = Null
    PROVE  BackedInv'
<1>1. TypeOK
    BY DEF BackedInv
<1>2. HeapTyped'
    BY <1>1 DEF HeapTyped, TypeOK, Free
<1>3. number_items' \in 0 .. 2^CountBits - 1
    BY <1>1, Numbers DEF TypeOK, Modulus
<1>4. number_items' = Cardinality(live' \ L)
    BY <1>1, CountFollows DEF Leak, TypeOK, Free
<1>5. L \in SUBSET live' /\ live' = live \ {old}
    BY DEF Free
<1>6. Leak(L)'
    BY <1>4, <1>5 DEF Leak
<1> QED
    BY <1>2, <1>3, <1>5, <1>6, Assembled

LEMMA BackedPop ==
    ASSUME BackedInv, Pop
    PROVE  BackedInv'
<1>1. CASE Wild
    BY <1>1, BackedWild
<1>2. CASE UNCHANGED <<heap_vars, head, tail, number_items, wild>>
    BY <1>2, BackedSame
<1>3. ASSUME head \in live, head' = Below(head),
             number_items' = Counted(number_items - 1),
             Free({head}), next' = Links(next, {head}), prev' = Links(prev, {head}),
             tail' = tail, wild' = wild, ~wild
      PROVE  BackedInv'
    <2>1. TypeOK
        BY DEF BackedInv
    <2>2. PICK L \in SUBSET live : Leak(L)
        BY <1>3 DEF BackedInv
    <2>3. head \in live \ L /\ Null \notin L /\ L \subseteq Node /\ live \subseteq Node
        BY <1>3, <2>1, <2>2, NullAssumption DEF Leak, TypeOK
    <2>4. next' \in [Node -> Pointer] /\ prev' \in [Node -> Pointer]
        BY <1>3, <2>1 DEF TypeOK, Links, Pointer
    <2>5. head' \in Pointer /\ tail' \in Pointer /\ head' \notin L /\ tail' \notin L
        BY <1>3, <2>1, <2>2, <2>3 DEF TypeOK, Below, Leak
    <2>6. \A n \in Node \ L : next'[n] \notin L /\ prev'[n] \notin L
        BY <1>3, <2>2, <2>3 DEF Links, Leak
    <2>7. \A n \in (Node \ live) \cup {head} : next'[n] = Null /\ prev'[n] = Null
        BY <1>3, <2>2, <2>3 DEF Links, Leak
    <2> QED
        BY <1>3, <2>2, <2>3, <2>4, <2>5, <2>6, <2>7, Freed
<1> QED
    BY <1>1, <1>2, <1>3 DEF Pop, Call, Dangling

LEMMA BackedPopLeft ==
    ASSUME BackedInv, PopLeft
    PROVE  BackedInv'
<1>1. CASE Wild
    BY <1>1, BackedWild
<1>2. CASE UNCHANGED <<heap_vars, head, tail, number_items, wild>>
    BY <1>2, BackedSame
<1>3. ASSUME tail \in live, tail' = next[tail],
             prev' = Links(prev, {tail, next[tail]}), next' = Links(next, {tail}),
             number_items' = Counted(number_items - 1),
             Free({tail}), head' = head, wild' = wild, ~wild
      PROVE  BackedInv'
    <2>1. TypeOK
        BY DEF BackedInv
    <2>2. PICK L \in SUBSET live : Leak(L)
        BY <1>3 DEF BackedInv
    <2>3. tail \in live \ L /\ Null \notin L /\ L \subseteq Node /\ live \subseteq Node
        BY <1>3, <2>1, <2>2, NullAssumption DEF Leak, TypeOK
    <2>4. next' \in [Node -> Pointer] /\ prev' \in [Node -> Pointer]
        BY <1>3, <2>1 DEF TypeOK, Links, Pointer
    <2>5. head' \in Pointer /\ tail' \in Pointer /\ head' \notin L /\ tail' \notin L
        BY <1>3, <2>1, <2>2, <2>3 DEF TypeOK, Leak
    <2>6. \A n \in Node \ L : next'[n] \notin L /\ prev'[n] \notin L
        BY <1>3, <2>2, <2>3 DEF Links, Leak
    <2>7. \A n \in (Node \ live) \cup {tail} : next'[n] = Null /\ prev'[n] = Null
        BY <1>3, <2>2, <2>3 DEF Links, Leak
    <2> QED
        BY <1>3, <2>2, <2>3, <2>4, <2>5, <2>6, <2>7, Freed
<1> QED
    BY <1>1, <1>2, <1>3 DEF PopLeft, Call, Dangling

\* A walk from either end stays off the leaked nodes.
LEMMA WalkOff ==
    ASSUME TypeOK, NEW L \in SUBSET live, Leak(L)
    PROVE  /\ Walk(tail, next) \in Seq(Node \ L) /\ Met(Walk(tail, next)) \subseteq Node \ L
           /\ Walk(head, next) \in Seq(Node \ L) /\ Met(Walk(head, next)) \subseteq Node \ L
<1> DEFINE S == Node \ L
<1>1. \A x \in S : next[x] \in S \cup {Null}
    BY DEF TypeOK, Leak, Pointer
<1>2. tail \in S \cup {Null} /\ head \in S \cup {Null}
    BY DEF TypeOK, Leak, Pointer
<1> HIDE DEF S
<1>3. /\ Walk(tail, next) \in Seq(S) /\ Met(Walk(tail, next)) \subseteq S
      /\ Walk(head, next) \in Seq(S) /\ Met(Walk(head, next)) \subseteq S
    BY <1>1, <1>2, WalkStays
<1> QED
    BY <1>3 DEF S

LEMMA BackedRemove ==
    ASSUME BackedInv, NEW v \in Value, Remove(v)
    PROVE  BackedInv'
<1> DEFINE walk == Walk(tail, next)
           hit  == walk[FirstHit(walk, v)]
<1>1. CASE Wild
    BY <1>1, BackedWild
<1>2. CASE UNCHANGED <<heap_vars, head, tail, number_items, wild>>
    BY <1>2, BackedSame
<1>3. ASSUME Safe(Visited(walk, v)),
             Hits(walk, v) # {},
             {prev[hit], next[hit]} \subseteq live \cup {Null},
             next' = [n \in Node |-> IF n = hit THEN Null
                                     ELSE IF n = prev[hit] THEN next[hit] ELSE next[n]],
             prev' = [n \in Node |-> IF n = hit THEN Null
                                     ELSE IF n = next[hit] THEN prev[hit] ELSE prev[n]],
             Free({hit}),
             number_items' = Counted(number_items - 1),
             head' = head, tail' = tail, wild' = wild, ~wild
      PROVE  BackedInv'
    <2>1. TypeOK
        BY DEF BackedInv
    <2>2. PICK L \in SUBSET live : Leak(L)
        BY <1>3 DEF BackedInv
    <2>3. walk \in Seq(Node \ L)
        BY <2>1, <2>2, WalkOff
    <2> HIDE DEF walk
    <2>4. /\ hit \in Node \ L
          /\ FirstHit(walk, v) \in 1 .. Len(walk)
          /\ Met(Visited(walk, v)) = {walk[k] : k \in 1 .. FirstHit(walk, v)}
        BY <1>3, <2>3, Search
    <2>5. Len(walk) \in Nat
        BY <2>3, LenProperties
    <2>6. FirstHit(walk, v) \in 1 .. FirstHit(walk, v)
        BY <2>4, <2>5
    <2>7. hit \in Met(Visited(walk, v))
        BY <2>4, <2>6
    <2> HIDE DEF hit
    <2>8. hit \in live \ L /\ Null \notin L /\ L \subseteq Node /\ live \subseteq Node
        BY <1>3, <2>1, <2>4, <2>7, NullAssumption DEF TypeOK, Safe
    <2>9. next' \in [Node -> Pointer] /\ prev' \in [Node -> Pointer]
        BY <1>3, <2>1, <2>8 DEF TypeOK, Pointer
    <2>10. head' \in Pointer /\ tail' \in Pointer /\ head' \notin L /\ tail' \notin L
        BY <1>3, <2>1, <2>2 DEF TypeOK, Leak
    <2>11. \A n \in Node \ L : next'[n] \notin L /\ prev'[n] \notin L
        BY <1>3, <2>2, <2>8 DEF Leak
    <2>12. next'[hit] = Null /\ prev'[hit] = Null
        BY <1>3, <2>8
    <2>13. \A n \in Node \ live : next'[n] = Null /\ prev'[n] = Null
        BY <1>3, <2>2, <2>8, NullAssumption DEF Leak
    <2> QED
        BY <1>3, <2>2, <2>8, <2>9, <2>10, <2>11, <2>12, <2>13, Freed
<1> QED
    BY <1>1, <1>2, <1>3 DEF Remove, Call

\* Links that change, and nothing else.
LEMMA Relinked ==
    ASSUME BackedInv, ~wild, wild' = wild, UNCHANGED <<live, value, number_items>>,
           NEW L \in SUBSET live, Leak(L),
           next' \in [Node -> Pointer], prev' \in [Node -> Pointer],
           head' \in Pointer, tail' \in Pointer, head' \notin L, tail' \notin L,
           \A n \in Node \ L : next'[n] \notin L /\ prev'[n] \notin L,
           \A n \in Node \ live : next'[n] = Null /\ prev'[n] = Null
    PROVE  BackedInv'
<1>1. TypeOK
    BY DEF BackedInv
<1>2. HeapTyped' /\ number_items' \in 0 .. 2^CountBits - 1
    BY <1>1 DEF HeapTyped, TypeOK
<1>3. L \in SUBSET live' /\ Leak(L)'
    BY DEF Leak
<1> QED
    BY <1>2, <1>3, Assembled

LEMMA BackedRotateRight ==
    ASSUME BackedInv, RotateRight
    PROVE  BackedInv'
<1>1. CASE Wild
    BY <1>1, BackedWild
<1>2. CASE UNCHANGED <<heap_vars, head, tail, number_items, wild>>
    BY <1>2, BackedSame
<1>3. ASSUME {head, tail} \subseteq live, prev[head] \in live,
             head' = prev[head], tail' = head,
             next' = [next EXCEPT ![prev[head]] = Null, ![head] = tail],
             prev' = [prev EXCEPT ![head] = Null, ![tail] = head],
             UNCHANGED <<live, value, number_items>>, wild' = wild, ~wild
      PROVE  BackedInv'
    <2>1. TypeOK
        BY DEF BackedInv
    <2>2. PICK L \in SUBSET live : Leak(L)
        BY <1>3 DEF BackedInv
    <2>3. /\ Null \notin L /\ L \subseteq Node
          /\ live \subseteq Node /\ {head, tail} \subseteq Node
        BY <1>3, <2>1, NullAssumption DEF TypeOK
    <2>4. next' \in [Node -> Pointer] /\ prev' \in [Node -> Pointer]
        BY <1>3, <2>1, <2>3 DEF TypeOK, Pointer
    <2>5. head' \in Pointer /\ tail' \in Pointer /\ head' \notin L /\ tail' \notin L
        BY <1>3, <2>1, <2>2, <2>3 DEF TypeOK, Leak, Pointer
    <2>6. \A n \in Node \ L : next'[n] \notin L /\ prev'[n] \notin L
        BY <1>3, <2>1, <2>2, <2>3 DEF Leak, TypeOK
    <2>7. \A n \in Node \ live : next'[n] = Null /\ prev'[n] = Null
        BY <1>3, <2>1, <2>2, <2>3 DEF Leak, TypeOK
    <2> QED
        BY <1>3, <2>2, <2>4, <2>5, <2>6, <2>7, Relinked
<1> QED
    BY <1>1, <1>2, <1>3 DEF RotateRight, Call

LEMMA BackedRotateLeft ==
    ASSUME BackedInv, RotateLeft
    PROVE  BackedInv'
<1>1. CASE Wild
    BY <1>1, BackedWild
<1>2. CASE UNCHANGED <<heap_vars, head, tail, number_items, wild>>
    BY <1>2, BackedSame
<1>3. ASSUME {head, tail} \subseteq live, next[tail] \in live,
             tail' = next[tail], head' = tail,
             prev' = [prev EXCEPT ![next[tail]] = Null, ![tail] = head],
             next' = [next EXCEPT ![tail] = Null, ![head] = tail],
             UNCHANGED <<live, value, number_items>>, wild' = wild, ~wild
      PROVE  BackedInv'
    <2>1. TypeOK
        BY DEF BackedInv
    <2>2. PICK L \in SUBSET live : Leak(L)
        BY <1>3 DEF BackedInv
    <2>3. /\ Null \notin L /\ L \subseteq Node
          /\ live \subseteq Node /\ {head, tail} \subseteq Node
        BY <1>3, <2>1, NullAssumption DEF TypeOK
    <2>4. next' \in [Node -> Pointer] /\ prev' \in [Node -> Pointer]
        BY <1>3, <2>1, <2>3 DEF TypeOK, Pointer
    <2>5. head' \in Pointer /\ tail' \in Pointer /\ head' \notin L /\ tail' \notin L
        BY <1>3, <2>1, <2>2, <2>3 DEF TypeOK, Leak, Pointer
    <2>6. \A n \in Node \ L : next'[n] \notin L /\ prev'[n] \notin L
        BY <1>3, <2>1, <2>2, <2>3 DEF Leak, TypeOK
    <2>7. \A n \in Node \ live : next'[n] = Null /\ prev'[n] = Null
        BY <1>3, <2>1, <2>2, <2>3 DEF Leak, TypeOK
    <2> QED
        BY <1>3, <2>2, <2>4, <2>5, <2>6, <2>7, Relinked
<1> QED
    BY <1>1, <1>2, <1>3 DEF RotateLeft, Call

LEMMA BackedReverse ==
    ASSUME BackedInv, Reverse
    PROVE  BackedInv'
<1> DEFINE met == Met(Walk(tail, next))
<1>1. CASE Wild
    BY <1>1, BackedWild
<1>2. ASSUME met \subseteq live,
             next' = [n \in Node |-> IF n \in met THEN prev[n] ELSE next[n]],
             prev' = [n \in Node |-> IF n \in met THEN next[n] ELSE prev[n]],
             head' = tail, tail' = head,
             UNCHANGED <<live, value, number_items>>, wild' = wild, ~wild
      PROVE  BackedInv'
    <2> HIDE DEF met
    <2>1. TypeOK
        BY DEF BackedInv
    <2>2. PICK L \in SUBSET live : Leak(L)
        BY <1>2 DEF BackedInv
    <2>3. next' \in [Node -> Pointer] /\ prev' \in [Node -> Pointer]
        BY <1>2, <2>1 DEF TypeOK, Pointer
    <2>4. head' \in Pointer /\ tail' \in Pointer /\ head' \notin L /\ tail' \notin L
        BY <1>2, <2>1, <2>2 DEF TypeOK, Leak
    <2>5. \A n \in Node \ L : next'[n] \notin L /\ prev'[n] \notin L
        BY <1>2, <2>2 DEF Leak
    <2>6. \A n \in Node \ live : next'[n] = Null /\ prev'[n] = Null
        BY <1>2, <2>2 DEF Leak
    <2> QED
        BY <1>2, <2>2, <2>3, <2>4, <2>5, <2>6, Relinked
<1> QED
    BY <1>1, <1>2 DEF Reverse, Call, Safe

LEMMA BackedStep == BackedInv /\ [Next]_vars => BackedInv'
<1> SUFFICES ASSUME BackedInv, [Next]_vars PROVE BackedInv'
    OBVIOUS
<1>1. ASSUME NEW v \in Value, AppendRight(v) PROVE BackedInv'
    BY <1>1, BackedAppendRight
<1>2. ASSUME NEW v \in Value, AppendLeft(v) PROVE BackedInv'
    BY <1>2, BackedAppendLeft
<1>3. ASSUME NEW v \in Value, Contains(v) PROVE BackedInv'
    BY <1>3, BackedSame, BackedWild DEF Contains
<1>4. ASSUME NEW v \in Value, Remove(v) PROVE BackedInv'
    BY <1>4, BackedRemove
<1>5. CASE Pop
    BY <1>5, BackedPop
<1>6. CASE PopLeft
    BY <1>6, BackedPopLeft
<1>7. CASE Peek
    BY <1>7, BackedSame, BackedWild DEF Peek, PeekAt
<1>8. CASE PeekLeft
    BY <1>8, BackedSame, BackedWild DEF PeekLeft, PeekAt
<1>9. CASE Count
    BY <1>9, BackedSame DEF Count
<1>10. CASE Clear
    BY <1>10, BackedClear
<1>11. CASE Copy
    BY <1>11, BackedSame, BackedWild DEF Copy
<1>12. CASE RotateRight
    BY <1>12, BackedRotateRight
<1>13. CASE RotateLeft
    BY <1>13, BackedRotateLeft
<1>14. CASE Reverse
    BY <1>14, BackedReverse
<1>15. CASE UNCHANGED vars
    BY <1>15, BackedSame DEF vars
<1> QED
    BY <1>1, <1>2, <1>3, <1>4, <1>5, <1>6, <1>7, <1>8, <1>9, <1>10, <1>11, <1>12,
       <1>13, <1>14, <1>15 DEF Next

\* Every variable of the deque keeps its type, whatever functions of deque.c
\* are called and in whatever order.
THEOREM TypeCorrect == Spec => []TypeOK
<1>1. BackedInv => TypeOK
    BY DEF BackedInv
<1> QED
    BY <1>1, BackedInit, BackedStep, PTL DEF Spec

\* deque_count never counts an item without a node, whatever functions of
\* deque.c are called: as long as no bad pointer was followed.
THEOREM CountsWhatIsThere == Spec => []CountBacked
<1>1. BackedInv => CountBacked
    <2> SUFFICES ASSUME BackedInv, ~wild PROVE number_items <= Cardinality(live)
        BY DEF CountBacked
    <2>1. PICK L \in SUBSET live : Leak(L)
        BY DEF BackedInv
    <2>2. IsFiniteSet(live)
        BY NodeAssumption, FS_Subset DEF BackedInv, TypeOK
    <2>3. Cardinality(live \ L) <= Cardinality(live)
        <3>1. live \ L \subseteq live
            OBVIOUS
        <3> QED
            BY <2>2, <3>1, FS_Subset
    <2> QED
        BY <2>1, <2>3 DEF Leak
<1> QED
    BY <1>1, BackedInit, BackedStep, PTL DEF Spec

-----------------------------------------------------------------------------
(***************************************************************************)
(* The list of a tame client: n nodes s from the tail to the head, all     *)
(* that is allocated, linked by prev.  next and tail agree only as long as *)
(* nothing was popped.                                                     *)
(***************************************************************************)
Chain(n, s) ==
    /\ \A i, j \in 1 .. n : s[i] = s[j] => i = j
    /\ live = {s[i] : i \in 1 .. n}
    /\ number_items = n
    /\ head = IF n = 0 THEN Null ELSE s[n]
    /\ \A i \in 1 .. n : prev[s[i]] = IF i = 1 THEN Null ELSE s[i - 1]

BothWays(n, s) ==
    /\ tail = IF n = 0 THEN Null ELSE s[1]
    /\ \A i \in 1 .. n : next[s[i]] = IF i = n THEN Null ELSE s[i + 1]

Held(n, s) == Chain(n, s) /\ (use # "pop" => BothWays(n, s))
OnList == \E n \in Nat : \E s \in [1 .. n -> Node] : Held(n, s)

Uses == {"grow", "pop", "tail", "other"}

TameInv ==
    /\ use \in Uses
    /\ Tame => ~wild /\ OnList

DequeInv == TypeOK /\ TameInv

\* the items along a chain
Line(n, s) == [i \in 1 .. n |-> value[s[i]]]

LEMMA Short ==
    ASSUME NEW n \in Nat, NEW s \in [1 .. n -> Node],
           \A i, j \in 1 .. n : s[i] = s[j] => i = j
    PROVE  n <= Size
<1>1. s \in Injection(1 .. n, Node)
    BY DEF Injection, IsInjective
<1>2. IsFiniteSet(1 .. n) /\ Cardinality(1 .. n) = n
    BY FS_Interval
<1> QED
    BY <1>1, <1>2, NodeAssumption, FS_Injection DEF Size

\* What the head sees is the whole chain.
Seen(n, s) ==
    /\ n <= Size
    /\ Len(Walk(head, prev)) = n
    /\ Met(Walk(head, prev)) = live
    /\ Items = Line(n, s)
    /\ Items \in Seq(Value \cup {Null}) /\ Len(Items) = n /\ DOMAIN Items = 1 .. n
    /\ \A i \in 1 .. n : Items[i] = value[s[i]]

ChainsSeen ==
    \A n \in Nat : \A s \in [1 .. n -> Node] : TypeOK /\ Chain(n, s) => Seen(n, s)

LEMMA HeadSees == ChainsSeen
<1> SUFFICES ASSUME NEW n \in Nat, NEW s \in [1 .. n -> Node], TypeOK, Chain(n, s)
             PROVE  Seen(n, s)
    BY DEF ChainsSeen
<1> DEFINE t == [i \in 1 .. n |-> s[n + 1 - i]]
           walk == Walk(head, prev)
<1>1. n <= Size
    BY Short DEF Chain
<1>2. \A i \in 1 .. n : n + 1 - i \in 1 .. n /\ n + 1 - (n + 1 - i) = i
    OBVIOUS
<1>3. t \in [1 .. n -> Node]
    BY <1>2
<1>4. ASSUME NEW i \in 1 .. n PROVE prev[t[i]] = IF i = n THEN Null ELSE t[i + 1]
    <2>1. t[i] = s[n + 1 - i] /\ n + 1 - i \in 1 .. n
        BY <1>2
    <2>2. prev[t[i]] = IF n + 1 - i = 1 THEN Null ELSE s[n + 1 - i - 1]
        BY <2>1 DEF Chain
    <2>3. n + 1 - i = 1 <=> i = n
        OBVIOUS
    <2>4. i # n => i + 1 \in 1 .. n /\ n + 1 - (i + 1) = n + 1 - i - 1
        OBVIOUS
    <2> QED
        BY <2>2, <2>3, <2>4
<1>5. n = 0 => head = Null
    BY DEF Chain
<1>6. n # 0 => head = t[1]
    <2>1. n # 0 => 1 \in 1 .. n /\ n + 1 - 1 = n
        OBVIOUS
    <2> QED
        BY <2>1 DEF Chain
<1>7. walk = t
    <2> HIDE DEF t
    <2> QED
        BY <1>1, <1>3, <1>4, <1>5, <1>6, WalkOfChain
<1>8. t \in Seq(Node) /\ Len(t) = n /\ DOMAIN t = 1 .. n
    BY <1>3, SeqDef, LenProperties
<1>9. Met(t) = live
    <2>1. Met(t) = {t[i] : i \in 1 .. n}
        BY <1>8 DEF Met
    <2>2. ASSUME NEW x \in live PROVE \E i \in 1 .. n : x = t[i]
        <3>1. PICK i \in 1 .. n : x = s[i]
            BY DEF Chain
        <3>2. n + 1 - i \in 1 .. n /\ t[n + 1 - i] = s[i]
            BY <1>2
        <3> QED
            BY <3>1, <3>2
    <2>3. \A i \in 1 .. n : t[i] \in live
        BY <1>2 DEF Chain
    <2> QED
        BY <2>1, <2>2, <2>3
<1>10. Items = [i \in 1 .. n |-> value[t[n + 1 - i]]]
    BY <1>7, <1>8 DEF Items
<1>11. Items = Line(n, s)
    BY <1>2, <1>10 DEF Line
<1>12. Line(n, s) \in [1 .. n -> Value \cup {Null}]
    BY DEF Line, TypeOK
<1>13. /\ Items \in Seq(Value \cup {Null}) /\ Len(Items) = n /\ DOMAIN Items = 1 .. n
       /\ \A i \in 1 .. n : Items[i] = value[s[i]]
    <2>1. Line(n, s) \in Seq(Value \cup {Null})
        BY <1>12, SeqDef
    <2>2. DOMAIN Line(n, s) = 1 .. n /\ \A i \in 1 .. n : Line(n, s)[i] = value[s[i]]
        BY DEF Line
    <2>3. Len(Line(n, s)) = n
        BY <1>12, <2>1, <2>2, SeqDef, LenProperties
    <2> QED
        BY <1>11, <2>1, <2>2, <2>3
<1> QED
    BY <1>1, <1>7, <1>8, <1>9, <1>11, <1>13 DEF Seen

\* What the tail sees, when next and tail agree.
LEMMA TailSees ==
    ASSUME NEW n \in Nat, NEW s \in [1 .. n -> Node], Chain(n, s), BothWays(n, s)
    PROVE  /\ Walk(tail, next) = s /\ s \in Seq(Node) /\ Len(s) = n /\ DOMAIN s = 1 .. n
           /\ Met(s) = live /\ Safe(s)
<1>1. n <= Size
    BY Short DEF Chain
<1>2. n = 0 => tail = Null
    BY DEF BothWays
<1>3. n # 0 => tail = s[1]
    BY DEF BothWays
<1>4. \A i \in 1 .. n : next[s[i]] = IF i = n THEN Null ELSE s[i + 1]
    BY DEF BothWays
<1>5. Walk(tail, next) = s
    BY <1>1, <1>2, <1>3, <1>4, WalkOfChain
<1>6. s \in Seq(Node) /\ Len(s) = n /\ DOMAIN s = 1 .. n
    BY SeqDef, LenProperties
<1>7. Met(s) = live
    BY <1>6 DEF Met, Chain
<1> QED
    BY <1>1, <1>5, <1>6, <1>7 DEF Safe

LEMMA ItemsBecome ==
    ASSUME TypeOK', NEW n \in Nat, NEW s \in [1 .. n -> Node], Chain(n, s)',
           NEW t \in Seq(Value \cup {Null}), Len(t) = n,
           \A i \in 1 .. n : value'[s[i]] = t[i]
    PROVE  Items' = t
<1>1. Seen(n, s)'
    <2>1. ChainsSeen'
        BY HeadSees, PTL
    <2> QED
        BY <2>1 DEF ChainsSeen
<1>2. /\ Items' \in Seq(Value \cup {Null}) /\ Len(Items') = n
      /\ \A i \in 1 .. n : Items'[i] = value'[s[i]]
    BY <1>1 DEF Seen
<1> QED
    BY <1>2, SeqEqual

\* A call that leaves the list alone.
LEMMA SameHeld ==
    ASSUME TypeOK, TypeOK', NEW n \in Nat, NEW s \in [1 .. n -> Node], Held(n, s),
           UNCHANGED <<heap_vars, head, tail, number_items>>,
           use' # "pop" => use # "pop"
    PROVE  OnList' /\ Items' = Items
<1>1. Held(n, s)'
    BY DEF Held, Chain, BothWays, heap_vars
<1>2. Seen(n, s)
    BY HeadSees DEF Held, ChainsSeen
<1>3. Items' = Items
    <2>1. \A i \in 1 .. n : value'[s[i]] = Items[i]
        BY <1>2 DEF Seen, heap_vars
    <2> QED
        BY <1>1, <1>2, <2>1, ItemsBecome DEF Held, Seen
<1> QED
    BY <1>1, <1>3 DEF OnList

LEMMA AppendHeld ==
    ASSUME TypeOK, TypeOK', NEW v \in Value, NEW n \in Nat, NEW s \in [1 .. n -> Node],
           Held(n, s), use' = use,
           NEW new \in Node \ live,
           live' = live \cup {new},
           value' = [value EXCEPT ![new] = v],
           prev' = [prev EXCEPT ![new] = head],
           next' = [x \in Node |-> IF x = new THEN Null
                                   ELSE IF x = head THEN new
                                   ELSE next[x]],
           tail' = IF tail = Null THEN new ELSE tail,
           head' = new,
           number_items' = Counted(number_items + 1)
    PROVE  OnList' /\ Items' = Append(Items, v)
<1> DEFINE t == [i \in 1 .. n + 1 |-> IF i = n + 1 THEN new ELSE s[i]]
<1>1. \A i \in 1 .. n : s[i] \in live /\ s[i] # new /\ i # n + 1 /\ i \in 1 .. n + 1
    BY DEF Held, Chain
<1>2. /\ t \in [1 .. n + 1 -> Node] /\ t[n + 1] = new
      /\ \A i \in 1 .. n : t[i] = s[i]
      /\ \A i \in 1 .. n + 1 : i = n + 1 \/ i \in 1 .. n
    BY <1>1
<1> HIDE DEF t
<1>3. \A i, j \in 1 .. n + 1 : t[i] = t[j] => i = j
    BY <1>1, <1>2 DEF Held, Chain
<1>4. n + 1 \in Nat /\ n + 1 <= Size
    BY <1>2, <1>3, Short
<1>5. number_items' = n + 1
    BY <1>4, Numbers DEF Held, Chain
<1>6. live' = {t[i] : i \in 1 .. n + 1}
    <2>1. \A i \in 1 .. n + 1 : t[i] \in live'
        BY <1>1, <1>2
    <2>2. ASSUME NEW x \in live' PROVE \E i \in 1 .. n + 1 : x = t[i]
        <3>1. CASE x = new
            BY <1>2, <3>1
        <3>2. CASE x \in live
            BY <1>1, <1>2, <3>2 DEF Held, Chain
        <3> QED
            BY <3>1, <3>2
    <2> QED
        BY <2>1, <2>2
<1>7. ASSUME NEW i \in 1 .. n + 1
      PROVE  prev'[t[i]] = IF i = 1 THEN Null ELSE t[i - 1]
    <2>1. CASE i = n + 1
        <3>1. prev'[t[i]] = head
            BY <1>2, <2>1 DEF TypeOK
        <3>2. n # 0 => n \in 1 .. n /\ i - 1 = n
            BY <2>1
        <3> QED
            BY <1>2, <2>1, <3>1, <3>2 DEF Held, Chain
    <2>2. CASE i \in 1 .. n
        <3>1. prev'[t[i]] = prev[s[i]]
            BY <1>1, <1>2, <2>2 DEF TypeOK
        <3>2. i # 1 => i - 1 \in 1 .. n
            BY <2>2
        <3> QED
            BY <1>2, <2>2, <3>1, <3>2 DEF Held, Chain
    <2> QED
        BY <1>2, <2>1, <2>2
<1>8. Chain(n + 1, t)'
    BY <1>2, <1>3, <1>4, <1>5, <1>6, <1>7 DEF Chain
<1>9. ASSUME use # "pop" PROVE BothWays(n + 1, t)'
    <2>1. tail' = t[1]
        <3>1. n # 0 => 1 \in 1 .. n /\ s[1] # Null
            BY NullAssumption
        <3> QED
            BY <1>2, <1>9, <3>1 DEF Held, BothWays
    <2>2. ASSUME NEW i \in 1 .. n + 1
          PROVE  next'[t[i]] = IF i = n + 1 THEN Null ELSE t[i + 1]
        <3>1. CASE i = n + 1
            BY <1>2, <3>1
        <3>2. CASE i = n /\ n # 0
            <4>1. i \in 1 .. n /\ s[i] = head
                BY <3>2 DEF Held, Chain
            <4>2. t[i] = head /\ head # new /\ head \in Node
                BY <1>1, <1>2, <4>1
            <4> QED
                BY <1>2, <3>2, <4>1, <4>2
        <3>3. CASE i \in 1 .. n - 1
            <4>1. i \in 1 .. n /\ n \in 1 .. n /\ i # n /\ i + 1 \in 1 .. n
                BY <3>3
            <4>2. s[i] # head /\ s[i] # new /\ s[i] \in Node
                BY <1>1, <4>1 DEF Held, Chain
            <4>3. next'[t[i]] = next[s[i]]
                BY <1>2, <4>1, <4>2
            <4>4. next[s[i]] = s[i + 1]
                BY <1>9, <4>1 DEF Held, BothWays
            <4> QED
                BY <1>1, <1>2, <4>1, <4>3, <4>4
        <3> QED
            BY <3>1, <3>2, <3>3
    <2> QED
        BY <1>4, <2>1, <2>2 DEF BothWays
<1>10. OnList'
    BY <1>2, <1>4, <1>8, <1>9 DEF OnList, Held
<1>11. Seen(n, s)
    BY HeadSees DEF Held, ChainsSeen
<1> DEFINE u == Append(Items, v)
<1>12. /\ u \in Seq(Value \cup {Null}) /\ Len(u) = n + 1
       /\ \A i \in 1 .. n : u[i] = Items[i]
       /\ u[n + 1] = v
    BY <1>11, AppendProperties DEF Seen
<1> HIDE DEF u
<1>13. ASSUME NEW i \in 1 .. n + 1 PROVE value'[t[i]] = u[i]
    <2>1. CASE i = n + 1
        BY <1>2, <1>12, <2>1 DEF TypeOK
    <2>2. CASE i \in 1 .. n
        <3>1. t[i] = s[i] /\ s[i] # new /\ s[i] \in Node /\ u[i] = value[s[i]]
            BY <1>1, <1>2, <1>11, <1>12, <2>2 DEF Seen
        <3>2. value'[s[i]] = value[s[i]]
            BY <3>1 DEF TypeOK
        <3> QED
            BY <3>1, <3>2
    <2> QED
        BY <1>2, <2>1, <2>2
<1>14. Items' = u
    BY <1>2, <1>4, <1>8, <1>12, <1>13, ItemsBecome
<1> QED
    BY <1>10, <1>14 DEF u

LEMMA PopHeld ==
    ASSUME TypeOK, TypeOK', NEW n \in Nat, NEW s \in [1 .. n -> Node], Held(n, s),
           use' = "pop", Pop
    PROVE  ~wild' /\ OnList' /\ Ends!Pop
<1>1. Seen(n, s)
    BY HeadSees DEF Held, ChainsSeen
<1>2. ~wild
    BY DEF Pop, Call
<1>3. CASE n = 0
    <2>1. head = Null
        BY <1>3 DEF Held, Chain
    <2>2. /\ result' = <<"item", Null>>
          /\ UNCHANGED <<heap_vars, head, tail, number_items, wild>>
        BY <2>1 DEF Pop, Wild
    <2>3. OnList' /\ Items' = Items
        BY <2>2, SameHeld
    <2>4. Items = <<>>
        BY <1>1, <1>3, EmptySeq DEF Seen
    <2> QED
        BY <1>2, <2>2, <2>3, <2>4 DEF Ends!Pop
<1>4. CASE n # 0
    <2>1. n \in 1 .. n /\ n - 1 \in Nat /\ n - 1 < n /\ 1 \in 1 .. n
        BY <1>4
    <2>2. head = s[n] /\ head \in live /\ head # Null /\ head \in Node
        BY <1>4, <2>1, NullAssumption DEF Held, Chain
    <2>3. /\ head' = prev[head]
          /\ number_items' = Counted(n - 1)
          /\ result' = <<"item", value[head]>>
          /\ live' = live \ {head}
          /\ value' = [x \in Node |-> IF x \in {head} THEN Null ELSE value[x]]
          /\ prev' = [x \in Node |-> IF x \in {head} THEN Null ELSE prev[x]]
          /\ wild' = wild
        BY <2>2 DEF Pop, Free, Links, Below, Dangling, Held, Chain
    <2> DEFINE t == [i \in 1 .. n - 1 |-> s[i]]
    <2>4. \A i \in 1 .. n - 1 : i \in 1 .. n /\ s[i] # head /\ s[i] \in live /\ s[i] \in Node
        BY <2>1, <2>2 DEF Held, Chain
    <2>5. t \in [1 .. n - 1 -> Node] /\ \A i \in 1 .. n - 1 : t[i] = s[i]
        BY <2>4
    <2> HIDE DEF t
    <2>6. \A i, j \in 1 .. n - 1 : t[i] = t[j] => i = j
        BY <2>4, <2>5 DEF Held, Chain
    <2>7. number_items' = n - 1
        BY <1>1, <2>1, <2>3, Numbers DEF Seen
    <2>8. live' = {t[i] : i \in 1 .. n - 1}
        <3>1. \A i \in 1 .. n - 1 : t[i] \in live'
            BY <2>3, <2>4, <2>5
        <3>2. ASSUME NEW x \in live' PROVE \E i \in 1 .. n - 1 : x = t[i]
            <4>1. PICK i \in 1 .. n : x = s[i]
                BY <2>3 DEF Held, Chain
            <4>2. i \in 1 .. n - 1
                BY <2>2, <2>3, <4>1
            <4> QED
                BY <2>5, <4>1, <4>2
        <3> QED
            BY <3>1, <3>2
    <2>9. head' = IF n - 1 = 0 THEN Null ELSE t[n - 1]
        <3>1. head' = IF n = 1 THEN Null ELSE s[n - 1]
            BY <2>1, <2>2, <2>3 DEF Held, Chain
        <3>2. n # 1 => n - 1 \in 1 .. n - 1
            BY <1>4
        <3>3. n - 1 = 0 <=> n = 1
            OBVIOUS
        <3> QED
            BY <2>5, <3>1, <3>2, <3>3
    <2>10. ASSUME NEW i \in 1 .. n - 1
           PROVE  prev'[t[i]] = IF i = 1 THEN Null ELSE t[i - 1]
        <3>1. prev'[t[i]] = prev[s[i]]
            BY <2>3, <2>4, <2>5
        <3>2. prev[s[i]] = IF i = 1 THEN Null ELSE s[i - 1]
            BY <2>4 DEF Held, Chain
        <3>3. i # 1 => i - 1 \in 1 .. n - 1
            OBVIOUS
        <3> QED
            BY <2>5, <3>1, <3>2, <3>3
    <2>11. Chain(n - 1, t)'
        BY <2>6, <2>7, <2>8, <2>9, <2>10 DEF Chain
    <2>12. OnList'
        BY <2>1, <2>5, <2>11 DEF OnList, Held
    <2> DEFINE u == SubSeq(Items, 1, n - 1)
    <2>13. /\ u \in Seq(Value \cup {Null}) /\ Len(u) = n - 1
           /\ \A i \in 1 .. n - 1 : u[i] = Items[i]
        <3>1. n - 1 <= Len(Items) /\ 1 <= n - 1 + 1 /\ n - 1 - 1 + 1 = n - 1
            BY <1>1, <2>1 DEF Seen
        <3>2. \A i \in 1 .. n - 1 : 1 + i - 1 = i
            OBVIOUS
        <3> HIDE DEF u
        <3> QED
            BY <1>1, <2>1, <3>1, <3>2, Part DEF Seen, u
    <2> HIDE DEF u
    <2>14. ASSUME NEW i \in 1 .. n - 1 PROVE value'[t[i]] = u[i]
        <3>1. value'[t[i]] = value[s[i]]
            BY <2>3, <2>4, <2>5
        <3> QED
            BY <1>1, <2>4, <2>13, <3>1 DEF Seen
    <2>15. Items' = u
        BY <2>1, <2>5, <2>11, <2>13, <2>14, ItemsBecome
    <2>16. Items # <<>> /\ Len(Items) = n /\ Items[n] = value[head]
        BY <1>1, <1>4, <2>1, <2>2, EmptySeq DEF Seen
    <2> QED
        BY <1>2, <2>3, <2>12, <2>15, <2>16 DEF Ends!Pop, Ends!Right, u
<1> QED
    BY <1>3, <1>4

LEMMA ReverseHeld ==
    ASSUME TypeOK, TypeOK', NEW n \in Nat, NEW s \in [1 .. n -> Node], Held(n, s),
           use # "pop", Reverse
    PROVE  ~wild' /\ OnList' /\ Ends!Reverse
<1>1. Seen(n, s)
    BY HeadSees DEF Held, ChainsSeen
<1>2. ~wild
    BY DEF Reverse, Call
<1>3. Walk(tail, next) = s /\ Met(s) = live /\ Safe(s)
    BY TailSees DEF Held
<1>4. /\ next' = [x \in Node |-> IF x \in live THEN prev[x] ELSE next[x]]
      /\ prev' = [x \in Node |-> IF x \in live THEN next[x] ELSE prev[x]]
      /\ head' = tail /\ tail' = head
      /\ UNCHANGED <<live, value, number_items, result, wild>>
    BY <1>3 DEF Reverse
<1> DEFINE t == [i \in 1 .. n |-> s[n + 1 - i]]
<1>5. \A i \in 1 .. n : n + 1 - i \in 1 .. n /\ n + 1 - (n + 1 - i) = i
    OBVIOUS
<1>6. t \in [1 .. n -> Node] /\ \A i \in 1 .. n : t[i] = s[n + 1 - i] /\ t[i] \in live
    BY <1>5 DEF Held, Chain
<1> HIDE DEF t
<1>7. ASSUME NEW i \in 1 .. n, NEW j \in 1 .. n, t[i] = t[j] PROVE i = j
    <2>1. n + 1 - i = n + 1 - j
        BY <1>5, <1>6, <1>7 DEF Held, Chain
    <2> QED
        BY <2>1
<1>8. live' = {t[i] : i \in 1 .. n}
    <2>1. ASSUME NEW x \in live PROVE \E i \in 1 .. n : x = t[i]
        <3>1. PICK i \in 1 .. n : x = s[i]
            BY DEF Held, Chain
        <3> QED
            BY <1>5, <1>6, <3>1
    <2> QED
        BY <1>4, <1>6, <2>1
<1>9. n # 0 => 1 \in 1 .. n /\ n \in 1 .. n /\ n + 1 - 1 = n /\ n + 1 - n = 1
    OBVIOUS
<1>10. /\ head' = IF n = 0 THEN Null ELSE t[n]
       /\ tail' = IF n = 0 THEN Null ELSE t[1]
    <2>1. /\ head' = IF n = 0 THEN Null ELSE s[1]
          /\ tail' = IF n = 0 THEN Null ELSE s[n]
        BY <1>4 DEF Held, Chain, BothWays
    <2> QED
        BY <1>6, <1>9, <2>1
<1>11. ASSUME NEW i \in 1 .. n
       PROVE  /\ prev'[t[i]] = IF i = 1 THEN Null ELSE t[i - 1]
              /\ next'[t[i]] = IF i = n THEN Null ELSE t[i + 1]
    <2>1. prev'[t[i]] = next[s[n + 1 - i]] /\ next'[t[i]] = prev[s[n + 1 - i]]
        BY <1>4, <1>6
    <2>2. next[s[n + 1 - i]] = IF n + 1 - i = n THEN Null ELSE s[n + 1 - i + 1]
        BY <1>5 DEF Held, BothWays
    <2>3. prev[s[n + 1 - i]] = IF n + 1 - i = 1 THEN Null ELSE s[n + 1 - i - 1]
        BY <1>5 DEF Held, Chain
    <2>4. /\ n + 1 - i = n <=> i = 1
          /\ n + 1 - i = 1 <=> i = n
          /\ i # 1 => i - 1 \in 1 .. n /\ n + 1 - (i - 1) = n + 1 - i + 1
          /\ i # n => i + 1 \in 1 .. n /\ n + 1 - (i + 1) = n + 1 - i - 1
        OBVIOUS
    <2>5. /\ i # 1 => t[i - 1] = s[n + 1 - i + 1]
          /\ i # n => t[i + 1] = s[n + 1 - i - 1]
        BY <1>6, <2>4
    <2> QED
        BY <2>1, <2>2, <2>3, <2>4, <2>5
<1>12. Chain(n, t)'
    <2>1. number_items' = n
        BY <1>4 DEF Held, Chain
    <2> QED
        BY <1>7, <1>8, <1>10, <1>11, <2>1 DEF Chain
<1>13. BothWays(n, t)'
    BY <1>10, <1>11 DEF BothWays
<1>14. OnList'
    BY <1>6, <1>12, <1>13 DEF OnList, Held
<1> DEFINE u == [i \in 1 .. n |-> Items[n + 1 - i]]
<1>15. u \in Seq(Value \cup {Null}) /\ Len(u) = n /\ \A i \in 1 .. n : u[i] = Items[n + 1 - i]
    <2>1. \A i \in 1 .. n : Items[i] \in Value \cup {Null}
        BY <1>1, ElementOfSeq DEF Seen
    <2>2. u \in [1 .. n -> Value \cup {Null}]
        BY <1>5, <2>1
    <2> QED
        BY <2>2, SeqDef, LenProperties
<1> HIDE DEF u
<1>16. \A i \in 1 .. n : value'[t[i]] = u[i]
    BY <1>1, <1>4, <1>5, <1>6, <1>15 DEF Seen
<1>17. Items' = u
    BY <1>6, <1>12, <1>15, <1>16, ItemsBecome
<1>18. u = [i \in DOMAIN Items |-> Items[Len(Items) + 1 - i]]
    BY <1>1 DEF Seen, u
<1> QED
    BY <1>2, <1>4, <1>14, <1>17, <1>18 DEF Ends!Reverse

LEMMA ContainsHeld ==
    ASSUME TypeOK, TypeOK', NEW v \in Value, NEW n \in Nat, NEW s \in [1 .. n -> Node],
           Held(n, s), use # "pop", Contains(v)
    PROVE  ~wild' /\ OnList' /\ Ends!Contains(v)
<1>1. Seen(n, s)
    BY HeadSees DEF Held, ChainsSeen
<1>2. ~wild
    BY DEF Contains, Call
<1>3. Walk(tail, next) = s /\ s \in Seq(Node) /\ Len(s) = n /\ DOMAIN s = 1 .. n
      /\ Met(s) = live /\ Safe(s)
    BY TailSees DEF Held
<1>4. Safe(Visited(s, v))
    <2>1. CASE Hits(s, v) = {}
        BY <1>3, <2>1 DEF Visited
    <2>2. CASE Hits(s, v) # {}
        <3>1. /\ FirstHit(s, v) \in 1 .. n
              /\ Len(Visited(s, v)) = FirstHit(s, v)
              /\ Met(Visited(s, v)) = {s[k] : k \in 1 .. FirstHit(s, v)}
            BY <1>3, <2>2, Search
        <3>2. Len(Visited(s, v)) <= Size
            BY <1>1, <3>1, Numbers DEF Seen
        <3>3. \A k \in 1 .. FirstHit(s, v) : k \in 1 .. n
            BY <3>1
        <3>4. Met(Visited(s, v)) \subseteq live
            BY <3>1, <3>3 DEF Held, Chain
        <3> QED
            BY <3>2, <3>4 DEF Safe
    <2> QED
        BY <2>1, <2>2
<1>5. /\ result' = <<"found", Hits(s, v) # {}>>
      /\ UNCHANGED <<heap_vars, head, tail, number_items, wild>>
    BY <1>3, <1>4 DEF Contains
<1>6. OnList' /\ Items' = Items
    <2>1. UNCHANGED <<heap_vars, head, tail, number_items>>
        BY <1>5
    <2> QED
        BY <2>1, SameHeld
<1>7. (Hits(s, v) # {}) <=> \E k \in DOMAIN Items : Items[k] = v
    BY <1>1, <1>3 DEF Hits, Seen
<1>8. result' = <<"found", \E k \in DOMAIN Items : Items[k] = v>>
    BY <1>5, <1>7, Zenon
<1> QED
    BY <1>2, <1>5, <1>6, <1>8 DEF Ends!Contains

\* A client that is tame after a call was tame before it.
LEMMA CallTame ==
    ASSUME TameInv, NEW group, Call(group)
    PROVE  /\ group \in Uses => use' \in Uses
           /\ Tame' => /\ Tame /\ ~wild
                       /\ group = "grow" => use' = use
                       /\ group = "pop" => use' = "pop"
                       /\ group = "tail" => use # "pop" /\ use' # "pop"
                       /\ group # "other"
    BY DEF TameInv, Call, Tame, Uses

TameListed == Tame' => ~wild' /\ OnList' /\ [Ends!Next]_(Ends!vars)

LEMMA TameCalls ==
    ASSUME DequeInv, TypeOK', [Next]_vars
    PROVE  TameListed
<1> SUFFICES ASSUME Tame' PROVE ~wild' /\ OnList' /\ [Ends!Next]_(Ends!vars)
    BY DEF TameListed
<1>1. TypeOK /\ TameInv
    BY DEF DequeInv
<1>2. CASE UNCHANGED vars
    <2>1. Tame /\ ~wild /\ ~wild'
        BY <1>1, <1>2 DEF Tame, TameInv, vars
    <2>2. PICK n \in Nat : \E s \in [1 .. n -> Node] : Held(n, s)
        BY <1>1, <2>1 DEF TameInv, OnList
    <2>3. PICK s \in [1 .. n -> Node] : Held(n, s)
        BY <2>2
    <2>4. /\ UNCHANGED <<heap_vars, head, tail, number_items>>
          /\ use' = use /\ result' = result
        BY <1>2 DEF vars
    <2>5. OnList' /\ Items' = Items
        BY <1>1, <2>3, <2>4, SameHeld
    <2> QED
        BY <2>1, <2>4, <2>5 DEF Ends!vars
<1>3. CASE Next
    <2>1. Tame /\ ~wild
        BY <1>1, <1>3, CallTame DEF Next, AppendRight, AppendLeft, Contains, Remove, Pop,
           PopLeft, Peek, PeekLeft, PeekAt, Count, Clear, Copy, RotateRight, RotateLeft,
           Reverse, Uses
    <2>2. PICK n \in Nat : \E s \in [1 .. n -> Node] : Held(n, s)
        BY <1>1, <2>1 DEF TameInv, OnList
    <2>3. PICK s \in [1 .. n -> Node] : Held(n, s)
        BY <2>2
    <2>4. Seen(n, s)
        BY <1>1, <2>3, HeadSees DEF Held, ChainsSeen
    <2>5. /\ n # 0 => 1 \in 1 .. n /\ n \in 1 .. n
          /\ Items = <<>> <=> n = 0
        BY <2>4, EmptySeq DEF Seen
    <2>6. ASSUME NEW v \in Value, AppendRight(v)
          PROVE  ~wild' /\ OnList' /\ Ends!Append_(v)
        <3>1. use' = use
            BY <1>1, <2>6, CallTame DEF AppendRight
        <3>2. head = Null \/ head \in live
            BY <2>3, <2>5 DEF Held, Chain
        <3>3. CASE NoMemory
            <4>1. /\ UNCHANGED <<heap_vars, head, tail, number_items>>
                  /\ result' = result /\ ~wild'
                BY <2>1, <3>3 DEF NoMemory
            <4>2. OnList' /\ Items' = Items
                BY <1>1, <2>3, <3>1, <4>1, SameHeld
            <4> QED
                BY <4>1, <4>2 DEF Ends!Append_
        <3>4. CASE ~ NoMemory
            <4>1. /\ UNCHANGED <<result, wild>>
                  /\ \E new \in Node \ live :
                        /\ live' = live \cup {new}
                        /\ value' = [value EXCEPT ![new] = v]
                        /\ prev' = [prev EXCEPT ![new] = head]
                        /\ next' = [x \in Node |-> IF x = new THEN Null
                                                   ELSE IF x = head THEN new
                                                   ELSE next[x]]
                        /\ tail' = IF tail = Null THEN new ELSE tail
                        /\ head' = new
                        /\ number_items' = Counted(number_items + 1)
                BY <2>6, <3>2, <3>4 DEF AppendRight, Dangling
            <4>2. OnList' /\ Items' = Append(Items, v)
                BY <1>1, <2>3, <3>1, <4>1, AppendHeld
            <4> QED
                BY <2>1, <4>1, <4>2 DEF Ends!Append_
        <3> QED
            BY <3>3, <3>4
    <2>7. ASSUME NEW v \in Value, Contains(v)
          PROVE  ~wild' /\ OnList' /\ Ends!Contains(v)
        <3>1. use # "pop"
            BY <1>1, <2>7, CallTame DEF Contains
        <3> QED
            BY <1>1, <2>3, <2>7, <3>1, ContainsHeld
    <2>8. CASE Pop
        <3>1. use' = "pop"
            BY <1>1, <2>8, CallTame DEF Pop
        <3>2. ~wild' /\ OnList' /\ Ends!Pop
            BY <1>1, <2>3, <2>8, <3>1, PopHeld
        <3> QED
            BY <3>2 DEF Ends!Next
    <2>9. CASE Peek
        <3>1. use' = use
            BY <1>1, <2>9, CallTame DEF Peek, PeekAt
        <3>2. /\ head = Null \/ head \in live
              /\ head = Null <=> n = 0
              /\ n # 0 => value[head] = Items[n]
            BY <2>3, <2>4, <2>5, NullAssumption DEF Held, Chain, Seen
        <3>3. /\ result' = <<"item", IF head = Null THEN Null ELSE value[head]>>
              /\ UNCHANGED <<heap_vars, head, tail, number_items>> /\ ~wild'
            BY <2>1, <2>9, <3>2 DEF Peek, PeekAt, Dangling
        <3>4. OnList' /\ Items' = Items
            BY <1>1, <2>3, <3>1, <3>3, SameHeld
        <3>5. Ends!Peek
            BY <2>4, <2>5, <3>2, <3>3, <3>4 DEF Ends!Peek, Ends!Right, Seen
        <3> QED
            BY <3>3, <3>4, <3>5 DEF Ends!Next
    <2>10. CASE PeekLeft
        <3>1. use # "pop" /\ use' # "pop"
            BY <1>1, <2>10, CallTame DEF PeekLeft, PeekAt
        <3>2. /\ tail = Null \/ tail \in live
              /\ tail = Null <=> n = 0
              /\ n # 0 => value[tail] = Items[1]
            BY <2>3, <2>4, <2>5, <3>1, NullAssumption DEF Held, Chain, BothWays, Seen
        <3>3. /\ result' = <<"item", IF tail = Null THEN Null ELSE value[tail]>>
              /\ UNCHANGED <<heap_vars, head, tail, number_items>> /\ ~wild'
            BY <2>1, <2>10, <3>2 DEF PeekLeft, PeekAt, Dangling
        <3>4. OnList' /\ Items' = Items
            BY <1>1, <2>3, <3>1, <3>3, SameHeld
        <3>5. Ends!PeekLeft
            BY <2>5, <3>2, <3>3, <3>4 DEF Ends!PeekLeft, Ends!Left
        <3> QED
            BY <3>3, <3>4, <3>5 DEF Ends!Next
    <2>11. CASE Count
        <3>1. use' = use
            BY <1>1, <2>11, CallTame DEF Count
        <3>2. /\ result' = <<"count", Len(Items)>>
              /\ UNCHANGED <<heap_vars, head, tail, number_items>> /\ ~wild'
            BY <2>1, <2>3, <2>4, <2>11 DEF Count, Held, Chain, Seen
        <3>3. OnList' /\ Items' = Items
            BY <1>1, <2>3, <3>1, <3>2, SameHeld
        <3> QED
            BY <3>2, <3>3 DEF Ends!Next, Ends!Count
    <2>12. CASE Reverse
        <3>1. use # "pop"
            BY <1>1, <2>12, CallTame DEF Reverse
        <3>2. ~wild' /\ OnList' /\ Ends!Reverse
            BY <1>1, <2>3, <2>12, <3>1, ReverseHeld
        <3> QED
            BY <3>2 DEF Ends!Next
    <2>13. CASE \/ \E v \in Value : AppendLeft(v) \/ Remove(v)
                \/ PopLeft \/ Clear \/ Copy \/ RotateRight \/ RotateLeft
        BY <1>1, <2>13, CallTame DEF AppendLeft, Remove, PopLeft, Clear, Copy, RotateRight,
           RotateLeft
    <2>14. CASE \E v \in Value : AppendRight(v) \/ Contains(v)
        BY <2>6, <2>7, <2>14 DEF Ends!Next
    <2> QED
        BY <1>3, <2>8, <2>9, <2>10, <2>11, <2>12, <2>13, <2>14 DEF Next
<1> QED
    BY <1>2, <1>3

LEMMA DequeInit == Init => DequeInv /\ Items = <<>>
<1> SUFFICES ASSUME Init PROVE DequeInv /\ Items = <<>>
    OBVIOUS
<1>1. TypeOK
    BY BackedInit DEF BackedInv
<1> DEFINE s == [i \in 1 .. 0 |-> Null]
<1>2. 1 .. 0 = {} /\ 0 \in Nat /\ s \in [1 .. 0 -> Node]
    OBVIOUS
<1> HIDE DEF s
<1>3. Held(0, s)
    BY <1>2 DEF Held, Chain, BothWays, Init
<1>4. TameInv
    BY <1>2, <1>3 DEF TameInv, OnList, Init, Uses
<1>5. Seen(0, s)
    BY <1>1, <1>2, <1>3, HeadSees DEF Held, ChainsSeen
<1>6. Items = <<>>
    BY <1>5, EmptySeq DEF Seen
<1> QED
    BY <1>1, <1>4, <1>6 DEF DequeInv

LEMMA DequeStep == DequeInv /\ TypeOK' /\ [Next]_vars => DequeInv' /\ TameListed
<1> SUFFICES ASSUME DequeInv, TypeOK', [Next]_vars PROVE DequeInv' /\ TameListed
    OBVIOUS
<1>1. TameListed
    BY TameCalls
<1>2. use' \in Uses
    <2>1. use \in Uses /\ TameInv
        BY DEF DequeInv, TameInv
    <2>2. CASE UNCHANGED vars
        BY <2>1, <2>2 DEF vars
    <2>3. CASE Next
        BY <2>1, <2>3, CallTame DEF Next, AppendRight, AppendLeft, Contains, Remove, Pop,
           PopLeft, Peek, PeekLeft, PeekAt, Count, Clear, Copy, RotateRight, RotateLeft,
           Reverse, Uses
    <2> QED
        BY <2>2, <2>3
<1> QED
    BY <1>1, <1>2 DEF DequeInv, TameInv, TameListed

\* A client that only pops at the head, as the scanner does, or only grows the
\* list and reads it from the tail, never makes deque.c follow NULL or a freed
\* pointer, and the nodes the head reaches are all there is.
THEOREM TameIsSafe == Spec => []MemorySafe
<1>1. DequeInv => MemorySafe
    <2> SUFFICES ASSUME DequeInv, Tame
                 PROVE  LET walk == Walk(head, prev) IN
                        ~wild /\ Safe(walk) /\ Met(walk) = live /\ Len(walk) = number_items
        BY DEF MemorySafe
    <2>1. TypeOK /\ ~wild
        BY DEF DequeInv, TameInv
    <2>2. PICK n \in Nat : \E s \in [1 .. n -> Node] : Held(n, s)
        BY DEF DequeInv, TameInv, OnList
    <2>3. PICK s \in [1 .. n -> Node] : Held(n, s)
        BY <2>2
    <2>4. Seen(n, s)
        BY <2>1, <2>3, HeadSees DEF Held, ChainsSeen
    <2> QED
        BY <2>1, <2>3, <2>4 DEF Seen, Safe, Held, Chain
<1> QED
    BY <1>1, DequeInit, DequeStep, TypeCorrect, PTL DEF Spec

\* The calls of a tame client behave as the comments of deque.c describe them:
\* the pointers carry a sequence, and each call reads or changes its right end.
THEOREM DequeImplemented == Spec => ImplementsDeque
<1>1. Init => Ends!Init
    BY DequeInit DEF Ends!Init, Init
<1>2. TameListed => (Tame' => [Ends!Next]_(Ends!vars))
    BY DEF TameListed
<1> QED
    BY <1>1, <1>2, DequeInit, DequeStep, TypeCorrect, PTL DEF Spec, ImplementsDeque
=============================================================================
