-------------------------- MODULE HashTable_proofs --------------------------
(***************************************************************************)
(* Proofs about HashTable: its chains stay well formed through every call, *)
(* growth and rehashing included, no call ends the process unless malloc   *)
(* has failed, and the table implements a map.                             *)
(***************************************************************************)
EXTENDS HashTable, SequenceTheorems, FiniteSetTheorems, WellFoundedInduction, TLAPS

-----------------------------------------------------------------------------
(***************************************************************************)
(* Numbers.                                                                *)
(***************************************************************************)
\* A set of numbers that is not empty has a least one.
LEMMA Least ==
    ASSUME NEW S \in SUBSET Nat, S # {}
    PROVE  \E n \in S : \A m \in S : n <= m
<1> DEFINE R == OpToRel(<, Nat)
<1>1. IsWellFoundedOn(R, Nat)
    BY NatLessThanWellFounded
<1>2. \A x, y \in Nat : <<y, x>> \in R <=> y < x
    BY DEF OpToRel
<1> HIDE DEF R
<1>3. PICK n \in S : \A y \in S : ~ (<<y, n>> \in R)
    BY <1>1, WFMin
<1>4. ASSUME NEW m \in S PROVE n <= m
    <2>1. n \in Nat /\ m \in Nat
        OBVIOUS
    <2>2. ~ (m < n)
        BY <1>2, <1>3, <2>1
    <2> QED
        BY <2>1, <2>2
<1> QED
    BY <1>4

\* Induction: a set with 0 that contains the successor of each of its numbers
\* up to N contains the numbers up to N.
LEMMA InductTo ==
    ASSUME NEW N \in Nat, NEW S, 0 \in S,
           \A n \in 0 .. N : n \in S /\ n < N => n + 1 \in S
    PROVE  \A n \in 0 .. N : n \in S
<1> DEFINE Missing == {n \in 0 .. N : n \notin S}
<1> SUFFICES ASSUME Missing # {} PROVE FALSE
    OBVIOUS
<1>1. Missing \in SUBSET Nat
    OBVIOUS
<1>2. PICK n \in Missing : \A m \in Missing : n <= m
    BY <1>1, Least
<1>3. n \in 0 .. N /\ n \notin S /\ n # 0
    OBVIOUS
<1>4. n - 1 \in 0 .. N /\ n - 1 < N /\ n - 1 + 1 = n /\ ~ (n <= n - 1)
    BY <1>3
<1>5. n - 1 \in S
    BY <1>2, <1>4
<1> QED
    BY <1>3, <1>4, <1>5

-----------------------------------------------------------------------------
(***************************************************************************)
(* Walks: functions defined by recursion over the numbers up to N, with a  *)
(* step given as a function.                                               *)
(***************************************************************************)
IsWalk(g, base, step, N) ==
    g = [n \in 0 .. N |-> IF n = 0 THEN base ELSE step[n][g[n - 1]]]

LEMMA WalkExists ==
    ASSUME NEW base, NEW step, NEW N \in Nat
    PROVE  \E g : IsWalk(g, base, step, N)
<1> DEFINE S == {j \in 0 .. N : \E g : IsWalk(g, base, step, j)}
<1>1. 0 \in S
    <2>1. IsWalk([n \in 0 .. 0 |-> base], base, step, 0)
        BY DEF IsWalk
    <2> QED
        BY <2>1
<1>2. ASSUME NEW j \in 0 .. N, j \in S, j < N PROVE j + 1 \in S
    <2>1. PICK g : IsWalk(g, base, step, j)
        BY <1>2
    <2> DEFINE x == step[j + 1][g[j]]
               h == [n \in 0 .. j + 1 |-> IF n = j + 1 THEN x ELSE g[n]]
    <2>2. ASSUME NEW n \in 0 .. j + 1
          PROVE  h[n] = IF n = 0 THEN base ELSE step[n][h[n - 1]]
        <3> HIDE DEF x
        <3>1. CASE n = j + 1
            <4>1. n - 1 = j /\ n - 1 # j + 1 /\ n - 1 \in 0 .. j + 1 /\ n # 0
                BY <3>1
            <4>2. h[n] = x /\ h[n - 1] = g[j]
                BY <3>1, <4>1
            <4> QED
                BY <3>1, <4>1, <4>2 DEF x
        <3>2. CASE n # j + 1
            <4>1. n \in 0 .. j
                BY <3>2
            <4>2. h[n] = IF n = 0 THEN base ELSE step[n][g[n - 1]]
                BY <2>1, <3>2, <4>1 DEF IsWalk
            <4>3. n # 0 => n - 1 \in 0 .. j + 1 /\ n - 1 # j + 1
                BY <4>1
            <4>4. n # 0 => h[n - 1] = g[n - 1]
                BY <4>3
            <4> HIDE DEF h
            <4> QED
                BY <4>2, <4>4
        <3> QED
            BY <3>1, <3>2
    <2>3. IsWalk(h, base, step, j + 1)
        BY <2>2 DEF IsWalk
    <2>4. j + 1 \in 0 .. N
        BY <1>2
    <2> QED
        BY <2>3, <2>4
<1>3. \A n \in 0 .. N : n \in S
    BY <1>1, <1>2, InductTo
<1> QED
    BY <1>3

\* A walk stays in sets that its steps lead through.
LEMMA WalkStays ==
    ASSUME NEW base, NEW step, NEW N \in Nat, NEW g, NEW S,
           IsWalk(g, base, step, N),
           base \in S[0],
           \A n \in 0 .. N : \A a \in S[n] : n < N => step[n + 1][a] \in S[n + 1]
    PROVE  \A n \in 0 .. N : g[n] \in S[n]
<1> DEFINE T == {n \in 0 .. N : g[n] \in S[n]}
<1>1. 0 \in T
    BY DEF IsWalk
<1>2. ASSUME NEW n \in 0 .. N, n \in T, n < N PROVE n + 1 \in T
    <2>1. n + 1 \in 0 .. N /\ n + 1 # 0 /\ n + 1 - 1 = n
        BY <1>2
    <2>2. g[n + 1] = step[n + 1][g[n]]
        BY <2>1 DEF IsWalk
    <2> QED
        BY <1>2, <2>1, <2>2
<1>3. \A n \in 0 .. N : n \in T
    BY <1>1, <1>2, InductTo
<1> QED
    BY <1>3

-----------------------------------------------------------------------------
(***************************************************************************)
(* Chains.                                                                 *)
(***************************************************************************)
Entry == Key \X Value
Chains == Seq(Entry)
Arrays == Seq(Chains)

LEMMA Entries ==
    ASSUME NEW e \in Entry
    PROVE  e[1] \in Key /\ e[1] \in Nat /\ e[2] \in Value /\ e = <<e[1], e[2]>>
<1>1. PICK k \in Key, v \in Value : e = <<k, v>>
    BY DEF Entry
<1>2. k \in Nat
    BY KeyAssumption
<1> QED
    BY <1>1, <1>2

LEMMA IndexInRange ==
    ASSUME NEW k \in Nat, NEW cap \in Nat, cap # 0
    PROVE  Index(k, cap) \in 1 .. cap
<1>1. k % cap \in 0 .. cap - 1
    OBVIOUS
<1> QED
    BY <1>1 DEF Index

\* the chain at place n of an array of cap chains
OneKeyEach(chain) == \A a, b \in DOMAIN chain : chain[a][1] = chain[b][1] => a = b
AllAt(chain, n, cap) == \A m \in DOMAIN chain : Index(chain[m][1], cap) = n
Fine(chain, n, cap) == chain \in Chains /\ AllAt(chain, n, cap) /\ OneKeyEach(chain)

LEMMA FineEmpty ==
    ASSUME NEW n, NEW cap
    PROVE  Fine(<<>>, n, cap) /\ ToSet(<<>>) = {}
    BY DEF Fine, AllAt, OneKeyEach, Chains, ToSet

\* A node in front of a chain that does not have its key.
LEMMA FinePushed ==
    ASSUME NEW n, NEW cap, NEW chain, Fine(chain, n, cap), NEW e \in Entry,
           Index(e[1], cap) = n, ~Has(chain, e[1])
    PROVE  /\ Fine(<<e>> \o chain, n, cap)
           /\ ToSet(<<e>> \o chain) = {e} \cup ToSet(chain)
<1> DEFINE longer == <<e>> \o chain
<1>1. chain \in Seq(Entry) /\ Len(chain) \in Nat /\ DOMAIN chain = 1 .. Len(chain)
    BY DEF Fine, Chains
<1>2. longer \in Seq(Entry) /\ Len(longer) = Len(chain) + 1
    BY <1>1
<1>3. DOMAIN longer = 1 .. Len(chain) + 1
    BY <1>2
<1>4. longer[1] = e
    BY <1>1
<1>5. ASSUME NEW m \in 1 .. Len(chain) + 1, m # 1
      PROVE  m - 1 \in DOMAIN chain /\ longer[m] = chain[m - 1]
    BY <1>1, <1>5
<1> HIDE DEF longer
<1>6. AllAt(longer, n, cap)
    <2> SUFFICES ASSUME NEW m \in 1 .. Len(chain) + 1 PROVE Index(longer[m][1], cap) = n
        BY <1>3 DEF AllAt
    <2>1. CASE m = 1
        BY <1>4, <2>1
    <2>2. CASE m # 1
        BY <1>5, <2>2 DEF Fine, AllAt
    <2> QED
        BY <2>1, <2>2
<1>7. OneKeyEach(longer)
    <2>1. ASSUME NEW m \in 1 .. Len(chain) + 1, m # 1 PROVE longer[m][1] # e[1]
        BY <1>5, <2>1 DEF Has
    <2> SUFFICES ASSUME NEW a \in 1 .. Len(chain) + 1, NEW b \in 1 .. Len(chain) + 1,
                        longer[a][1] = longer[b][1]
                 PROVE  a = b
        BY <1>3 DEF OneKeyEach
    <2>2. CASE a = 1 \/ b = 1
        BY <1>4, <2>1, <2>2
    <2>3. CASE a # 1 /\ b # 1
        <3>1. a - 1 = b - 1
            BY <1>5, <2>3 DEF Fine, OneKeyEach
        <3> QED
            BY <1>1, <3>1
    <2> QED
        BY <2>2, <2>3
<1>8. ToSet(longer) = {e} \cup ToSet(chain)
    <2>1. ASSUME NEW x \in ToSet(longer) PROVE x \in {e} \cup ToSet(chain)
        <3>1. PICK m \in 1 .. Len(chain) + 1 : x = longer[m]
            BY <1>3 DEF ToSet
        <3>2. CASE m = 1
            BY <1>4, <3>1, <3>2
        <3>3. CASE m # 1
            BY <1>5, <3>1, <3>3 DEF ToSet
        <3> QED
            BY <3>2, <3>3
    <2>2. e \in ToSet(longer)
        <3>1. 1 \in 1 .. Len(chain) + 1
            BY <1>1
        <3> QED
            BY <1>3, <1>4, <3>1 DEF ToSet
    <2>3. ASSUME NEW x \in ToSet(chain) PROVE x \in ToSet(longer)
        <3>1. PICK m \in 1 .. Len(chain) : x = chain[m]
            BY <1>1 DEF ToSet
        <3>2. m + 1 \in 1 .. Len(chain) + 1 /\ m + 1 # 1 /\ m + 1 - 1 = m
            BY <1>1
        <3>3. longer[m + 1] = x
            BY <1>5, <3>1, <3>2
        <3> QED
            BY <1>3, <3>2, <3>3 DEF ToSet
    <2> QED
        BY <2>1, <2>2, <2>3
<1> QED
    BY <1>2, <1>6, <1>7, <1>8 DEF Fine, Chains, longer

\* Where finds the first node of the key.
LEMMA WhereIs ==
    ASSUME NEW chain \in Chains, NEW k, Has(chain, k)
    PROVE  /\ Where(chain, k) \in DOMAIN chain
           /\ chain[Where(chain, k)][1] = k
<1> DEFINE S == {n \in DOMAIN chain : chain[n][1] = k}
<1>1. DOMAIN chain = 1 .. Len(chain) /\ Len(chain) \in Nat
    BY DEF Chains
<1>2. S \in SUBSET Nat /\ S # {}
    BY <1>1 DEF Has
<1>3. PICK n \in S : \A m \in S : n <= m
    BY <1>2, Least
<1>4. ASSUME NEW m \in 1 .. n - 1 PROVE chain[m][1] # k
    <2>1. m \in DOMAIN chain /\ ~ (n <= m)
        BY <1>1
    <2> QED
        BY <1>3, <2>1
<1>5. \E i \in DOMAIN chain : chain[i][1] = k /\ \A m \in 1 .. i - 1 : chain[m][1] # k
    BY <1>4
<1> QED
    BY <1>5 DEF Where

LEMMA HasIsHeld ==
    ASSUME NEW chain, NEW k
    PROVE  Has(chain, k) <=> \E e \in ToSet(chain) : e[1] = k
    BY DEF Has, ToSet

\* A new value in the node of the key.
LEMMA FineUpdated ==
    ASSUME NEW n, NEW cap, NEW chain, Fine(chain, n, cap),
           NEW k \in Key, NEW v \in Value, Has(chain, k)
    PROVE  LET new == [chain EXCEPT ![Where(chain, k)][2] = v] IN
           /\ Fine(new, n, cap)
           /\ ToSet(new) = {e \in ToSet(chain) : e[1] # k} \cup {<<k, v>>}
<1> DEFINE w   == Where(chain, k)
           new == [chain EXCEPT ![w][2] = v]
<1>1. chain \in Seq(Entry) /\ Len(chain) \in Nat /\ DOMAIN chain = 1 .. Len(chain)
    BY DEF Fine, Chains
<1>2. w \in 1 .. Len(chain) /\ chain[w][1] = k
    BY <1>1, WhereIs DEF Fine
<1>3. chain[w] \in Entry
    BY <1>1, <1>2
<1>4. [chain[w] EXCEPT ![2] = v] = <<k, v>>
    <2>1. PICK kk \in Key, vv \in Value : chain[w] = <<kk, vv>>
        BY <1>3 DEF Entry
    <2>2. kk = k
        BY <1>2, <2>1
    <2> QED
        BY <2>1, <2>2
<1>5. new = [i \in 1 .. Len(chain) |-> IF i = w THEN <<k, v>> ELSE chain[i]]
    <2>1. new = [chain EXCEPT ![w] = [chain[w] EXCEPT ![2] = v]]
        OBVIOUS
    <2> HIDE DEF w, new
    <2> QED
        BY <1>1, <1>2, <1>4, <2>1
<1> HIDE DEF new, w
<1>6. <<k, v>> \in Entry /\ <<k, v>>[1] = k
    BY DEF Entry
<1>7. \A i \in 1 .. Len(chain) : new[i] \in Entry /\ new[i][1] = chain[i][1]
    BY <1>1, <1>2, <1>5, <1>6
<1>8. DOMAIN new = 1 .. Len(chain) /\ new \in Seq(Entry)
    BY <1>1, <1>5, <1>7
<1>9. AllAt(new, n, cap) /\ OneKeyEach(new)
    BY <1>1, <1>7, <1>8 DEF Fine, AllAt, OneKeyEach
<1>10. ASSUME NEW i \in 1 .. Len(chain), i # w PROVE chain[i][1] # k
    BY <1>1, <1>2, <1>10 DEF Fine, OneKeyEach
<1>11. ToSet(new) = {e \in ToSet(chain) : e[1] # k} \cup {<<k, v>>}
    <2> DEFINE others == {e \in ToSet(chain) : e[1] # k}
    <2>1. ASSUME NEW x \in ToSet(new) PROVE x \in others \cup {<<k, v>>}
        <3>1. PICK i \in 1 .. Len(chain) : x = new[i]
            BY <1>8 DEF ToSet
        <3>2. CASE i = w
            BY <1>5, <3>1, <3>2
        <3>3. CASE i # w
            BY <1>1, <1>5, <1>10, <3>1, <3>3 DEF ToSet
        <3> QED
            BY <3>2, <3>3
    <2>2. ASSUME NEW x \in others PROVE x \in ToSet(new)
        <3>1. PICK i \in 1 .. Len(chain) : x = chain[i]
            BY <1>1 DEF ToSet
        <3>2. i # w
            BY <1>2, <3>1
        <3> QED
            BY <1>5, <1>8, <3>1, <3>2 DEF ToSet
    <2>3. <<k, v>> \in ToSet(new)
        BY <1>2, <1>5, <1>8 DEF ToSet
    <2> QED
        BY <2>1, <2>2, <2>3
<1> QED
    BY <1>8, <1>9, <1>11 DEF Fine, Chains, new, w

\* What follows a node.
LEMMA Rest ==
    ASSUME NEW chain \in Chains, NEW w \in 1 .. Len(chain)
    PROVE  /\ SubSeq(chain, w + 1, Len(chain)) \in Seq(Entry)
           /\ Len(SubSeq(chain, w + 1, Len(chain))) = Len(chain) - w
           /\ \A i \in 1 .. Len(chain) - w : SubSeq(chain, w + 1, Len(chain))[i] = chain[w + i]
<1> DEFINE N     == Len(chain)
           m     == w + 1
           after == SubSeq(chain, m, N)
<1>1. N \in Nat /\ \A i \in 1 .. N : chain[i] \in Entry
    BY DEF Chains
<1>2. w \in 1 .. N
    OBVIOUS
<1> HIDE DEF N
<1>3. m \in Int /\ N \in Int /\ (m <= N => N - m + 1 = N - w) /\ (~ (m <= N) => 0 = N - w)
      /\ N - m + 1 = N - w
    BY <1>1, <1>2
<1>4. m \in Int /\ N \in Int /\ \A i \in m .. N : chain[i] \in Entry
    BY <1>1, <1>2
<1>5. \A i \in 1 .. N - w : m + i - 1 = w + i
    BY <1>1, <1>2
<1> HIDE DEF m
<1>6. /\ SubSeq(chain, m, N) \in Seq(Entry)
      /\ Len(SubSeq(chain, m, N)) = IF m <= N THEN N - m + 1 ELSE 0
      /\ \A i \in 1 .. N - m + 1 : SubSeq(chain, m, N)[i] = chain[m + i - 1]
    BY <1>4, SubSeqProperties
<1> HIDE DEF after
<1>7. /\ after \in Seq(Entry)
      /\ Len(after) = IF m <= N THEN N - m + 1 ELSE 0
      /\ \A i \in 1 .. N - m + 1 : after[i] = chain[m + i - 1]
    BY <1>6, Zenon DEF after
<1>8. Len(after) = N - w
    BY <1>3, <1>7, Zenon
<1>9. \A i \in 1 .. N - w : after[i] = chain[w + i]
    BY <1>3, <1>5, <1>7, Zenon
<1> QED
    BY <1>7, <1>8, <1>9, Zenon DEF after, m, N

\* A chain without one of its nodes.
LEMMA UnlinkedAt ==
    ASSUME NEW chain \in Chains, NEW w \in 1 .. Len(chain)
    PROVE  /\ RemoveAt(chain, w) \in Chains
           /\ DOMAIN RemoveAt(chain, w) = 1 .. Len(chain) - 1
           /\ \A i \in 1 .. Len(chain) - 1 :
                  RemoveAt(chain, w)[i] = IF i < w THEN chain[i] ELSE chain[i + 1]
<1> DEFINE N      == Len(chain)
           before == SubSeq(chain, 1, w - 1)
           after  == SubSeq(chain, w + 1, N)
<1>1. N \in Nat /\ DOMAIN chain = 1 .. N /\ \A i \in 1 .. N : chain[i] \in Entry
    BY DEF Chains
<1>2. before \in Seq(Entry) /\ Len(before) = w - 1
      /\ \A i \in 1 .. w - 1 : before[i] = chain[i]
    BY <1>1 DEF Chains
<1>3. after \in Seq(Entry) /\ Len(after) = N - w
      /\ \A i \in 1 .. N - w : after[i] = chain[w + i]
    BY Rest
<1>4. RemoveAt(chain, w) = before \o after
    BY DEF RemoveAt
<1> HIDE DEF before, after, N
<1>5. before \o after \in Seq(Entry) /\ Len(before \o after) = N - 1
    <2>1. before \o after \in Seq(Entry) /\ Len(before \o after) = Len(before) + Len(after)
        BY <1>2, <1>3, ConcatProperties, Zenon
    <2>2. (w - 1) + (N - w) = N - 1
        BY <1>1 DEF N
    <2> QED
        BY <1>2, <1>3, <2>1, <2>2
<1>6. ASSUME NEW i \in 1 .. N - 1
      PROVE  (before \o after)[i] = IF i < w THEN chain[i] ELSE chain[i + 1]
    <2>1. (before \o after)[i] = IF i <= Len(before) THEN before[i] ELSE after[i - Len(before)]
        BY <1>1, <1>2, <1>3, <1>5 DEF N
    <2>2. CASE i < w
        BY <1>1, <1>2, <2>1, <2>2 DEF N
    <2>3. CASE ~ (i < w)
        <3>1. i - Len(before) \in 1 .. N - w /\ w + (i - Len(before)) = i + 1
              /\ ~ (i <= Len(before))
            BY <1>1, <1>2, <2>3 DEF N
        <3> QED
            BY <1>3, <2>1, <2>3, <3>1
    <2> QED
        BY <2>2, <2>3
<1>7. DOMAIN (before \o after) = 1 .. N - 1
    BY <1>5
<1> QED
    BY <1>4, <1>5, <1>6, <1>7 DEF N, Chains

\* A node taken out.
LEMMA FineUnlinked ==
    ASSUME NEW n, NEW cap, NEW chain, Fine(chain, n, cap), NEW k, Has(chain, k)
    PROVE  /\ Fine(Unlinked(chain, k), n, cap)
           /\ ToSet(Unlinked(chain, k)) = {e \in ToSet(chain) : e[1] # k}
<1> DEFINE w   == Where(chain, k)
           new == Unlinked(chain, k)
           old(i) == IF i < w THEN i ELSE i + 1
<1>1. chain \in Chains /\ Len(chain) \in Nat /\ DOMAIN chain = 1 .. Len(chain)
    BY DEF Fine, Chains
<1>2. w \in 1 .. Len(chain) /\ chain[w][1] = k
    BY <1>1, WhereIs
<1>3. new = RemoveAt(chain, w)
    BY DEF Unlinked
<1>4. new \in Chains /\ DOMAIN new = 1 .. Len(chain) - 1
      /\ \A i \in 1 .. Len(chain) - 1 : new[i] = IF i < w THEN chain[i] ELSE chain[i + 1]
    <2> HIDE DEF new, w
    <2> QED
        BY <1>1, <1>2, <1>3, UnlinkedAt
<1> HIDE DEF new, w
<1>5. ASSUME NEW i \in 1 .. Len(chain) - 1
      PROVE  new[i] = chain[old(i)] /\ old(i) \in 1 .. Len(chain) /\ old(i) # w
    BY <1>1, <1>2, <1>4
<1>6. ASSUME NEW i \in 1 .. Len(chain), i # w
      PROVE  \E j \in 1 .. Len(chain) - 1 : old(j) = i
    <2>1. CASE i < w
        BY <1>1, <1>2, <2>1
    <2>2. CASE ~ (i < w)
        <3>1. i - 1 \in 1 .. Len(chain) - 1 /\ old(i - 1) = i
            BY <1>1, <1>2, <1>6, <2>2
        <3> QED
            BY <3>1
    <2> QED
        BY <2>1, <2>2
<1>7. ASSUME NEW i \in 1 .. Len(chain) - 1, NEW j \in 1 .. Len(chain) - 1, old(i) = old(j)
      PROVE  i = j
    BY <1>1, <1>2, <1>7
<1>8. ASSUME NEW i \in 1 .. Len(chain), i # w PROVE chain[i][1] # k
    BY <1>1, <1>2, <1>8 DEF Fine, OneKeyEach
<1> HIDE DEF old
<1>9. AllAt(new, n, cap)
    BY <1>1, <1>4, <1>5 DEF Fine, AllAt
<1>10. OneKeyEach(new)
    <2> SUFFICES ASSUME NEW i \in 1 .. Len(chain) - 1, NEW j \in 1 .. Len(chain) - 1,
                        new[i][1] = new[j][1]
                 PROVE  i = j
        BY <1>4 DEF OneKeyEach
    <2>1. old(i) = old(j)
        BY <1>1, <1>5 DEF Fine, OneKeyEach
    <2> QED
        BY <1>7, <2>1
<1>11. ToSet(new) = {e \in ToSet(chain) : e[1] # k}
    <2>1. ASSUME NEW x \in ToSet(new) PROVE x \in ToSet(chain) /\ x[1] # k
        <3>1. PICK i \in 1 .. Len(chain) - 1 : x = new[i]
            BY <1>4 DEF ToSet
        <3> QED
            BY <1>1, <1>5, <1>8, <3>1 DEF ToSet
    <2>2. ASSUME NEW x \in ToSet(chain), x[1] # k PROVE x \in ToSet(new)
        <3>1. PICK i \in 1 .. Len(chain) : x = chain[i]
            BY <1>1 DEF ToSet
        <3>2. i # w
            BY <1>2, <2>2, <3>1
        <3>3. PICK j \in 1 .. Len(chain) - 1 : old(j) = i
            BY <1>6, <3>2
        <3>4. x = new[j]
            BY <1>5, <3>1, <3>3
        <3> QED
            BY <1>4, <3>4 DEF ToSet
    <2> QED
        BY <2>1, <2>2
<1> QED
    BY <1>4, <1>9, <1>10, <1>11 DEF Fine, new

-----------------------------------------------------------------------------
(***************************************************************************)
(* Arrays.                                                                 *)
(***************************************************************************)
Table(array) == array \in Arrays /\ Len(array) # 0 /\ Placed(array) /\ KeysOnce(array)

IsArray(array, cap) ==
    /\ array \in Arrays /\ Len(array) = cap /\ DOMAIN array = 1 .. cap
    /\ cap \in Nat /\ cap # 0

LEMMA TableIsArray ==
    ASSUME NEW array, Table(array)
    PROVE  IsArray(array, Len(array))
    BY DEF Table, Arrays, IsArray

LEMMA TableIsFine ==
    ASSUME NEW array, NEW cap, IsArray(array, cap)
    PROVE  Table(array) <=> \A n \in 1 .. cap : Fine(array[n], n, cap)
<1>1. \A n \in 1 .. cap : array[n] \in Chains
    BY DEF IsArray, Arrays
<1>2. Placed(array) <=> \A n \in 1 .. cap : AllAt(array[n], n, cap)
    BY DEF Placed, AllAt, IsArray
<1>3. KeysOnce(array) <=> \A n \in 1 .. cap : OneKeyEach(array[n])
    BY DEF KeysOnce, OneKeyEach, IsArray
<1> QED
    BY <1>1, <1>2, <1>3 DEF Table, Fine, IsArray

LEMMA HeldIsSome ==
    ASSUME NEW array, NEW cap, IsArray(array, cap), NEW e
    PROVE  e \in HeldIn(array) <=> \E n \in 1 .. cap : e \in ToSet(array[n])
    BY DEF HeldIn, IsArray

LEMMA HeldAreEntries ==
    ASSUME NEW array \in Arrays
    PROVE  HeldIn(array) \subseteq Entry
<1> SUFFICES ASSUME NEW e \in HeldIn(array) PROVE e \in Entry
    OBVIOUS
<1>1. PICK n \in DOMAIN array : e \in ToSet(array[n])
    BY DEF HeldIn
<1>2. array[n] \in Seq(Entry)
    BY DEF Arrays, Chains
<1> QED
    BY <1>1, <1>2 DEF ToSet

\* An entry is in the chain of its hash, if anywhere.
LEMMA HeldInChain ==
    ASSUME NEW array, NEW cap, Table(array), IsArray(array, cap), NEW n \in 1 .. cap
    PROVE  ToSet(array[n]) = {e \in HeldIn(array) : Index(e[1], cap) = n}
<1>1. \A i \in 1 .. cap : \A e \in ToSet(array[i]) : Index(e[1], cap) = i
    <2> SUFFICES ASSUME NEW i \in 1 .. cap, NEW e \in ToSet(array[i])
                 PROVE  Index(e[1], cap) = i
        OBVIOUS
    <2>1. Fine(array[i], i, cap)
        BY TableIsFine
    <2> QED
        BY <2>1 DEF Fine, AllAt, ToSet
<1>2. ASSUME NEW e \in ToSet(array[n]) PROVE e \in HeldIn(array) /\ Index(e[1], cap) = n
    BY <1>1, HeldIsSome
<1>3. ASSUME NEW e \in HeldIn(array), Index(e[1], cap) = n PROVE e \in ToSet(array[n])
    <2>1. PICK i \in 1 .. cap : e \in ToSet(array[i])
        BY HeldIsSome
    <2>2. i = n
        BY <1>1, <1>3, <2>1
    <2> QED
        BY <2>1, <2>2
<1> QED
    BY <1>2, <1>3

\* A key is in the table when it is in the chain of its hash.
LEMMA HasInTable ==
    ASSUME NEW array, NEW cap, Table(array), IsArray(array, cap), NEW k \in Key
    PROVE  /\ Index(k, cap) \in 1 .. cap
           /\ Has(array[Index(k, cap)], k) <=> \E e \in HeldIn(array) : e[1] = k
<1>1. Index(k, cap) \in 1 .. cap
    BY KeyAssumption, IndexInRange DEF IsArray
<1>2. ToSet(array[Index(k, cap)]) = {e \in HeldIn(array) : Index(e[1], cap) = Index(k, cap)}
    BY <1>1, HeldInChain
<1>3. Has(array[Index(k, cap)], k) <=> \E e \in ToSet(array[Index(k, cap)]) : e[1] = k
    BY HasIsHeld
<1>4. (\E e \in ToSet(array[Index(k, cap)]) : e[1] = k) <=> \E e \in HeldIn(array) : e[1] = k
    BY <1>2
<1> QED
    BY <1>1, <1>3, <1>4

\* No two entries have a key in common.
Functional(held) == \A e, f \in held : e[1] = f[1] => e = f

LEMMA HeldFunctional ==
    ASSUME NEW array, Table(array)
    PROVE  Functional(HeldIn(array))
<1> DEFINE cap == Len(array)
<1>1. IsArray(array, cap)
    BY TableIsArray
<1> HIDE DEF cap
<1> SUFFICES ASSUME NEW e \in HeldIn(array), NEW f \in HeldIn(array), e[1] = f[1]
             PROVE  e = f
    BY DEF Functional
<1>2. PICK n \in 1 .. cap : e \in ToSet(array[n])
    BY <1>1, HeldIsSome
<1>3. ToSet(array[n]) = {x \in HeldIn(array) : Index(x[1], cap) = n}
    BY <1>1, HeldInChain
<1>4. f \in ToSet(array[n])
    BY <1>2, <1>3
<1>5. OneKeyEach(array[n])
    BY <1>1, TableIsFine DEF Fine
<1> QED
    BY <1>2, <1>4, <1>5 DEF OneKeyEach, ToSet

\* Another chain at one place.
Replaced(array, at, chain) == [array EXCEPT ![at] = chain]
Replaces(new, array, cap, at, chain) ==
    /\ Table(new) /\ IsArray(new, cap)
    /\ HeldIn(new) = {e \in HeldIn(array) : Index(e[1], cap) # at} \cup ToSet(chain)

LEMMA TableExcept ==
    ASSUME NEW array, NEW cap, Table(array), IsArray(array, cap),
           NEW at \in 1 .. cap, NEW chain, Fine(chain, at, cap)
    PROVE  Replaces(Replaced(array, at, chain), array, cap, at, chain)
<1> DEFINE new  == Replaced(array, at, chain)
           rest == {e \in HeldIn(array) : Index(e[1], cap) # at}
<1>1. DOMAIN array = 1 .. cap /\ cap \in Nat /\ cap # 0 /\ array \in Seq(Chains)
    BY DEF IsArray, Arrays
<1>2. new \in Seq(Chains)
    BY <1>1 DEF Fine, Replaced
<1>3. Len(new) = cap /\ DOMAIN new = 1 .. cap
    BY <1>1 DEF IsArray, Replaced
<1>4. \A n \in 1 .. cap : new[n] = IF n = at THEN chain ELSE array[n]
    BY <1>1 DEF Replaced
<1> HIDE DEF new
<1>5. IsArray(new, cap)
    BY <1>1, <1>2, <1>3 DEF IsArray, Arrays
<1>6. \A n \in 1 .. cap : Fine(new[n], n, cap)
    BY <1>4, TableIsFine
<1>7. Table(new)
    BY <1>5, <1>6, TableIsFine
<1>8. ASSUME NEW n \in 1 .. cap
      PROVE  ToSet(array[n]) = {e \in HeldIn(array) : Index(e[1], cap) = n}
    BY HeldInChain
<1>9. ASSUME NEW e \in HeldIn(new) PROVE e \in rest \cup ToSet(chain)
    <2>1. PICK n \in 1 .. cap : e \in ToSet(new[n])
        BY <1>5, HeldIsSome
    <2>2. CASE n = at
        BY <1>4, <2>1, <2>2
    <2>3. CASE n # at
        <3>1. e \in ToSet(array[n])
            BY <1>4, <2>1, <2>3
        <3> QED
            BY <1>8, <2>3, <3>1
    <2> QED
        BY <2>2, <2>3
<1>10. ASSUME NEW e \in rest PROVE e \in HeldIn(new)
    <2>1. PICK n \in 1 .. cap : e \in ToSet(array[n])
        BY HeldIsSome
    <2>2. n # at
        BY <1>8, <2>1
    <2>3. e \in ToSet(new[n])
        BY <1>4, <2>1, <2>2
    <2> QED
        BY <1>5, <2>3, HeldIsSome
<1>11. ASSUME NEW e \in ToSet(chain) PROVE e \in HeldIn(new)
    <2>1. e \in ToSet(new[at])
        BY <1>4
    <2> QED
        BY <1>5, <2>1, HeldIsSome
<1>12. HeldIn(new) = rest \cup ToSet(chain)
    BY <1>9, <1>10, <1>11
<1> QED
    BY <1>5, <1>7, <1>12 DEF new, Replaces

LEMMA TableEmpty ==
    ASSUME NEW cap \in Nat, cap # 0
    PROVE  /\ Table(EmptyArray(cap)) /\ IsArray(EmptyArray(cap), cap)
           /\ HeldIn(EmptyArray(cap)) = {}
<1> DEFINE new == EmptyArray(cap)
<1>1. <<>> \in Chains
    BY DEF Chains
<1>2. new \in Seq(Chains) /\ Len(new) = cap /\ DOMAIN new = 1 .. cap
    BY <1>1 DEF EmptyArray
<1>3. \A n \in 1 .. cap : new[n] = <<>>
    BY DEF EmptyArray
<1> HIDE DEF new
<1>4. IsArray(new, cap)
    BY <1>2 DEF IsArray, Arrays
<1>5. \A n \in 1 .. cap : Fine(new[n], n, cap) /\ ToSet(new[n]) = {}
    BY <1>3, FineEmpty
<1>6. Table(new)
    BY <1>4, <1>5, TableIsFine
<1>7. HeldIn(new) = {}
    BY <1>4, <1>5, HeldIsSome
<1> QED
    BY <1>4, <1>6, <1>7 DEF new

\* A node in front of the chain of its hash, where the key is not in the table.
LEMMA TablePushed ==
    ASSUME NEW array, NEW cap, Table(array), IsArray(array, cap), NEW e \in Entry,
           \A f \in HeldIn(array) : f[1] # e[1]
    PROVE  /\ Table(PushedFront(array, e)) /\ IsArray(PushedFront(array, e), cap)
           /\ HeldIn(PushedFront(array, e)) = HeldIn(array) \cup {e}
<1> DEFINE at    == Index(e[1], cap)
           chain == array[at]
           new   == Replaced(array, at, <<e>> \o chain)
<1>1. e[1] \in Key
    BY Entries
<1>2. at \in 1 .. cap /\ ~Has(chain, e[1])
    BY <1>1, HasInTable
<1>3. PushedFront(array, e) = new
    BY DEF PushedFront, IsArray, Replaced
<1>4. Fine(chain, at, cap)
    BY <1>2, TableIsFine
<1>5. ToSet(chain) = {x \in HeldIn(array) : Index(x[1], cap) = at}
    BY <1>2, HeldInChain
<1> DEFINE longer == <<e>> \o chain
<1>6. Fine(longer, at, cap) /\ ToSet(longer) = {e} \cup ToSet(chain)
    BY <1>2, <1>4, FinePushed
<1> HIDE DEF at, longer
<1>7. /\ Table(new) /\ IsArray(new, cap)
      /\ HeldIn(new) = {x \in HeldIn(array) : Index(x[1], cap) # at} \cup ToSet(longer)
    <2>1. Replaces(Replaced(array, at, longer), array, cap, at, longer)
        BY <1>2, <1>6, TableExcept, Zenon
    <2> QED
        BY <2>1 DEF longer, Replaces
<1> HIDE DEF new, chain
<1>8. HeldIn(new) = HeldIn(array) \cup {e}
    BY <1>5, <1>6, <1>7
<1> QED
    BY <1>3, <1>7, <1>8

\* A new value for a key in the table.
WithValue(array, cap, k, v) ==
    [array EXCEPT ![Index(k, cap)][Where(array[Index(k, cap)], k)][2] = v]
Updates(new, array, cap, k, v) ==
    /\ Table(new) /\ IsArray(new, cap)
    /\ HeldIn(new) = {e \in HeldIn(array) : e[1] # k} \cup {<<k, v>>}

LEMMA TableUpdated ==
    ASSUME NEW array, NEW cap, Table(array), IsArray(array, cap),
           NEW k \in Key, NEW v \in Value, Has(array[Index(k, cap)], k)
    PROVE  Updates(WithValue(array, cap, k, v), array, cap, k, v)
<1> DEFINE at    == Index(k, cap)
           chain == array[at]
           other == [chain EXCEPT ![Where(chain, k)][2] = v]
           new   == Replaced(array, at, other)
<1>1. at \in 1 .. cap
    BY HasInTable
<1>2. Fine(chain, at, cap)
    BY <1>1, TableIsFine
<1>3. ToSet(chain) = {e \in HeldIn(array) : Index(e[1], cap) = at}
    BY <1>1, HeldInChain
<1>4. Fine(other, at, cap) /\ ToSet(other) = {e \in ToSet(chain) : e[1] # k} \cup {<<k, v>>}
    BY <1>2, FineUpdated
<1>5. WithValue(array, cap, k, v) = new
    BY DEF Replaced, WithValue
<1> HIDE DEF other
<1>6. /\ Table(new) /\ IsArray(new, cap)
      /\ HeldIn(new) = {e \in HeldIn(array) : Index(e[1], cap) # at} \cup ToSet(other)
    <2>1. Replaces(Replaced(array, at, other), array, cap, at, other)
        BY <1>1, <1>4, TableExcept, Zenon
    <2> QED
        BY <2>1 DEF Replaces
<1> HIDE DEF new, chain
<1>7. HeldIn(new) = {e \in HeldIn(array) : e[1] # k} \cup {<<k, v>>}
    BY <1>3, <1>4, <1>6
<1> QED
    BY <1>5, <1>6, <1>7 DEF Updates

\* A key taken out.
WithoutKey(array, cap, k) ==
    [array EXCEPT ![Index(k, cap)] = Unlinked(array[Index(k, cap)], k)]
Removes(new, array, cap, k) ==
    /\ Table(new) /\ IsArray(new, cap)
    /\ HeldIn(new) = {e \in HeldIn(array) : e[1] # k}

LEMMA TableUnlinked ==
    ASSUME NEW array, NEW cap, Table(array), IsArray(array, cap),
           NEW k \in Key, Has(array[Index(k, cap)], k)
    PROVE  Removes(WithoutKey(array, cap, k), array, cap, k)
<1> DEFINE at    == Index(k, cap)
           chain == array[at]
           other == Unlinked(chain, k)
           new   == Replaced(array, at, other)
<1>1. at \in 1 .. cap
    BY HasInTable
<1>2. Fine(chain, at, cap)
    BY <1>1, TableIsFine
<1>3. ToSet(chain) = {e \in HeldIn(array) : Index(e[1], cap) = at}
    BY <1>1, HeldInChain
<1>4. Fine(other, at, cap) /\ ToSet(other) = {e \in ToSet(chain) : e[1] # k}
    BY <1>2, FineUnlinked
<1> HIDE DEF other
<1>5. /\ Table(new) /\ IsArray(new, cap)
      /\ HeldIn(new) = {e \in HeldIn(array) : Index(e[1], cap) # at} \cup ToSet(other)
    <2>1. Replaces(Replaced(array, at, other), array, cap, at, other)
        BY <1>1, <1>4, TableExcept, Zenon
    <2> QED
        BY <2>1 DEF Replaces
<1> HIDE DEF new, chain
<1>6. HeldIn(new) = {e \in HeldIn(array) : e[1] # k}
    BY <1>3, <1>4, <1>5
<1> QED
    BY <1>5, <1>6 DEF new, other, chain, Replaced, WithoutKey, Removes

\* A chain lost.
LEMMA TableLost ==
    ASSUME NEW array, NEW cap, Table(array), IsArray(array, cap), NEW at \in 1 .. cap
    PROVE  LET new == [array EXCEPT ![at] = <<>>] IN
           /\ Table(new) /\ IsArray(new, cap)
           /\ HeldIn(new) \subseteq HeldIn(array)
<1> DEFINE new == Replaced(array, at, <<>>)
<1>1. Fine(<<>>, at, cap) /\ ToSet(<<>>) = {}
    BY FineEmpty
<1>2. /\ Table(new) /\ IsArray(new, cap)
      /\ HeldIn(new) = {e \in HeldIn(array) : Index(e[1], cap) # at} \cup ToSet(<<>>)
    <2>1. Replaces(Replaced(array, at, <<>>), array, cap, at, <<>>)
        BY <1>1, TableExcept, Zenon
    <2> QED
        BY <2>1 DEF Replaces
<1> QED
    BY <1>1, <1>2 DEF Replaced

-----------------------------------------------------------------------------
(***************************************************************************)
(* Rehashing: the walks of _ht_rehash over a chain and over the chains.    *)
(***************************************************************************)
\* The arrays of cap chains that hold these entries.
Holding(cap, held) ==
    {array \in Arrays : Table(array) /\ IsArray(array, cap) /\ HeldIn(array) = held}

Disjoint(held, others) == \A e \in held, f \in others : e[1] # f[1]

Foremost(chain, n) == {chain[i] : i \in 1 .. n}

LEMMA ForemostGrows ==
    ASSUME NEW chain, NEW n \in Nat
    PROVE  Foremost(chain, n + 1) = Foremost(chain, n) \cup {chain[n + 1]} /\ Foremost(chain, 0) = {}
<1>1. 1 .. n + 1 = (1 .. n) \cup {n + 1}
    OBVIOUS
<1>2. Foremost(chain, n + 1) = {chain[i] : i \in (1 .. n) \cup {n + 1}}
    BY <1>1 DEF Foremost
<1>3. Foremost(chain, n + 1) = Foremost(chain, n) \cup {chain[n + 1]}
    BY <1>2 DEF Foremost
<1>4. 1 .. 0 = {}
    OBVIOUS
<1>5. Foremost(chain, 0) = {}
    BY <1>4 DEF Foremost
<1> QED
    BY <1>3, <1>5

\* One node of a chain that moves.
LEMMA MovedOn ==
    ASSUME NEW cap, NEW held, NEW chain \in Chains, OneKeyEach(chain),
           Disjoint(held, ToSet(chain)), NEW n \in Nat, n < Len(chain),
           NEW a \in Holding(cap, held \cup Foremost(chain, n))
    PROVE  PushedFront(a, chain[n + 1]) \in Holding(cap, held \cup Foremost(chain, n + 1))
<1> DEFINE N == Len(chain)
           e == chain[n + 1]
<1>1. N \in Nat /\ DOMAIN chain = 1 .. N /\ n + 1 \in 1 .. N
    BY DEF Chains
<1>2. e \in Entry /\ e \in ToSet(chain)
    BY <1>1 DEF Chains, ToSet
<1>3. Table(a) /\ IsArray(a, cap) /\ HeldIn(a) = held \cup Foremost(chain, n)
    BY DEF Holding
<1>4. ASSUME NEW f \in HeldIn(a) PROVE f[1] # e[1]
    <2>1. CASE f \in held
        BY <1>2, <2>1 DEF Disjoint
    <2>2. CASE f \in Foremost(chain, n)
        <3>1. PICK i \in 1 .. n : f = chain[i]
            BY <2>2 DEF Foremost
        <3>2. i \in 1 .. N /\ i # n + 1
            BY <1>1
        <3> QED
            BY <1>1, <3>1, <3>2 DEF OneKeyEach
    <2> QED
        BY <1>3, <2>1, <2>2
<1> HIDE DEF e
<1>5. /\ Table(PushedFront(a, e)) /\ IsArray(PushedFront(a, e), cap)
      /\ HeldIn(PushedFront(a, e)) = HeldIn(a) \cup {e}
    BY <1>2, <1>3, <1>4, TablePushed
<1>6. Foremost(chain, n + 1) = Foremost(chain, n) \cup {e}
    BY ForemostGrows DEF e
<1>7. PushedFront(a, e) \in Arrays
    BY <1>5 DEF Table
<1> QED
    BY <1>3, <1>5, <1>6, <1>7 DEF Holding, e

\* A chain moves.
LEMMA ChainMoved ==
    ASSUME NEW cap, NEW held, NEW array \in Holding(cap, held),
           NEW chain \in Chains, OneKeyEach(chain), Disjoint(held, ToSet(chain))
    PROVE  Moved(array, chain) \in Holding(cap, held \cup ToSet(chain))
<1> DEFINE N    == Len(chain)
           S    == [n \in 0 .. N |-> Holding(cap, held \cup Foremost(chain, n))]
           step == [n \in 1 .. N |-> [a \in Arrays |-> PushedFront(a, chain[n])]]
           moved == CHOOSE g : g = [m \in 0 .. N |->
                        IF m = 0 THEN array ELSE PushedFront(g[m - 1], chain[m])]
<1>1. N \in Nat /\ DOMAIN chain = 1 .. N
    BY DEF Chains
<1>2. Foremost(chain, 0) = {}
    BY ForemostGrows, 0 \in Nat
<1>3. 0 \in 0 .. N
    BY <1>1
<1>4. array \in S[0]
    BY <1>2, <1>3
<1>5. \A n \in 0 .. N : S[n] \subseteq Arrays
    BY DEF Holding
<1>6. ASSUME NEW n \in 0 .. N, NEW a \in S[n], n < N
      PROVE  PushedFront(a, chain[n + 1]) \in S[n + 1]
    <2>1. n \in Nat /\ n < Len(chain) /\ n + 1 \in 0 .. N
        BY <1>1, <1>6
    <2>2. a \in Holding(cap, held \cup Foremost(chain, n))
        BY <1>6
    <2>3. PushedFront(a, chain[n + 1]) \in Holding(cap, held \cup Foremost(chain, n + 1))
        BY <2>1, <2>2, MovedOn
    <2> QED
        BY <2>1, <2>3
<1>7. ToSet(chain) = Foremost(chain, N)
    BY <1>1 DEF ToSet, Foremost
<1>8. Moved(array, chain) = moved[N]
    BY Zenon DEF Moved
<1>9. S[N] = Holding(cap, held \cup ToSet(chain)) /\ N \in 0 .. N
    BY <1>1, <1>7
<1> HIDE DEF S, N
<1>10. PICK g : IsWalk(g, array, step, N)
    <2> HIDE DEF step
    <2> QED
        BY <1>1, WalkExists
<1>11. ASSUME NEW n \in 0 .. N, NEW a \in S[n], n < N
       PROVE  step[n + 1][a] = PushedFront(a, chain[n + 1])
    <2>1. n + 1 \in 1 .. N /\ a \in Arrays
        BY <1>1, <1>5, <1>11
    <2> QED
        BY <2>1
<1>12. \A n \in 0 .. N : g[n] \in S[n]
    <2> HIDE DEF step
    <2>1. \A n \in 0 .. N : \A a \in S[n] : n < N => step[n + 1][a] \in S[n + 1]
        BY <1>6, <1>11
    <2> QED
        BY <1>1, <1>4, <1>10, <2>1, WalkStays
<1>13. g = [m \in 0 .. N |-> IF m = 0 THEN array ELSE PushedFront(g[m - 1], chain[m])]
    <2>1. g = [m \in 0 .. N |-> IF m = 0 THEN array ELSE step[m][g[m - 1]]]
        BY <1>10 DEF IsWalk
    <2>2. ASSUME NEW m \in 0 .. N, m # 0
          PROVE  step[m][g[m - 1]] = PushedFront(g[m - 1], chain[m])
        <3>1. m - 1 \in 0 .. N /\ m - 1 < N /\ m - 1 + 1 = m
            BY <1>1, <2>2
        <3>2. g[m - 1] \in S[m - 1]
            BY <1>12, <3>1
        <3> HIDE DEF step
        <3>3. step[m - 1 + 1][g[m - 1]] = PushedFront(g[m - 1], chain[m - 1 + 1])
            BY <1>11, <3>1, <3>2
        <3> QED
            BY <3>1, <3>3
    <2> HIDE DEF step
    <2>3. [m \in 0 .. N |-> IF m = 0 THEN array ELSE step[m][g[m - 1]]]
              = [m \in 0 .. N |-> IF m = 0 THEN array ELSE PushedFront(g[m - 1], chain[m])]
        BY <2>2
    <2> QED
        BY <2>1, <2>3
<1>14. moved = [m \in 0 .. N |-> IF m = 0 THEN array ELSE PushedFront(moved[m - 1], chain[m])]
    BY <1>13, Zenon
<1> HIDE DEF moved
<1> DEFINE T == {n \in 0 .. N : moved[n] \in S[n]}
<1>15. 0 \in T
    BY <1>3, <1>4, <1>14
<1>16. ASSUME NEW n \in 0 .. N, n \in T, n < N PROVE n + 1 \in T
    <2>1. n + 1 \in 0 .. N /\ n + 1 # 0 /\ n + 1 - 1 = n
        BY <1>1, <1>16
    <2>2. moved[n + 1] = PushedFront(moved[n], chain[n + 1])
        BY <1>14, <2>1
    <2> QED
        BY <1>6, <1>16, <2>1, <2>2
<1>17. \A n \in 0 .. N : n \in T
    BY <1>1, <1>15, <1>16, InductTo
<1> QED
    BY <1>8, <1>9, <1>17

\* What the first n chains hold.
Gathered(n) == UNION {ToSet(nodes[i]) : i \in 1 .. n}

LEMMA GatheredGrows ==
    ASSUME NEW n \in Nat
    PROVE  Gathered(n + 1) = Gathered(n) \cup ToSet(nodes[n + 1]) /\ Gathered(0) = {}
<1>1. 1 .. n + 1 = (1 .. n) \cup {n + 1}
    OBVIOUS
<1>2. Gathered(n + 1) = UNION {ToSet(nodes[i]) : i \in (1 .. n) \cup {n + 1}}
    BY <1>1 DEF Gathered
<1>3. Gathered(n + 1) = Gathered(n) \cup ToSet(nodes[n + 1])
    BY <1>2 DEF Gathered
<1>4. 1 .. 0 = {}
    OBVIOUS
<1>5. Gathered(0) = {}
    BY <1>4 DEF Gathered
<1> QED
    BY <1>3, <1>5

\* One chain of the old array that moves.
LEMMA ChainOn ==
    ASSUME Table(nodes), NEW cap, NEW n \in Nat, n < Len(nodes),
           NEW a \in Holding(cap, Gathered(n))
    PROVE  Moved(a, nodes[n + 1]) \in Holding(cap, Gathered(n + 1))
<1> DEFINE N == Len(nodes)
<1>1. IsArray(nodes, N)
    BY TableIsArray
<1>2. N \in Nat /\ n + 1 \in 1 .. N
    BY <1>1 DEF IsArray
<1> HIDE DEF N
<1>3. \A i \in 1 .. N : Fine(nodes[i], i, N)
    BY <1>1, TableIsFine
<1>4. nodes[n + 1] \in Chains /\ OneKeyEach(nodes[n + 1])
    BY <1>2, <1>3 DEF Fine
<1>5. Disjoint(Gathered(n), ToSet(nodes[n + 1]))
    <2> SUFFICES ASSUME NEW e \in Gathered(n), NEW f \in ToSet(nodes[n + 1]), e[1] = f[1]
                 PROVE  FALSE
        BY DEF Disjoint
    <2>1. PICK i \in 1 .. n : e \in ToSet(nodes[i])
        BY DEF Gathered
    <2>2. i \in 1 .. N /\ i # n + 1
        BY <1>2
    <2>3. \A j \in 1 .. N : \A x \in ToSet(nodes[j]) : Index(x[1], N) = j
        <3> SUFFICES ASSUME NEW j \in 1 .. N, NEW x \in ToSet(nodes[j])
                     PROVE  Index(x[1], N) = j
            OBVIOUS
        <3>1. AllAt(nodes[j], j, N)
            BY <1>3 DEF Fine
        <3> QED
            BY <3>1 DEF AllAt, ToSet
    <2>4. Index(e[1], N) = i
        BY <2>1, <2>2, <2>3
    <2>5. Index(f[1], N) = n + 1
        BY <1>2, <2>3
    <2> QED
        BY <2>2, <2>4, <2>5
<1>6. Gathered(n + 1) = Gathered(n) \cup ToSet(nodes[n + 1])
    BY GatheredGrows
<1> QED
    BY <1>4, <1>5, <1>6, ChainMoved

\* The new array holds what the old one held.
LEMMA RehashedHolds ==
    ASSUME Table(nodes), NEW cap \in Nat, cap # 0
    PROVE  Rehashed(cap) \in Holding(cap, Held)
<1> DEFINE N    == Len(nodes)
           S    == [n \in 0 .. N |-> Holding(cap, Gathered(n))]
           step == [n \in 1 .. N |-> [a \in Arrays |-> Moved(a, nodes[n])]]
           moved == CHOOSE g : g = [n \in 0 .. N |->
                        IF n = 0 THEN EmptyArray(cap) ELSE Moved(g[n - 1], nodes[n])]
<1>1. N \in Nat /\ DOMAIN nodes = 1 .. N
    BY DEF Table, Arrays
<1>2. EmptyArray(cap) \in Holding(cap, Gathered(0))
    <2>1. Gathered(0) = {}
        BY GatheredGrows, 0 \in Nat
    <2>2. EmptyArray(cap) \in Arrays
        BY TableEmpty DEF Table
    <2> QED
        BY <2>1, <2>2, TableEmpty DEF Holding
<1>3. 0 \in 0 .. N
    BY <1>1
<1>4. EmptyArray(cap) \in S[0]
    BY <1>2, <1>3
<1>5. \A n \in 0 .. N : S[n] \subseteq Arrays
    BY DEF Holding
<1>6. ASSUME NEW n \in 0 .. N, NEW a \in S[n], n < N
      PROVE  Moved(a, nodes[n + 1]) \in S[n + 1]
    <2>1. n \in Nat /\ n < Len(nodes) /\ n + 1 \in 0 .. N
        BY <1>1, <1>6
    <2>2. a \in Holding(cap, Gathered(n))
        BY <1>6
    <2>3. Moved(a, nodes[n + 1]) \in Holding(cap, Gathered(n + 1))
        BY <2>1, <2>2, ChainOn
    <2> QED
        BY <2>1, <2>3
<1>7. Held = Gathered(N)
    BY <1>1 DEF Held, HeldIn, Gathered
<1>8. Rehashed(cap) = moved[N]
    BY Zenon DEF Rehashed
<1>9. S[N] = Holding(cap, Held) /\ N \in 0 .. N
    BY <1>1, <1>7
<1> HIDE DEF S, N
<1>10. PICK g : IsWalk(g, EmptyArray(cap), step, N)
    <2> HIDE DEF step
    <2> QED
        BY <1>1, WalkExists
<1>11. ASSUME NEW n \in 0 .. N, NEW a \in S[n], n < N
       PROVE  step[n + 1][a] = Moved(a, nodes[n + 1])
    <2>1. n + 1 \in 1 .. N /\ a \in Arrays
        BY <1>1, <1>5, <1>11
    <2> QED
        BY <2>1
<1>12. \A n \in 0 .. N : g[n] \in S[n]
    <2> HIDE DEF step
    <2>1. \A n \in 0 .. N : \A a \in S[n] : n < N => step[n + 1][a] \in S[n + 1]
        BY <1>6, <1>11
    <2> QED
        BY <1>1, <1>4, <1>10, <2>1, WalkStays
<1>13. g = [m \in 0 .. N |-> IF m = 0 THEN EmptyArray(cap) ELSE Moved(g[m - 1], nodes[m])]
    <2>1. g = [m \in 0 .. N |-> IF m = 0 THEN EmptyArray(cap) ELSE step[m][g[m - 1]]]
        BY <1>10 DEF IsWalk
    <2>2. ASSUME NEW m \in 0 .. N, m # 0
          PROVE  step[m][g[m - 1]] = Moved(g[m - 1], nodes[m])
        <3>1. m - 1 \in 0 .. N /\ m - 1 < N /\ m - 1 + 1 = m
            BY <1>1, <2>2
        <3>2. g[m - 1] \in S[m - 1]
            BY <1>12, <3>1
        <3> HIDE DEF step
        <3>3. step[m - 1 + 1][g[m - 1]] = Moved(g[m - 1], nodes[m - 1 + 1])
            BY <1>11, <3>1, <3>2
        <3> QED
            BY <3>1, <3>3
    <2> HIDE DEF step
    <2>3. [m \in 0 .. N |-> IF m = 0 THEN EmptyArray(cap) ELSE step[m][g[m - 1]]]
              = [m \in 0 .. N |-> IF m = 0 THEN EmptyArray(cap) ELSE Moved(g[m - 1], nodes[m])]
        BY <2>2
    <2> QED
        BY <2>1, <2>3
<1>14. moved = [m \in 0 .. N |-> IF m = 0 THEN EmptyArray(cap) ELSE Moved(moved[m - 1], nodes[m])]
    BY <1>13, Zenon
<1> HIDE DEF moved
<1> DEFINE T == {n \in 0 .. N : moved[n] \in S[n]}
<1>15. 0 \in T
    BY <1>3, <1>4, <1>14
<1>16. ASSUME NEW n \in 0 .. N, n \in T, n < N PROVE n + 1 \in T
    <2>1. n + 1 \in 0 .. N /\ n + 1 # 0 /\ n + 1 - 1 = n
        BY <1>1, <1>16
    <2>2. moved[n + 1] = Moved(moved[n], nodes[n + 1])
        BY <1>14, <2>1
    <2> QED
        BY <1>6, <1>16, <2>1, <2>2
<1>17. \A n \in 0 .. N : n \in T
    BY <1>1, <1>15, <1>16, InductTo
<1> QED
    BY <1>8, <1>9, <1>17

-----------------------------------------------------------------------------
(***************************************************************************)
(* The invariant.                                                          *)
(***************************************************************************)
\* The numbers of ht_insert and ht_erase: size covers the entries, and until
\* malloc fails it counts them and there is a chain for each.
Covered(held, sz, cap, lost) ==
    /\ sz \in Nat
    /\ IsFiniteSet(held) /\ Cardinality(held) <= sz
    /\ (~lost => sz = Cardinality(held) /\ sz <= cap)

IsTable(array, cap, sz, lost) ==
    /\ Table(array) /\ IsArray(array, cap) /\ cap >= MinCapacity
    /\ Covered(HeldIn(array), sz, cap, lost)

IsTyped ==
    /\ state \in {"none", "array", "null"}
    /\ size \in Nat /\ capacity \in Nat
    /\ threshold = capacity * LoadFactor
    /\ status \in {"running", "asserted", "wild"}

IInv ==
    /\ IsTyped
    /\ failed \in BOOLEAN
    /\ (state = "array" => IsTable(nodes, capacity, size, failed))
    /\ (state # "array" => nodes = <<>>)
    /\ (state = "null" => failed)
    /\ NeverEnds

LEMMA InitHolds == Init => IInv
<1> SUFFICES ASSUME Init PROVE IInv
    OBVIOUS
<1>1. IsTyped
    BY MinAssumption DEF Init, IsTyped
<1>2. failed \in BOOLEAN
    BY DEF Init
<1>3. NeverEnds
    BY DEF Init, NeverEnds
<1> QED
    BY <1>1, <1>2, <1>3 DEF Init, IInv

LEMMA Products == ASSUME NEW c \in Nat PROVE c * LoadFactor \in Nat
    BY MinAssumption

\* What a step does to the entries when the array changes.
LEMMA HoldingIs ==
    ASSUME NEW cap, NEW held, NEW array
    PROVE  array \in Holding(cap, held) <=>
               Table(array) /\ IsArray(array, cap) /\ HeldIn(array) = held
    BY DEF Holding, Table

-----------------------------------------------------------------------------
(***************************************************************************)
(* Counting.                                                               *)
(***************************************************************************)
Without(held, k) == {e \in held : e[1] # k}

LEMMA WithoutOne ==
    ASSUME NEW held, IsFiniteSet(held), Functional(held), NEW x \in held
    PROVE  /\ IsFiniteSet(Without(held, x[1]))
           /\ Cardinality(Without(held, x[1])) = Cardinality(held) - 1
           /\ Cardinality(held) \in Nat \ {0}
           /\ Cardinality(held) - 1 = 0 => Without(held, x[1]) = {}
<1>1. Without(held, x[1]) = held \ {x}
    BY DEF Without, Functional
<1>2. /\ IsFiniteSet(held \ {x})
      /\ Cardinality(held \ {x}) = IF x \in held THEN Cardinality(held) - 1 ELSE Cardinality(held)
    BY FS_RemoveElement
<1>3. Cardinality(held) \in Nat /\ Cardinality(held \ {x}) \in Nat
    BY <1>2, FS_CardinalityType
<1>4. Cardinality(held \ {x}) = 0 <=> held \ {x} = {}
    BY <1>2, FS_EmptySet
<1> QED
    BY <1>1, <1>2, <1>3, <1>4

LEMMA OneMore ==
    ASSUME NEW held, IsFiniteSet(held), NEW x, x \notin held
    PROVE  /\ IsFiniteSet(held \cup {x})
           /\ Cardinality(held \cup {x}) = Cardinality(held) + 1
           /\ Cardinality(held) \in Nat
    BY FS_AddElement, FS_CardinalityType

\* The entries once k has the value v: none more when k was there.
LEMMA CountUpdated ==
    ASSUME NEW held, IsFiniteSet(held), Functional(held), NEW k, NEW v,
           \E e \in held : e[1] = k
    PROVE  /\ IsFiniteSet(Without(held, k) \cup {<<k, v>>})
           /\ Cardinality(Without(held, k) \cup {<<k, v>>}) = Cardinality(held)
<1>1. PICK x \in held : x[1] = k
    OBVIOUS
<1> DEFINE rest == Without(held, k)
<1>2. IsFiniteSet(rest) /\ Cardinality(rest) = Cardinality(held) - 1
      /\ Cardinality(held) \in Nat \ {0}
    BY <1>1, WithoutOne
<1>3. <<k, v>> \notin rest
    BY DEF Without
<1> HIDE DEF rest
<1>4. IsFiniteSet(rest \cup {<<k, v>>}) /\ Cardinality(rest \cup {<<k, v>>}) = Cardinality(rest) + 1
    BY <1>2, <1>3, OneMore
<1> QED
    BY <1>2, <1>4 DEF rest

LEMMA CountPushed ==
    ASSUME NEW held, IsFiniteSet(held), NEW k, NEW v, ~\E e \in held : e[1] = k
    PROVE  /\ IsFiniteSet(held \cup {<<k, v>>})
           /\ Cardinality(held \cup {<<k, v>>}) = Cardinality(held) + 1
           /\ Cardinality(held) \in Nat
<1>1. <<k, v>> \notin held
    OBVIOUS
<1> QED
    BY <1>1, OneMore

LEMMA CountFewer ==
    ASSUME NEW held, IsFiniteSet(held), NEW others, others \subseteq held
    PROVE  /\ IsFiniteSet(others) /\ Cardinality(others) <= Cardinality(held)
           /\ Cardinality(others) \in Nat /\ Cardinality(held) \in Nat
    BY FS_Subset, FS_CardinalityType

-----------------------------------------------------------------------------
(***************************************************************************)
(* Capacities.                                                             *)
(***************************************************************************)
LEMMA ResizedIs ==
    ASSUME NEW w \in Nat, capacity \in Nat, capacity >= MinCapacity
    PROVE  /\ Resized(w) \in Nat /\ Resized(w) >= MinCapacity /\ Resized(w) # 0
           /\ w >= MinCapacity => Resized(w) = w
    BY MinAssumption DEF Resized

\* A reservation beyond the threshold asks for no fewer chains.
LEMMA ReservesMore ==
    ASSUME NEW m \in Nat, capacity \in Nat, m > capacity * LoadFactor
    PROVE  m \div LoadFactor \in Nat /\ m \div LoadFactor >= capacity
<1> DEFINE L == LoadFactor
           q == m \div L
           r == m % L
<1>1. L \in Nat /\ L # 0
    BY MinAssumption
<1> HIDE DEF L
<1>2. q \in Int /\ r \in 0 .. L - 1 /\ m = L * q + r
    BY <1>1
<1> HIDE DEF q, r
<1>3. q >= 0
    <2> SUFFICES ASSUME q + 1 <= 0 PROVE FALSE
        BY <1>2
    <2>1. L * (q + 1) <= 0
        BY <1>1, <1>2
    <2>2. L * (q + 1) = L * q + L
        BY <1>1, <1>2
    <2> QED
        BY <1>1, <1>2, <2>1, <2>2
<1>4. q >= capacity
    <2> SUFFICES ASSUME q + 1 <= capacity PROVE FALSE
        BY <1>2
    <2>1. L * (q + 1) <= L * capacity
        BY <1>1, <1>2
    <2>2. L * (q + 1) = L * q + L /\ L * capacity = capacity * L
        BY <1>1, <1>2
    <2>3. L * q + L <= capacity * L
        BY <2>1, <2>2
    <2>4. L * q \in Int /\ capacity * L \in Int /\ m > capacity * L
        BY <1>1, <1>2 DEF L
    <2> QED
        BY <1>1, <1>2, <2>3, <2>4
<1> QED
    BY <1>2, <1>3, <1>4 DEF q, L

-----------------------------------------------------------------------------
(***************************************************************************)
(* Steps.                                                                  *)
(***************************************************************************)
\* The call only returns.
LEMMA ReturnKeeps == IInv /\ UNCHANGED <<fields, status, failed>> => IInv'
<1> SUFFICES ASSUME IInv, UNCHANGED <<fields, status, failed>> PROVE IInv'
    OBVIOUS
<1>1. UNCHANGED <<state, nodes, size, capacity, threshold, status, failed>>
    BY DEF fields
<1>2. IsTyped'
    BY <1>1 DEF IInv, IsTyped
<1>3. NeverEnds'
    BY <1>1 DEF IInv, NeverEnds
<1>4. state' = "array" => IsTable(nodes', capacity', size', failed')
    <2>1. state = "array" => IsTable(nodes, capacity, size, failed)
        BY Zenon DEF IInv
    <2> QED
        BY <1>1, <2>1, Zenon
<1>5. failed' \in BOOLEAN
    BY <1>1, Zenon DEF IInv
<1>6. (state' # "array" => nodes' = <<>>) /\ (state' = "null" => failed')
    <2>1. (state # "array" => nodes = <<>>) /\ (state = "null" => failed)
        BY Zenon DEF IInv
    <2> QED
        BY <1>1, <2>1
<1> QED
    BY <1>2, <1>3, <1>4, <1>5, <1>6, Zenon DEF IInv

\* The call ends the process, after a failed malloc.
LEMMA EndKeeps ==
    ASSUME IInv, UNCHANGED fields, failed', NEW how \in {"asserted", "wild"}, status' = how,
           failed' \in BOOLEAN
    PROVE  IInv'
<1>1. UNCHANGED <<state, nodes, size, capacity, threshold>>
    BY DEF fields
<1>2. IsTyped'
    BY <1>1 DEF IInv, IsTyped
<1>3. NeverEnds'
    BY DEF NeverEnds
<1>4. state = "array" => IsTable(nodes, capacity, size, failed')
    BY DEF IInv, IsTable, Covered
<1> QED
    BY <1>1, <1>2, <1>3, <1>4, Zenon DEF IInv

\* The call leaves an array.
LEMMA TableKeeps ==
    ASSUME IInv, state' = "array", UNCHANGED status, threshold' = capacity' * LoadFactor,
           IsTable(nodes', capacity', size', failed'), failed' \in BOOLEAN, failed => failed'
    PROVE  IInv'
<1>1. IsTyped'
    BY DEF IInv, IsTyped, IsTable, IsArray, Covered
<1>2. NeverEnds'
    BY DEF IInv, NeverEnds
<1> QED
    BY <1>1, <1>2, Zenon DEF IInv

\* The call loses the array.
LEMMA LossKeeps ==
    ASSUME IInv, NoArray, UNCHANGED status, failed' = TRUE, size' \in Nat
    PROVE  IInv'
<1>1. IsTyped'
    BY DEF IInv, IsTyped, NoArray
<1>2. NeverEnds'
    BY DEF NeverEnds
<1>3. state' = "null" /\ nodes' = <<>>
    BY DEF NoArray
<1> QED
    BY <1>1, <1>2, <1>3 DEF IInv

LEMMA ArrayIs ==
    ASSUME IInv, state = "array"
    PROVE  /\ Table(nodes) /\ IsArray(nodes, capacity)
           /\ capacity \in Nat /\ capacity # 0 /\ capacity >= MinCapacity /\ size \in Nat
           /\ Covered(Held, size, capacity, failed)
           /\ Functional(Held)
    BY HeldFunctional DEF IInv, IsTable, IsArray, IsTyped, Held

\* An empty table of enough chains.
LEMMA EmptyIsTable ==
    ASSUME NEW cap \in Nat, cap >= MinCapacity, NEW lost
    PROVE  IsTable(EmptyArray(cap), cap, 0, lost)
<1>1. cap # 0
    BY MinAssumption
<1>2. /\ Table(EmptyArray(cap)) /\ IsArray(EmptyArray(cap), cap)
      /\ HeldIn(EmptyArray(cap)) = {}
    BY <1>1, TableEmpty
<1>3. IsFiniteSet({}) /\ Cardinality({}) = 0
    BY FS_EmptySet
<1> QED
    BY <1>2, <1>3 DEF IsTable, Covered

LEMMA LargerIs ==
    ASSUME NEW cap \in Capacities
    PROVE  Larger(cap, MinCapacity) \in Nat /\ Larger(cap, MinCapacity) >= MinCapacity
    BY CapacityAssumption, MinAssumption DEF Larger

LEMMA SetupStep == IInv /\ (\E cap \in Capacities : Setup(cap)) => IInv'
<1> SUFFICES ASSUME IInv, NEW cap \in Capacities, Setup(cap) PROVE IInv'
    OBVIOUS
<1> DEFINE c == Larger(cap, MinCapacity)
<1>1. c \in Nat /\ c >= MinCapacity
    BY LargerIs
<1>2. CASE /\ Allocated(EmptyArray(c), c)
           /\ state' = "array"
           /\ size' = 0
           /\ UNCHANGED <<result, status, failed>>
    <2> HIDE DEF c
    <2>1. IsTable(nodes', capacity', size', failed')
        BY <1>1, <1>2, EmptyIsTable DEF Allocated
    <2>2. threshold' = capacity' * LoadFactor
        BY <1>2 DEF Allocated
    <2>3. failed' \in BOOLEAN /\ (failed => failed')
        BY <1>2 DEF IInv
    <2> QED
        BY <1>2, <2>1, <2>2, <2>3, TableKeeps
<1>3. CASE NoArray /\ Fails(<<"error">>) /\ UNCHANGED size
    <2>1. size' \in Nat /\ failed' = TRUE /\ UNCHANGED status
        BY <1>3 DEF IInv, IsTyped, Fails
    <2> QED
        BY <1>3, <2>1, LossKeeps
<1> QED
    BY <1>2, <1>3 DEF Setup

LEMMA DestroyStep == IInv /\ Destroy => IInv'
<1> SUFFICES ASSUME IInv, Destroy PROVE IInv'
    OBVIOUS
<1>1. CASE /\ Call({"array"})
           /\ state' = "none" /\ nodes' = <<>>
           /\ UNCHANGED <<size, capacity, threshold, result, status, failed>>
    <2>1. IsTyped'
        BY <1>1 DEF IInv, IsTyped
    <2>2. NeverEnds' /\ failed' \in BOOLEAN
        BY <1>1 DEF IInv, NeverEnds
    <2> QED
        BY <1>1, <2>1, <2>2 DEF IInv
<1>2. CASE Call({"null"}) /\ Ends("asserted")
    <2>1. failed
        BY <1>2 DEF Call, IInv
    <2>2. failed' /\ failed' \in BOOLEAN /\ UNCHANGED fields /\ status' = "asserted"
        BY <1>2, <2>1 DEF Ends, IInv
    <2> QED
        BY <2>2, EndKeeps
<1> QED
    BY <1>1, <1>2 DEF Destroy

LEMMA ClearStep == IInv /\ Clear => IInv'
<1> SUFFICES ASSUME IInv, Clear PROVE IInv'
    OBVIOUS
<1>1. CASE /\ Call({"array"}) /\ size' = 0
           /\ Allocated(EmptyArray(MinCapacity), MinCapacity)
           /\ UNCHANGED <<state, result, status, failed>>
    <2>1. MinCapacity \in Nat /\ MinCapacity >= MinCapacity
        BY MinAssumption
    <2>2. IsTable(nodes', capacity', size', failed')
        BY <1>1, <2>1, EmptyIsTable DEF Allocated
    <2>3. threshold' = capacity' * LoadFactor /\ state' = "array"
        BY <1>1 DEF Allocated, Call
    <2>4. failed' \in BOOLEAN /\ (failed => failed')
        BY <1>1 DEF IInv
    <2> QED
        BY <1>1, <2>2, <2>3, <2>4, TableKeeps
<1>2. CASE Call({"array"}) /\ size' = 0 /\ NoArray /\ Fails(result)
    <2>1. size' \in Nat /\ failed' = TRUE /\ UNCHANGED status
        BY <1>2 DEF Fails
    <2> QED
        BY <1>2, <2>1, LossKeeps
<1>3. CASE Call({"null"}) /\ Ends("asserted")
    <2>1. failed' /\ failed' \in BOOLEAN /\ UNCHANGED fields /\ status' = "asserted"
        BY <1>3 DEF Ends, IInv, Call
    <2> QED
        BY <2>1, EndKeeps
<1> QED
    BY <1>1, <1>2, <1>3 DEF Clear

LEMMA ReserveStep == IInv /\ (\E m \in Capacities : Reserve(m)) => IInv'
<1> SUFFICES ASSUME IInv, NEW m \in Capacities, Reserve(m) PROVE IInv'
    OBVIOUS
<1> DEFINE w   == m \div LoadFactor
           cap == Resized(w)
<1>1. m \in Nat
    BY CapacityAssumption
<1>2. CASE UNCHANGED <<fields, result, status, failed>>
    BY <1>2, ReturnKeeps
<1>3. CASE /\ Call({"array"}) /\ m > threshold
           /\ Allocated(Rehashed(cap), cap)
           /\ UNCHANGED <<state, result, status, failed>> /\ UNCHANGED size
    <2>1. state = "array" /\ state' = "array"
        BY <1>3 DEF Call
    <2>2. threshold = capacity * LoadFactor
        BY DEF IInv, IsTyped
    <2>3. w \in Nat /\ w >= capacity
        BY <1>1, <1>3, <2>1, <2>2, ArrayIs, ReservesMore
    <2> HIDE DEF w
    <2>4. w >= MinCapacity /\ MinCapacity \in Nat /\ capacity \in Nat /\ size \in Nat
        BY <2>1, <2>3, ArrayIs, MinAssumption
    <2>5. cap = w /\ cap # 0
        BY <2>1, <2>3, <2>4, ArrayIs, ResizedIs
    <2> HIDE DEF cap
    <2>6. Rehashed(cap) \in Holding(cap, Held)
        BY <2>1, <2>3, <2>5, ArrayIs, RehashedHolds
    <2>7. Covered(Held, size, cap, failed)
        BY <2>1, <2>3, <2>4, <2>5, ArrayIs DEF Covered
    <2>8. IsTable(Rehashed(cap), cap, size, failed)
        BY <2>4, <2>5, <2>6, <2>7, HoldingIs DEF IsTable
    <2>9. IsTable(nodes', capacity', size', failed')
        BY <1>3, <2>8 DEF Allocated
    <2>10. threshold' = capacity' * LoadFactor
        BY <1>3 DEF Allocated
    <2>11. failed' \in BOOLEAN /\ (failed => failed')
        BY <1>3 DEF IInv
    <2> QED
        BY <1>3, <2>1, <2>9, <2>10, <2>11, TableKeeps
<1>4. CASE NoArray /\ Fails(<<"error">>) /\ UNCHANGED size
    <2>1. size' \in Nat /\ failed' = TRUE /\ UNCHANGED status
        BY <1>4 DEF IInv, IsTyped, Fails
    <2> QED
        BY <1>4, <2>1, LossKeeps
<1>5. CASE Call({"null"}) /\ Ends("asserted")
    <2>1. failed' /\ failed' \in BOOLEAN /\ UNCHANGED fields /\ status' = "asserted"
        BY <1>5 DEF Ends, IInv, Call
    <2> QED
        BY <2>1, EndKeeps
<1> QED
    BY <1>2, <1>3, <1>4, <1>5 DEF Reserve

-----------------------------------------------------------------------------
(***************************************************************************)
(* Insertion and erasure.                                                  *)
(***************************************************************************)
\* The array that ht_insert puts the entry in, grown where the table is full.
GrownTo == IF size = capacity THEN Resized(size * GrowthFactor) ELSE capacity
Grown == IF GrownTo # capacity THEN Rehashed(GrownTo) ELSE nodes

LEMMA GrownIs ==
    ASSUME IInv, state = "array", size <= capacity
    PROVE  /\ Table(Grown) /\ IsArray(Grown, GrownTo) /\ HeldIn(Grown) = Held
           /\ GrownTo \in Nat /\ GrownTo # 0 /\ GrownTo >= MinCapacity /\ size < GrownTo
           /\ size = capacity => GrownTo # capacity
<1>1. /\ Table(nodes) /\ IsArray(nodes, capacity)
      /\ capacity \in Nat /\ capacity # 0 /\ capacity >= MinCapacity /\ size \in Nat
      /\ MinCapacity \in Nat
    BY ArrayIs, MinAssumption
<1>2. /\ GrownTo \in Nat /\ GrownTo # 0 /\ GrownTo >= MinCapacity /\ size < GrownTo
      /\ size = capacity => GrownTo # capacity
    <2>1. CASE size = capacity
        <3>1. size * GrowthFactor = size + size
            BY <1>1 DEF GrowthFactor
        <3>2. size + size \in Nat /\ size + size >= MinCapacity /\ size < size + size
            BY <1>1, <2>1
        <3>3. Resized(size + size) = size + size
            BY <1>1, <3>2, ResizedIs
        <3>4. GrownTo = size + size
            BY <2>1, <3>1, <3>3 DEF GrownTo
        <3> QED
            BY <1>1, <2>1, <3>2, <3>4
    <2>2. CASE size # capacity
        <3>1. GrownTo = capacity
            BY <2>2 DEF GrownTo
        <3> QED
            BY <1>1, <2>2, <3>1
    <2> QED
        BY <2>1, <2>2
<1>3. CASE GrownTo # capacity
    <2>1. Grown = Rehashed(GrownTo)
        BY <1>3 DEF Grown
    <2>2. Rehashed(GrownTo) \in Holding(GrownTo, Held)
        BY <1>1, <1>2, RehashedHolds
    <2> QED
        BY <1>2, <2>1, <2>2, HoldingIs
<1>4. CASE GrownTo = capacity
    <2>1. Grown = nodes
        BY <1>4 DEF Grown
    <2> QED
        BY <1>1, <1>2, <1>4, <2>1 DEF Held
<1> QED
    BY <1>3, <1>4

\* What Insert leaves in the array, by its three outcomes.
Updated(k, v) == WithValue(Grown, GrownTo, k, v)
Lost(k) == [Grown EXCEPT ![Index(k, GrownTo)] = <<>>]

LEMMA InsertIs ==
    ASSUME NEW k, NEW v, Insert(k, v)
    PROVE  /\ state = "array" /\ size <= capacity
           /\ state' = "array"
           /\ \/ /\ Has(Grown[Index(k, GrownTo)], k)
                 /\ Allocated(Updated(k, v), GrownTo)
                 /\ Returns(<<"updated">>)
                 /\ UNCHANGED size
              \/ /\ ~Has(Grown[Index(k, GrownTo)], k)
                 /\ Allocated(PushedFront(Grown, <<k, v>>), GrownTo)
                 /\ size' = size + 1
                 /\ Returns(<<"inserted">>)
              \/ /\ Allocated(Lost(k), GrownTo)
                 /\ Fails(<<"error">>)
                 /\ UNCHANGED size
    BY DEF Insert, Call, Updated, WithValue, Lost, Grown, GrownTo

LEMMA UpdatedIs ==
    ASSUME IInv, state = "array", size <= capacity, NEW k \in Key, NEW v \in Value,
           Has(Grown[Index(k, GrownTo)], k)
    PROVE  /\ Table(Updated(k, v)) /\ IsArray(Updated(k, v), GrownTo)
           /\ HeldIn(Updated(k, v)) = Without(Held, k) \cup {<<k, v>>}
           /\ \E e \in Held : e[1] = k
           /\ IsTable(Updated(k, v), GrownTo, size, failed)
<1> DEFINE new == Updated(k, v)
           H   == Held
<1>1. /\ Table(Grown) /\ IsArray(Grown, GrownTo) /\ HeldIn(Grown) = H
      /\ GrownTo \in Nat /\ GrownTo >= MinCapacity /\ size < GrownTo
    BY GrownIs
<1>2. Functional(H) /\ Covered(H, size, capacity, failed) /\ size \in Nat
    BY ArrayIs
<1> HIDE DEF H
<1>3. /\ Table(new) /\ IsArray(new, GrownTo)
      /\ HeldIn(new) = {e \in H : e[1] # k} \cup {<<k, v>>}
    <2>1. Updates(WithValue(Grown, GrownTo, k, v), Grown, GrownTo, k, v)
        BY <1>1, TableUpdated, Zenon
    <2> QED
        BY <1>1, <2>1 DEF Updated, Updates
<1> HIDE DEF new
<1>4. HeldIn(new) = Without(H, k) \cup {<<k, v>>}
    BY <1>3 DEF Without
<1>5. \E e \in H : e[1] = k
    BY <1>1, HasInTable
<1>6. IsFiniteSet(H)
    BY <1>2 DEF Covered
<1>7. IsFiniteSet(HeldIn(new)) /\ Cardinality(HeldIn(new)) = Cardinality(H)
    BY <1>2, <1>4, <1>5, <1>6, CountUpdated
<1>8. Covered(HeldIn(new), size, GrownTo, failed)
    BY <1>1, <1>2, <1>7 DEF Covered
<1> QED
    BY <1>1, <1>3, <1>4, <1>5, <1>8 DEF IsTable, new, H

LEMMA PushedIs ==
    ASSUME IInv, state = "array", size <= capacity, NEW k \in Key, NEW v \in Value,
           ~Has(Grown[Index(k, GrownTo)], k)
    PROVE  /\ HeldIn(PushedFront(Grown, <<k, v>>)) = Held \cup {<<k, v>>}
           /\ ~\E e \in Held : e[1] = k
           /\ IsTable(PushedFront(Grown, <<k, v>>), GrownTo, size + 1, failed)
<1> DEFINE x   == <<k, v>>
           new == PushedFront(Grown, x)
           H   == Held
<1>1. /\ Table(Grown) /\ IsArray(Grown, GrownTo) /\ HeldIn(Grown) = H
      /\ GrownTo \in Nat /\ GrownTo >= MinCapacity /\ size < GrownTo
    BY GrownIs
<1>2. Covered(H, size, capacity, failed) /\ size \in Nat
    BY ArrayIs
<1> HIDE DEF H
<1>3. x \in Entry /\ x[1] = k
    BY DEF Entry
<1>4. ~\E e \in H : e[1] = k
    BY <1>1, HasInTable
<1> HIDE DEF x
<1>5. /\ Table(new) /\ IsArray(new, GrownTo)
      /\ HeldIn(new) = H \cup {x}
    BY <1>1, <1>3, <1>4, TablePushed
<1> HIDE DEF new
<1>6. IsFiniteSet(H)
    BY <1>2 DEF Covered
<1>7. IsFiniteSet(HeldIn(new)) /\ Cardinality(HeldIn(new)) = Cardinality(H) + 1
      /\ Cardinality(H) \in Nat
    <2>1. /\ IsFiniteSet(H \cup {<<k, v>>})
          /\ Cardinality(H \cup {<<k, v>>}) = Cardinality(H) + 1
          /\ Cardinality(H) \in Nat
        BY <1>4, <1>6, CountPushed, Zenon
    <2> QED
        BY <1>5, <2>1 DEF x
<1>8. Covered(HeldIn(new), size + 1, GrownTo, failed)
    BY <1>1, <1>2, <1>7 DEF Covered
<1> QED
    BY <1>1, <1>4, <1>5, <1>8 DEF IsTable, new, H, x

LEMMA LostIs ==
    ASSUME IInv, state = "array", size <= capacity, NEW k \in Key
    PROVE  IsTable(Lost(k), GrownTo, size, TRUE)
<1> DEFINE new == Lost(k)
           H   == Held
<1>1. /\ Table(Grown) /\ IsArray(Grown, GrownTo) /\ HeldIn(Grown) = H
      /\ GrownTo \in Nat /\ GrownTo >= MinCapacity
    BY GrownIs
<1>2. Covered(H, size, capacity, failed) /\ size \in Nat
    BY ArrayIs
<1> HIDE DEF H
<1>3. Index(k, GrownTo) \in 1 .. GrownTo
    BY <1>1, HasInTable
<1>4. Table(new) /\ IsArray(new, GrownTo) /\ HeldIn(new) \subseteq H
    BY <1>1, <1>3, TableLost DEF Lost
<1> HIDE DEF new
<1>5. IsFiniteSet(H) /\ Cardinality(H) <= size
    BY <1>2 DEF Covered
<1>6. /\ IsFiniteSet(HeldIn(new)) /\ Cardinality(HeldIn(new)) <= Cardinality(H)
      /\ Cardinality(HeldIn(new)) \in Nat /\ Cardinality(H) \in Nat
    BY <1>4, <1>5, CountFewer
<1>7. Covered(HeldIn(new), size, GrownTo, TRUE)
    BY <1>2, <1>5, <1>6 DEF Covered
<1> QED
    BY <1>1, <1>4, <1>7 DEF IsTable, new

LEMMA InsertStep == IInv /\ (\E k \in Key, v \in Value : Insert(k, v)) => IInv'
<1> SUFFICES ASSUME IInv, NEW k \in Key, NEW v \in Value, Insert(k, v) PROVE IInv'
    OBVIOUS
<1>1. state = "array" /\ size <= capacity /\ state' = "array"
    BY InsertIs
<1>2. failed \in BOOLEAN
    BY DEF IInv
<1>3. CASE /\ Has(Grown[Index(k, GrownTo)], k)
           /\ Allocated(Updated(k, v), GrownTo)
           /\ Returns(<<"updated">>)
           /\ UNCHANGED size
    <2>1. IsTable(Updated(k, v), GrownTo, size, failed)
        BY <1>1, <1>3, UpdatedIs
    <2>2. IsTable(nodes', capacity', size', failed') /\ threshold' = capacity' * LoadFactor
        BY <1>3, <2>1 DEF Allocated, Returns
    <2>3. UNCHANGED status /\ failed' \in BOOLEAN /\ (failed => failed')
        BY <1>2, <1>3 DEF Returns
    <2> QED
        BY <1>1, <2>2, <2>3, TableKeeps
<1>4. CASE /\ ~Has(Grown[Index(k, GrownTo)], k)
           /\ Allocated(PushedFront(Grown, <<k, v>>), GrownTo)
           /\ size' = size + 1
           /\ Returns(<<"inserted">>)
    <2>1. IsTable(PushedFront(Grown, <<k, v>>), GrownTo, size + 1, failed)
        BY <1>1, <1>4, PushedIs
    <2>2. IsTable(nodes', capacity', size', failed') /\ threshold' = capacity' * LoadFactor
        BY <1>4, <2>1 DEF Allocated, Returns
    <2>3. UNCHANGED status /\ failed' \in BOOLEAN /\ (failed => failed')
        BY <1>2, <1>4 DEF Returns
    <2> QED
        BY <1>1, <2>2, <2>3, TableKeeps
<1>5. CASE /\ Allocated(Lost(k), GrownTo)
           /\ Fails(<<"error">>)
           /\ UNCHANGED size
    <2>1. IsTable(Lost(k), GrownTo, size, TRUE)
        BY <1>1, LostIs
    <2>2. IsTable(nodes', capacity', size', failed') /\ threshold' = capacity' * LoadFactor
        BY <1>5, <2>1 DEF Allocated, Fails
    <2>3. UNCHANGED status /\ failed' \in BOOLEAN /\ (failed => failed')
        BY <1>5 DEF Fails
    <2> QED
        BY <1>1, <2>2, <2>3, TableKeeps
<1> QED
    BY <1>3, <1>4, <1>5, InsertIs

LEMMA InsertGrowFailsStep == IInv /\ InsertGrowFails => IInv'
<1> SUFFICES ASSUME IInv, InsertGrowFails PROVE IInv'
    OBVIOUS
<1>1. failed' /\ failed' \in BOOLEAN /\ UNCHANGED fields /\ status' = "wild"
    BY DEF InsertGrowFails
<1> QED
    BY <1>1, EndKeeps

LEMMA InsertAssertsStep == IInv /\ InsertAsserts => IInv'
<1> SUFFICES ASSUME IInv, InsertAsserts PROVE IInv'
    OBVIOUS
<1>1. state \in {"array", "null"} /\ (state = "array" => size > capacity)
    BY DEF InsertAsserts, Call
<1>2. failed
    <2>1. CASE state = "null"
        BY <2>1 DEF IInv
    <2>2. CASE state = "array"
        <3>1. Covered(Held, size, capacity, failed) /\ size \in Nat /\ capacity \in Nat
            BY <2>2, ArrayIs
        <3>2. ~ (size <= capacity)
            BY <1>1, <2>2, <3>1
        <3> QED
            BY <3>1, <3>2 DEF Covered
    <2> QED
        BY <1>1, <2>1, <2>2
<1>3. failed' /\ failed' \in BOOLEAN /\ UNCHANGED fields /\ status' = "asserted"
    BY <1>2 DEF InsertAsserts, Ends, IInv
<1> QED
    BY <1>3, EndKeeps

\* What ht_erase leaves in the array.
Erased(k) == WithoutKey(nodes, capacity, k)

LEMMA ErasedIs ==
    ASSUME IInv, state = "array", NEW k \in Key, Has(Chain(k), k)
    PROVE  /\ Table(Erased(k)) /\ IsArray(Erased(k), capacity)
           /\ HeldIn(Erased(k)) = Without(Held, k)
           /\ \E e \in Held : e[1] = k
           /\ size # 0
           /\ IsTable(Erased(k), capacity, size - 1, failed)
           /\ size = 1 => Without(Held, k) = {}
<1> DEFINE new == Erased(k)
           H   == Held
<1>1. /\ Table(nodes) /\ IsArray(nodes, capacity) /\ HeldIn(nodes) = H
      /\ capacity \in Nat /\ capacity >= MinCapacity /\ size \in Nat
      /\ Covered(H, size, capacity, failed) /\ Functional(H)
    BY ArrayIs DEF Held
<1> HIDE DEF H
<1>2. Table(new) /\ IsArray(new, capacity) /\ HeldIn(new) = {e \in H : e[1] # k}
    <2>1. Has(nodes[Index(k, capacity)], k)
        BY DEF Chain
    <2>2. Removes(WithoutKey(nodes, capacity, k), nodes, capacity, k)
        BY <1>1, <2>1, TableUnlinked, Zenon
    <2> QED
        BY <1>1, <2>2 DEF Erased, Removes, new
<1> HIDE DEF new
<1>3. HeldIn(new) = Without(H, k)
    BY <1>2 DEF Without
<1>4. PICK x \in H : x[1] = k
    BY <1>1, HasInTable DEF Chain
<1>5. IsFiniteSet(H) /\ Cardinality(H) <= size
    BY <1>1 DEF Covered
<1>6. /\ IsFiniteSet(Without(H, k))
      /\ Cardinality(Without(H, k)) = Cardinality(H) - 1
      /\ Cardinality(H) \in Nat \ {0}
      /\ Cardinality(H) - 1 = 0 => Without(H, k) = {}
    BY <1>1, <1>4, <1>5, WithoutOne
<1>7. size # 0 /\ (size = 1 => Without(H, k) = {}) /\ size - 1 \in Nat
    BY <1>1, <1>5, <1>6
<1>8. Covered(HeldIn(new), size - 1, capacity, failed)
    BY <1>1, <1>3, <1>6, <1>7 DEF Covered
<1> QED
    BY <1>1, <1>2, <1>3, <1>4, <1>7, <1>8 DEF IsTable, new, H

\* ht_erase when the key is there, by its three outcomes.
EraseCap == IF size = 1 THEN Resized(0) ELSE capacity

LEMMA EraseIs ==
    ASSUME NEW k, Erase(k)
    PROVE  \/ /\ Call({"array"})
              /\ ~Has(Chain(k), k)
              /\ Returns(<<"not found">>)
              /\ UNCHANGED fields
           \/ /\ Call({"array"})
              /\ Has(Chain(k), k)
              /\ size' = size - 1
              /\ \/ /\ nodes' = Erased(k)
                    /\ Returns(<<"erased">>)
                    /\ UNCHANGED <<state, capacity, threshold>>
                 \/ /\ EraseCap # capacity
                    /\ Allocated(EmptyArray(EraseCap), EraseCap)
                    /\ Returns(<<"erased">>)
                    /\ UNCHANGED state
                 \/ NoArray /\ Fails(<<"error">>)
    BY DEF Erase, Erased, WithoutKey, Chain, EraseCap

LEMMA EraseCapIs ==
    ASSUME IInv, state = "array", EraseCap # capacity
    PROVE  size = 1 /\ EraseCap \in Nat /\ EraseCap >= MinCapacity
<1>1. size = 1 /\ EraseCap = Resized(0)
    BY DEF EraseCap
<1>2. Resized(0) \in Nat /\ Resized(0) >= MinCapacity
    BY ArrayIs, ResizedIs, 0 \in Nat
<1> QED
    BY <1>1, <1>2

LEMMA EraseStep == IInv /\ (\E k \in Key : Erase(k)) => IInv'
<1> SUFFICES ASSUME IInv, NEW k \in Key, Erase(k) PROVE IInv'
    OBVIOUS
<1>1. CASE /\ Call({"array"})
           /\ Returns(<<"not found">>)
           /\ UNCHANGED fields
    BY <1>1, ReturnKeeps DEF Returns
<1>2. failed \in BOOLEAN
    BY DEF IInv
<1>3. CASE /\ Call({"array"})
           /\ Has(Chain(k), k)
           /\ size' = size - 1
           /\ nodes' = Erased(k)
           /\ Returns(<<"erased">>)
           /\ UNCHANGED <<state, capacity, threshold>>
    <2>1. state = "array" /\ state' = "array"
        BY <1>3 DEF Call
    <2>2. IsTable(Erased(k), capacity, size - 1, failed)
        BY <1>3, <2>1, ErasedIs
    <2>3. IsTable(nodes', capacity', size', failed')
        BY <1>3, <2>2 DEF Returns
    <2>4. threshold' = capacity' * LoadFactor
        BY <1>3 DEF IInv, IsTyped
    <2>5. UNCHANGED status /\ failed' \in BOOLEAN /\ (failed => failed')
        BY <1>2, <1>3 DEF Returns
    <2> QED
        BY <2>1, <2>3, <2>4, <2>5, TableKeeps
<1>4. CASE /\ Call({"array"})
           /\ Has(Chain(k), k)
           /\ size' = size - 1
           /\ EraseCap # capacity
           /\ Allocated(EmptyArray(EraseCap), EraseCap)
           /\ Returns(<<"erased">>)
           /\ UNCHANGED state
    <2>1. state = "array" /\ state' = "array"
        BY <1>4 DEF Call
    <2>2. size = 1 /\ EraseCap \in Nat /\ EraseCap >= MinCapacity
        BY <1>4, <2>1, EraseCapIs
    <2>3. IsTable(EmptyArray(EraseCap), EraseCap, 0, failed)
        BY <2>2, EmptyIsTable
    <2>4. size' = 0
        BY <1>4, <2>2
    <2>5. IsTable(nodes', capacity', size', failed') /\ threshold' = capacity' * LoadFactor
        BY <1>4, <2>3, <2>4 DEF Allocated, Returns
    <2>6. UNCHANGED status /\ failed' \in BOOLEAN /\ (failed => failed')
        BY <1>2, <1>4 DEF Returns
    <2> QED
        BY <2>1, <2>5, <2>6, TableKeeps
<1>5. CASE /\ Call({"array"})
           /\ Has(Chain(k), k)
           /\ size' = size - 1
           /\ NoArray /\ Fails(<<"error">>)
    <2>1. state = "array"
        BY <1>5 DEF Call
    <2>2. size # 0 /\ size \in Nat
        BY <1>5, <2>1, ErasedIs, ArrayIs
    <2>3. size' \in Nat /\ failed' = TRUE /\ UNCHANGED status
        BY <1>5, <2>2 DEF Fails
    <2> QED
        BY <1>5, <2>3, LossKeeps
<1> QED
    BY <1>1, <1>3, <1>4, <1>5, EraseIs

LEMMA EraseFailsStep == IInv /\ (\E k \in Key : EraseFails(k)) => IInv'
<1> SUFFICES ASSUME IInv, NEW k \in Key, EraseFails(k) PROVE IInv'
    OBVIOUS
<1>1. state \in {"array", "null"} /\ (state = "array" => Has(Chain(k), k) /\ size - 1 > capacity)
    BY DEF EraseFails, Call
<1>2. failed
    <2>1. CASE state = "null"
        BY <2>1 DEF IInv
    <2>2. CASE state = "array"
        <3>1. Covered(Held, size, capacity, failed) /\ size \in Nat /\ capacity \in Nat
            BY <2>2, ArrayIs
        <3>2. ~ (size <= capacity)
            BY <1>1, <2>2, <3>1
        <3> QED
            BY <3>1, <3>2 DEF Covered
    <2> QED
        BY <1>1, <2>1, <2>2
<1>3. failed' /\ failed' \in BOOLEAN /\ UNCHANGED fields /\ status' \in {"asserted", "wild"}
    BY <1>2 DEF EraseFails, Ends, IInv
<1> QED
    BY <1>3, EndKeeps

LEMMA QueryStep ==
    IInv /\ ((\E k \in Key : HasKey(k) \/ Lookup(k)) \/ IsEmpty) => IInv'
<1> SUFFICES ASSUME IInv, (\E k \in Key : HasKey(k) \/ Lookup(k)) \/ IsEmpty PROVE IInv'
    OBVIOUS
<1>1. CASE UNCHANGED <<fields, status, failed>>
    BY <1>1, ReturnKeeps
<1>2. CASE Call({"null"}) /\ \E how \in {"asserted", "wild"} : Ends(how)
    <2>1. failed' /\ failed' \in BOOLEAN /\ UNCHANGED fields /\ status' \in {"asserted", "wild"}
        BY <1>2 DEF Ends, IInv, Call
    <2> QED
        BY <2>1, EndKeeps
<1> QED
    BY <1>1, <1>2 DEF HasKey, Lookup, IsEmpty, Returns

LEMMA NextKeeps == IInv /\ [Next]_vars => IInv'
<1> SUFFICES ASSUME IInv, [Next]_vars PROVE IInv'
    OBVIOUS
<1>1. CASE \E cap \in Capacities : Setup(cap)
    BY <1>1, SetupStep
<1>2. CASE \E cap \in Capacities : Reserve(cap)
    BY <1>2, ReserveStep
<1>3. CASE \E k \in Key, v \in Value : Insert(k, v)
    BY <1>3, InsertStep
<1>4. CASE (\E k \in Key : HasKey(k) \/ Lookup(k)) \/ IsEmpty
    BY <1>4, QueryStep
<1>5. CASE \E k \in Key : Erase(k)
    BY <1>5, EraseStep
<1>6. CASE \E k \in Key : EraseFails(k)
    BY <1>6, EraseFailsStep
<1>7. CASE InsertGrowFails
    BY <1>7, InsertGrowFailsStep
<1>8. CASE InsertAsserts
    BY <1>8, InsertAssertsStep
<1>9. CASE Destroy
    BY <1>9, DestroyStep
<1>10. CASE Clear
    BY <1>10, ClearStep
<1>11. CASE UNCHANGED vars
    BY <1>11, ReturnKeeps DEF vars
<1> QED
    BY <1>1, <1>2, <1>3, <1>4, <1>5, <1>6, <1>7, <1>8, <1>9, <1>10, <1>11, Zenon DEF Next

LEMMA InvariantHolds == Spec => []IInv
    BY InitHolds, NextKeeps, PTL DEF Spec

-----------------------------------------------------------------------------
\* For all keys, capacities and calls, the fields keep their types and only an
\* array has chains.
THEOREM TypeCorrect == Spec => []TypeOK
<1>1. IInv => TypeOK
    <2> SUFFICES ASSUME IInv PROVE TypeOK
        OBVIOUS
    <2>1. IsTyped
        BY Zenon DEF IInv
    <2>2. threshold \in Nat
        BY <2>1, Products DEF IsTyped
    <2>3. failed \in BOOLEAN
        BY Zenon DEF IInv
    <2>4. state # "array" => nodes = <<>>
        BY Zenon DEF IInv
    <2>5. nodes \in Seq(Seq(Key \X Value))
        <3>1. CASE state = "array"
            BY <3>1, ArrayIs DEF Table, Arrays, Chains, Entry
        <3>2. CASE state # "array"
            BY <2>4, <3>2
        <3> QED
            BY <3>1, <3>2
    <2> QED
        BY <2>1, <2>2, <2>3, <2>4, <2>5, Zenon DEF TypeOK, IsTyped
<1> QED
    BY <1>1, InvariantHolds, PTL

\* Through growth, rehashing and failing calls each entry is in the chain of
\* its hash, each key is there once, and size covers the entries.
THEOREM ChainsWellFormed == Spec => []WellFormed
<1>1. IInv => WellFormed
    BY ArrayIs DEF WellFormed, Table, IsArray, Covered
<1> QED
    BY <1>1, InvariantHolds, PTL

\* No call of ht_insert or ht_erase trips an assertion, or reaches through a
\* NULL array, before malloc has failed.
THEOREM EndsOnlyAfterFailure == Spec => []NeverEnds
<1>1. IInv => NeverEnds
    BY Zenon DEF IInv
<1> QED
    BY <1>1, InvariantHolds, PTL

-----------------------------------------------------------------------------
(***************************************************************************)
(* The map.                                                                *)
(***************************************************************************)
KeysOf(held) == {e[1] : e \in held}

LEMMA MapOfIs ==
    ASSUME NEW held, Functional(held)
    PROVE  /\ DOMAIN MapOf(held) = KeysOf(held)
           /\ \A e \in held : MapOf(held)[e[1]] = e[2]
<1>1. DOMAIN MapOf(held) = KeysOf(held)
    BY DEF MapOf, KeysOf
<1>2. ASSUME NEW e \in held PROVE MapOf(held)[e[1]] = e[2]
    <2> DEFINE x == CHOOSE f \in held : f[1] = e[1]
    <2>1. x \in held /\ x[1] = e[1]
        OBVIOUS
    <2>2. x = e
        BY <2>1 DEF Functional
    <2>3. MapOf(held)[e[1]] = x[2]
        BY DEF MapOf
    <2> QED
        BY <2>2, <2>3
<1> QED
    BY <1>1, <1>2

LEMMA MapOfEmpty ==
    ASSUME NEW held, Functional(held)
    PROVE  MapOf(held) = [k \in {} |-> k] <=> held = {}
<1>1. DOMAIN MapOf(held) = KeysOf(held)
    BY MapOfIs
<1>2. ASSUME held = {} PROVE MapOf(held) = [k \in {} |-> k]
    <2>1. KeysOf(held) = {}
        BY <1>2 DEF KeysOf
    <2> QED
        BY <2>1 DEF MapOf, KeysOf
<1>3. ASSUME MapOf(held) = [k \in {} |-> k] PROVE held = {}
    <2>1. KeysOf(held) = {}
        BY <1>1, <1>3
    <2> QED
        BY <2>1 DEF KeysOf
<1> QED
    BY <1>2, <1>3

LEMMA MapOfUpdated ==
    ASSUME NEW held \in SUBSET Entry, Functional(held), NEW k, NEW v
    PROVE  MapOf(Without(held, k) \cup {<<k, v>>})
               = [x \in DOMAIN MapOf(held) \cup {k} |-> IF x = k THEN v ELSE MapOf(held)[x]]
<1> DEFINE new == Without(held, k) \cup {<<k, v>>}
           old == MapOf(held)
           map == MapOf(new)
<1>1. DOMAIN old = KeysOf(held) /\ \A e \in held : old[e[1]] = e[2]
    BY MapOfIs
<1>2. Functional(new)
    BY DEF Functional, Without
<1>3. DOMAIN map = KeysOf(new) /\ \A e \in new : map[e[1]] = e[2]
    BY <1>2, MapOfIs
<1>4. KeysOf(new) = KeysOf(held) \cup {k}
    <2> DEFINE x == <<k, v>>
    <2>1. x[1] = k
        OBVIOUS
    <2> HIDE DEF x
    <2>2. KeysOf(Without(held, k) \cup {x}) = KeysOf(held) \cup {k}
        BY <2>1 DEF KeysOf, Without
    <2> QED
        BY <2>2 DEF x
<1>5. map = [x \in KeysOf(new) |-> map[x]]
    BY DEF MapOf, KeysOf
<1>6. ASSUME NEW x \in KeysOf(new) PROVE map[x] = IF x = k THEN v ELSE old[x]
    <2>1. CASE x = k
        <3>1. <<k, v>> \in new /\ <<k, v>>[1] = k /\ <<k, v>>[2] = v
            OBVIOUS
        <3> QED
            BY <1>3, <2>1, <3>1
    <2>2. CASE x # k
        <3>1. PICK e \in held : e[1] = x
            BY <1>4, <2>2 DEF KeysOf
        <3>2. e \in new
            BY <2>2, <3>1 DEF Without
        <3> QED
            BY <1>1, <1>3, <2>2, <3>1, <3>2
    <2> QED
        BY <2>1, <2>2
<1> HIDE DEF map, old, new
<1>7. map = [x \in DOMAIN old \cup {k} |-> IF x = k THEN v ELSE old[x]]
    BY <1>1, <1>4, <1>5, <1>6
<1> QED
    BY <1>7 DEF map, old, new

LEMMA MapOfWithout ==
    ASSUME NEW held, Functional(held), NEW k
    PROVE  MapOf(Without(held, k)) = [x \in DOMAIN MapOf(held) \ {k} |-> MapOf(held)[x]]
<1> DEFINE new == Without(held, k)
           old == MapOf(held)
           map == MapOf(new)
<1>1. DOMAIN old = KeysOf(held) /\ \A e \in held : old[e[1]] = e[2]
    BY MapOfIs
<1>2. Functional(new)
    BY DEF Functional, Without
<1>3. DOMAIN map = KeysOf(new) /\ \A e \in new : map[e[1]] = e[2]
    BY <1>2, MapOfIs
<1>4. KeysOf(new) = KeysOf(held) \ {k}
    BY DEF KeysOf, Without
<1>5. map = [x \in KeysOf(new) |-> map[x]]
    BY DEF MapOf, KeysOf
<1>6. ASSUME NEW x \in KeysOf(new) PROVE map[x] = old[x]
    <2>1. PICK e \in new : e[1] = x
        BY DEF KeysOf
    <2>2. e \in held
        BY <2>1 DEF Without
    <2> QED
        BY <1>1, <1>3, <2>1, <2>2
<1> HIDE DEF map, old, new
<1>7. map = [x \in DOMAIN old \ {k} |-> old[x]]
    BY <1>1, <1>4, <1>5, <1>6
<1> QED
    BY <1>7 DEF map, old, new

-----------------------------------------------------------------------------
(***************************************************************************)
(* The steps of the map.                                                   *)
(***************************************************************************)
\* What the table answers is what the map has.
LEMMA Answers ==
    ASSUME IInv, state = "array", NEW k \in Key
    PROVE  /\ Has(Chain(k), k) <=> k \in DOMAIN MapOf(Held)
           /\ Has(Chain(k), k) => Chain(k)[Where(Chain(k), k)][2] = MapOf(Held)[k]
<1> DEFINE chain == Chain(k)
           w     == Where(chain, k)
           H     == Held
<1>1. /\ Table(nodes) /\ IsArray(nodes, capacity) /\ HeldIn(nodes) = H /\ Functional(H)
    BY ArrayIs DEF Held
<1>2. DOMAIN MapOf(H) = KeysOf(H) /\ \A e \in H : MapOf(H)[e[1]] = e[2]
    BY <1>1, MapOfIs
<1> HIDE DEF H
<1>3. /\ Index(k, capacity) \in 1 .. capacity
      /\ Has(chain, k) <=> \E e \in H : e[1] = k
    BY <1>1, HasInTable DEF Chain
<1>4. chain \in Chains /\ \A e \in ToSet(chain) : e \in H
    <2>1. chain = nodes[Index(k, capacity)]
        BY DEF Chain
    <2>2. chain \in Chains
        BY <1>1, <1>3, <2>1 DEF IsArray, Arrays
    <2>3. \A e \in ToSet(chain) : e \in H
        BY <1>1, <1>3, <2>1, HeldIsSome
    <2> QED
        BY <2>2, <2>3
<1> HIDE DEF chain
<1>5. ASSUME Has(chain, k) PROVE chain[w][2] = MapOf(H)[k]
    <2>1. w \in DOMAIN chain /\ chain[w][1] = k
        BY <1>4, <1>5, WhereIs
    <2>2. chain[w] \in H
        BY <1>4, <2>1 DEF ToSet
    <2> QED
        BY <1>2, <2>1, <2>2
<1>6. Has(chain, k) <=> k \in DOMAIN MapOf(H)
    BY <1>2, <1>3 DEF KeysOf
<1> QED
    BY <1>5, <1>6 DEF chain, H

DictionaryStep == [Dictionary!Next]_(Dictionary!vars)

\* Calls that leave the entries and the result alone.
LEMMA HeldStays ==
    ASSUME UNCHANGED <<Held, result>>
    PROVE  DictionaryStep
    BY DEF DictionaryStep, Dictionary!vars

LEMMA HeldGoes ==
    ASSUME Held' = {}, UNCHANGED result
    PROVE  DictionaryStep
<1>1. Functional({})
    BY DEF Functional
<1>2. MapOf({}) = [k \in {} |-> k]
    BY <1>1, MapOfEmpty
<1>3. Dictionary!Reset
    BY <1>2 DEF Dictionary!Reset
<1> QED
    BY <1>3 DEF DictionaryStep, Dictionary!Next

LEMMA NoneHeld == HeldIn(<<>>) = {}
    BY DEF HeldIn

LEMMA SetupMaps ==
    ASSUME IInv, ~failed', NEW cap \in Capacities, Setup(cap) PROVE DictionaryStep
<1> DEFINE c == Larger(cap, MinCapacity)
<1>1. c \in Nat /\ c # 0
    BY LargerIs, MinAssumption
<1>2. nodes' = EmptyArray(c) /\ UNCHANGED result
    BY DEF Setup, Allocated, Fails
<1>3. Held' = {}
    BY <1>1, <1>2, TableEmpty DEF Held
<1> QED
    BY <1>2, <1>3, HeldGoes

LEMMA DestroyMaps ==
    ASSUME IInv, Destroy PROVE DictionaryStep
<1>1. CASE nodes' = <<>> /\ UNCHANGED result
    <2>1. Held' = {}
        BY <1>1, NoneHeld DEF Held
    <2> QED
        BY <1>1, <2>1, HeldGoes
<1>2. CASE Ends("asserted")
    BY <1>2, HeldStays DEF Ends, fields, Held
<1> QED
    BY <1>1, <1>2 DEF Destroy

LEMMA ClearMaps ==
    ASSUME IInv, ~failed', Clear PROVE DictionaryStep
<1>1. CASE nodes' = EmptyArray(MinCapacity) /\ UNCHANGED result
    <2>1. Held' = {}
        BY <1>1, TableEmpty, MinAssumption DEF Held
    <2> QED
        BY <1>1, <2>1, HeldGoes
<1>2. CASE Ends("asserted")
    BY <1>2, HeldStays DEF Ends, fields, Held
<1> QED
    BY <1>1, <1>2 DEF Clear, Allocated, Fails

LEMMA ReserveMaps ==
    ASSUME IInv, ~failed', NEW m \in Capacities, Reserve(m) PROVE DictionaryStep
<1> DEFINE cap == Resized(m \div LoadFactor)
<1>1. CASE UNCHANGED <<fields, result>>
    BY <1>1, HeldStays DEF fields, Held
<1>2. CASE /\ Call({"array"}) /\ m > threshold
           /\ Allocated(Rehashed(cap), cap) /\ UNCHANGED result
    <2>1. state = "array"
        BY <1>2 DEF Call
    <2>2. threshold = capacity * LoadFactor /\ m \in Nat
        BY CapacityAssumption DEF IInv, IsTyped
    <2>3. m \div LoadFactor \in Nat
        BY <1>2, <2>1, <2>2, ArrayIs, ReservesMore
    <2>4. cap \in Nat /\ cap # 0
        BY <2>1, <2>3, ArrayIs, ResizedIs
    <2> HIDE DEF cap
    <2>5. Rehashed(cap) \in Holding(cap, Held)
        BY <2>1, <2>4, ArrayIs, RehashedHolds
    <2>6. Held' = Held
        BY <1>2, <2>5, HoldingIs DEF Allocated, Held
    <2> QED
        BY <1>2, <2>6, HeldStays
<1>3. CASE Ends("asserted")
    BY <1>3, HeldStays DEF Ends, fields, Held
<1> QED
    BY <1>1, <1>2, <1>3 DEF Reserve, Fails

LEMMA InsertMaps ==
    ASSUME IInv, ~failed', NEW k \in Key, NEW v \in Value, Insert(k, v)
    PROVE  DictionaryStep
<1> DEFINE H == Held
<1>1. state = "array" /\ size <= capacity
    BY InsertIs
<1>2. /\ Functional(H) /\ H \in SUBSET Entry
    <2>1. Table(nodes) /\ Functional(Held)
        BY <1>1, ArrayIs
    <2> QED
        BY <2>1, HeldAreEntries DEF Table, Held
<1>3. DOMAIN MapOf(H) = KeysOf(H)
    BY <1>2, MapOfIs
<1>4. CASE /\ Has(Grown[Index(k, GrownTo)], k)
           /\ Allocated(Updated(k, v), GrownTo)
           /\ Returns(<<"updated">>)
    <2>1. HeldIn(Updated(k, v)) = Without(H, k) \cup {<<k, v>>} /\ \E e \in H : e[1] = k
        BY <1>1, <1>4, UpdatedIs
    <2>2. Held' = Without(H, k) \cup {<<k, v>>}
        BY <1>4, <2>1 DEF Allocated, Held
    <2>3. k \in DOMAIN MapOf(H)
        BY <1>3, <2>1 DEF KeysOf
    <2>4. result' = <<"updated">>
        BY <1>4 DEF Returns
    <2> HIDE DEF H
    <2>5. MapOf(Held') = [x \in DOMAIN MapOf(H) \cup {k} |-> IF x = k THEN v ELSE MapOf(H)[x]]
        BY <1>2, <2>2, MapOfUpdated
    <2>6. Dictionary!Insert(k, v)
        BY <2>3, <2>4, <2>5 DEF Dictionary!Insert, H
    <2> QED
        BY <2>6 DEF DictionaryStep, Dictionary!Next
<1>5. CASE /\ ~Has(Grown[Index(k, GrownTo)], k)
           /\ Allocated(PushedFront(Grown, <<k, v>>), GrownTo)
           /\ Returns(<<"inserted">>)
    <2>1. HeldIn(PushedFront(Grown, <<k, v>>)) = H \cup {<<k, v>>} /\ ~\E e \in H : e[1] = k
        BY <1>1, <1>5, PushedIs
    <2>2. H = Without(H, k)
        BY <2>1 DEF Without
    <2>3. Held' = Without(H, k) \cup {<<k, v>>}
        BY <1>5, <2>1, <2>2 DEF Allocated, Held
    <2>4. k \notin DOMAIN MapOf(H)
        BY <1>3, <2>1 DEF KeysOf
    <2>5. result' = <<"inserted">>
        BY <1>5 DEF Returns
    <2> HIDE DEF H
    <2>6. MapOf(Held') = [x \in DOMAIN MapOf(H) \cup {k} |-> IF x = k THEN v ELSE MapOf(H)[x]]
        BY <1>2, <2>3, MapOfUpdated
    <2>7. Dictionary!Insert(k, v)
        BY <2>4, <2>5, <2>6 DEF Dictionary!Insert, H
    <2> QED
        BY <2>7 DEF DictionaryStep, Dictionary!Next
<1> QED
    BY <1>4, <1>5, InsertIs DEF Fails

LEMMA EraseMaps ==
    ASSUME IInv, ~failed', NEW k \in Key, Erase(k)
    PROVE  DictionaryStep
<1> DEFINE H == Held
<1>1. state = "array"
    BY DEF Erase, Call
<1>2. Functional(H) /\ DOMAIN MapOf(H) = KeysOf(H)
    BY <1>1, ArrayIs, MapOfIs
<1>3. Has(Chain(k), k) <=> k \in DOMAIN MapOf(H)
    BY <1>1, Answers
<1>4. MapOf(Without(H, k)) = [x \in DOMAIN MapOf(H) \ {k} |-> MapOf(H)[x]]
    BY <1>2, MapOfWithout
<1>5. CASE ~Has(Chain(k), k) /\ Returns(<<"not found">>) /\ UNCHANGED fields
    <2>1. Held' = H /\ result' = <<"not found">>
        BY <1>5 DEF Returns, fields, Held
    <2> HIDE DEF H
    <2>2. Without(H, k) = H
        BY <1>2, <1>3, <1>5 DEF Without, KeysOf
    <2>3. Dictionary!Erase(k)
        BY <1>3, <1>4, <1>5, <2>1, <2>2 DEF Dictionary!Erase, H
    <2> QED
        BY <2>3 DEF DictionaryStep, Dictionary!Next
<1>6. CASE /\ Has(Chain(k), k) /\ Returns(<<"erased">>)
           /\ \/ nodes' = Erased(k)
              \/ EraseCap # capacity /\ Allocated(EmptyArray(EraseCap), EraseCap)
    <2>1. HeldIn(Erased(k)) = Without(H, k) /\ (size = 1 => Without(H, k) = {})
        BY <1>1, <1>6, ErasedIs
    <2>2. Held' = Without(H, k)
        <3>1. CASE nodes' = Erased(k)
            BY <2>1, <3>1 DEF Held
        <3>2. CASE EraseCap # capacity /\ Allocated(EmptyArray(EraseCap), EraseCap)
            <4>1. size = 1 /\ EraseCap \in Nat /\ EraseCap # 0
                BY <1>1, <3>2, EraseCapIs, MinAssumption
            <4>2. HeldIn(EmptyArray(EraseCap)) = {}
                BY <4>1, TableEmpty
            <4> QED
                BY <2>1, <3>2, <4>1, <4>2 DEF Allocated, Held
        <3> QED
            BY <1>6, <3>1, <3>2
    <2>3. result' = <<"erased">>
        BY <1>6 DEF Returns
    <2> HIDE DEF H
    <2>4. Dictionary!Erase(k)
        BY <1>3, <1>4, <1>6, <2>2, <2>3 DEF Dictionary!Erase, H
    <2> QED
        BY <2>4 DEF DictionaryStep, Dictionary!Next
<1> QED
    BY <1>5, <1>6, EraseIs DEF Fails

LEMMA QueryMaps ==
    ASSUME IInv, ~failed', (\E k \in Key : HasKey(k) \/ Lookup(k)) \/ IsEmpty
    PROVE  DictionaryStep
<1>1. CASE \E how \in {"asserted", "wild"} : Ends(how)
    BY <1>1, HeldStays DEF Ends, fields, Held
<1>2. ASSUME NEW k \in Key, Call({"array"}), UNCHANGED fields,
             Returns(<<"contains", Has(Chain(k), k)>>)
      PROVE  DictionaryStep
    <2>1. state = "array" /\ Held' = Held
        BY <1>2 DEF Call, fields, Held
    <2>2. Has(Chain(k), k) <=> k \in DOMAIN MapOf(Held)
        BY <2>1, Answers
    <2>3. Has(Chain(k), k) \in BOOLEAN
        BY DEF Has
    <2>4. Has(Chain(k), k) = (k \in DOMAIN MapOf(Held))
        BY <2>2, <2>3
    <2>5. Dictionary!Contains(k)
        BY <1>2, <2>1, <2>4 DEF Returns, Dictionary!Contains
    <2> QED
        BY <2>5 DEF DictionaryStep, Dictionary!Next
<1>3. ASSUME NEW k \in Key, Call({"array"}), UNCHANGED fields,
             Returns(IF Has(Chain(k), k) THEN <<"value", Chain(k)[Where(Chain(k), k)][2]>>
                     ELSE <<"no value">>)
      PROVE  DictionaryStep
    <2>1. state = "array" /\ Held' = Held
        BY <1>3 DEF Call, fields, Held
    <2>2. /\ Has(Chain(k), k) <=> k \in DOMAIN MapOf(Held)
          /\ Has(Chain(k), k) => Chain(k)[Where(Chain(k), k)][2] = MapOf(Held)[k]
        BY <2>1, Answers
    <2>3. Dictionary!Lookup(k)
        BY <1>3, <2>1, <2>2 DEF Returns, Dictionary!Lookup
    <2> QED
        BY <2>3 DEF DictionaryStep, Dictionary!Next
<1>4. CASE IsEmpty
    <2>1. CASE state = "array"
        <3>1. Functional(Held) /\ Covered(Held, size, capacity, failed) /\ ~failed
            <4>1. ~failed
                BY <1>4 DEF IsEmpty, Returns
            <4> QED
                BY <2>1, <4>1, ArrayIs
        <3>2. size = Cardinality(Held) /\ IsFiniteSet(Held)
            BY <3>1 DEF Covered
        <3>3. size = 0 <=> Held = {}
            BY <3>2, FS_EmptySet
        <3>4. Held = {} <=> MapOf(Held) = [k \in {} |-> k]
            BY <3>1, MapOfEmpty
        <3>5. (size = 0) = (MapOf(Held) = [k \in {} |-> k])
            BY <3>3, <3>4
        <3>6. Held' = Held
            BY <1>4 DEF IsEmpty, fields, Held
        <3>7. Dictionary!IsEmpty
            BY <1>4, <3>5, <3>6 DEF IsEmpty, Returns, Dictionary!IsEmpty
        <3> QED
            BY <3>7 DEF DictionaryStep, Dictionary!Next
    <2>2. CASE state = "null"
        BY <1>4, <2>2 DEF IInv, IsEmpty, Returns
    <2> QED
        BY <1>4, <2>1, <2>2 DEF IsEmpty, Call
<1> QED
    BY <1>1, <1>2, <1>3, <1>4 DEF HasKey, Lookup

LEMMA MapStep == IInv /\ [Next]_vars => (~failed' => DictionaryStep)
<1> SUFFICES ASSUME IInv, [Next]_vars, ~failed' PROVE DictionaryStep
    OBVIOUS
<1>1. ASSUME NEW cap \in Capacities, Setup(cap) PROVE DictionaryStep
    BY <1>1, SetupMaps
<1>2. ASSUME NEW cap \in Capacities, Reserve(cap) PROVE DictionaryStep
    BY <1>2, ReserveMaps
<1>3. ASSUME NEW k \in Key, NEW v \in Value, Insert(k, v) PROVE DictionaryStep
    BY <1>3, InsertMaps
<1>4. CASE (\E k \in Key : HasKey(k) \/ Lookup(k)) \/ IsEmpty
    BY <1>4, QueryMaps
<1>5. ASSUME NEW k \in Key, Erase(k) PROVE DictionaryStep
    BY <1>5, EraseMaps
<1>6. ASSUME NEW k \in Key, EraseFails(k) PROVE DictionaryStep
    BY <1>6, HeldStays DEF EraseFails, Ends, fields, Held
<1>7. CASE InsertGrowFails
    BY <1>7 DEF InsertGrowFails
<1>8. CASE InsertAsserts
    BY <1>8, HeldStays DEF InsertAsserts, Ends, fields, Held
<1>9. CASE Destroy
    BY <1>9, DestroyMaps
<1>10. CASE Clear
    BY <1>10, ClearMaps
<1>11. CASE UNCHANGED vars
    BY <1>11, HeldStays DEF vars, fields, Held
<1> QED
    BY <1>1, <1>2, <1>3, <1>4, <1>5, <1>6, <1>7, <1>8, <1>9, <1>10, <1>11, Zenon DEF Next

\* Until malloc fails every call behaves as on a finite map: through growth and
\* rehashing no entry is lost, moved out of reach or doubled, and contains,
\* lookup, erase and is_empty answer as the map does.
THEOREM MapImplemented == Spec => ImplementsMap
<1>1. Init => Dictionary!Init
    <2> SUFFICES ASSUME Init PROVE Dictionary!Init
        OBVIOUS
    <2>1. Held = {} /\ result = <<"setup">>
        BY NoneHeld DEF Init, Held
    <2>2. Functional({})
        BY DEF Functional
    <2>3. MapOf({}) = [k \in {} |-> k]
        BY <2>2, MapOfEmpty
    <2> QED
        BY <2>1, <2>3 DEF Dictionary!Init
<1>2. IInv /\ [Next]_vars => (~failed' => [Dictionary!Next]_(Dictionary!vars))
    BY MapStep DEF DictionaryStep
<1> QED
    BY <1>1, <1>2, InitHolds, NextKeeps, PTL DEF Spec, ImplementsMap
=============================================================================
