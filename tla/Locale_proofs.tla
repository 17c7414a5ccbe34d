---------------------------- MODULE Locale_proofs ----------------------------
(***************************************************************************)
(* Theorems about Locale, for any files, entries and names: what is in the *)
(* hash, how a localisation ends while the loader may run, and what a      *)
(* position rests on.  The matrix of the equations is singular just when   *)
(* the nodes are in one line.                                              *)
(***************************************************************************)
EXTENDS Locale, SequenceTheorems, FiniteSetTheorems, WellFoundedInduction, TLAPS

-----------------------------------------------------------------------------
(***************************************************************************)
(* Numbers.                                                                *)
(***************************************************************************)
\* A set of numbers that is not empty has a least one.
LEMMA Least ==
    ASSUME NEW S \in SUBSET Nat, S # {}
    PROVE  \E n \in S : \A m \in S : n <= m
<1> DEFINE R == OpToRel(<, Nat)
<1>1. IsWellFoundedOn(R, Nat)
    BY NatLessThanWellFounded
<1>2. \A x, y \in Nat : <<y, x>> \in R <=> y < x
    BY DEF OpToRel
<1> HIDE DEF R
<1>3. PICK n \in S : \A y \in S : ~ (<<y, n>> \in R)
    BY <1>1, WFMin
<1>4. ASSUME NEW m \in S PROVE n <= m
    <2>1. n \in Nat /\ m \in Nat
        OBVIOUS
    <2>2. ~ (m < n)
        BY <1>2, <1>3, <2>1
    <2> QED
        BY <2>1, <2>2
<1> QED
    BY <1>4

\* Induction: a set with 0 that contains the successor of each of its numbers.
LEMMA Induct ==
    ASSUME NEW S \in SUBSET Nat, 0 \in S, \A n \in S : n + 1 \in S
    PROVE  S = Nat
<1> SUFFICES ASSUME Nat \ S # {} PROVE FALSE
    OBVIOUS
<1>1. PICK n \in Nat \ S : \A m \in Nat \ S : n <= m
    BY Least
<1>2. n # 0 /\ n - 1 \in Nat
    BY <1>1
<1>3. n - 1 \in S
    BY <1>1, <1>2
<1>4. n - 1 + 1 = n
    BY <1>1
<1> QED
    BY <1>1, <1>3, <1>4

-----------------------------------------------------------------------------
(***************************************************************************)
(* Sums.                                                                   *)
(***************************************************************************)
\* the sum of the first n of the terms
Sum(f, n) ==
    LET sum[i \in 0 .. n] == IF i = 0 THEN 0 ELSE sum[i - 1] + f[i]
    IN sum[n]

IsSums(g, f, n) == g = [i \in 0 .. n |-> IF i = 0 THEN 0 ELSE g[i - 1] + f[i]]

LEMMA SumsExist ==
    ASSUME NEW f, NEW n \in Nat
    PROVE  \E g : IsSums(g, f, n)
<1> DEFINE S == {j \in Nat : \E g : IsSums(g, f, j)}
<1>1. 0 \in S
    <2>1. IsSums([i \in 0 .. 0 |-> 0], f, 0)
        BY DEF IsSums
    <2> QED
        BY <2>1
<1>2. ASSUME NEW j \in S PROVE j + 1 \in S
    <2>1. PICK g : IsSums(g, f, j)
        OBVIOUS
    <2> DEFINE x == g[j] + f[j + 1]
               h == [i \in 0 .. j + 1 |-> IF i = j + 1 THEN x ELSE g[i]]
    <2>2. ASSUME NEW i \in 0 .. j + 1
          PROVE  h[i] = IF i = 0 THEN 0 ELSE h[i - 1] + f[i]
        <3> HIDE DEF x
        <3>1. CASE i = j + 1
            <4>1. i - 1 = j /\ i - 1 # j + 1 /\ i - 1 \in 0 .. j + 1 /\ i # 0
                BY <3>1
            <4>2. h[i] = x /\ h[i - 1] = g[j]
                BY <3>1, <4>1
            <4> QED
                BY <3>1, <4>1, <4>2 DEF x
        <3>2. CASE i # j + 1
            <4>1. i \in 0 .. j
                BY <3>2
            <4>2. h[i] = IF i = 0 THEN 0 ELSE g[i - 1] + f[i]
                BY <2>1, <3>2, <4>1 DEF IsSums
            <4>3. i # 0 => i - 1 \in 0 .. j + 1 /\ i - 1 # j + 1
                BY <4>1
            <4> QED
                BY <4>2, <4>3
        <3> QED
            BY <3>1, <3>2
    <2>3. IsSums(h, f, j + 1)
        BY <2>2 DEF IsSums
    <2> QED
        BY <2>3
<1>3. S = Nat
    BY <1>1, <1>2, Induct
<1> QED
    BY <1>3

LEMMA SumAt ==
    ASSUME NEW f, NEW n \in Nat
    PROVE  \E g : IsSums(g, f, n) /\ Sum(f, n) = g[n]
<1> DEFINE sum == CHOOSE h : h = [i \in 0 .. n |-> IF i = 0 THEN 0 ELSE h[i - 1] + f[i]]
<1>1. Sum(f, n) = sum[n]
    BY DEF Sum
<1>2. \E g : g = [i \in 0 .. n |-> IF i = 0 THEN 0 ELSE g[i - 1] + f[i]]
    <2>1. PICK g : IsSums(g, f, n)
        BY SumsExist
    <2>2. g = [i \in 0 .. n |-> IF i = 0 THEN 0 ELSE g[i - 1] + f[i]]
        BY <2>1 DEF IsSums
    <2> QED
        BY <2>2
<1>3. sum = [i \in 0 .. n |-> IF i = 0 THEN 0 ELSE sum[i - 1] + f[i]]
    BY <1>2
<1>4. IsSums(sum, f, n)
    BY <1>3 DEF IsSums
<1> QED
    BY <1>1, <1>4

LEMMA SumsAgree ==
    ASSUME NEW f, NEW n \in Nat, NEW g, NEW h, IsSums(g, f, n), IsSums(h, f, n + 1)
    PROVE  g[n] = h[n]
<1> DEFINE S == {j \in Nat : j <= n => g[j] = h[j]}
<1>1. 0 \in S
    <2>1. 0 \in 0 .. n /\ 0 \in 0 .. n + 1
        OBVIOUS
    <2> QED
        BY <2>1 DEF IsSums
<1>2. ASSUME NEW j \in S PROVE j + 1 \in S
    <2>1. CASE j + 1 <= n
        <3>1. g[j] = h[j] /\ j + 1 \in 0 .. n /\ j + 1 \in 0 .. n + 1
              /\ j + 1 # 0 /\ j + 1 - 1 = j
            BY <2>1
        <3>2. g[j + 1] = g[j] + f[j + 1] /\ h[j + 1] = h[j] + f[j + 1]
            BY <3>1 DEF IsSums
        <3> QED
            BY <3>1, <3>2
    <2> QED
        BY <2>1
<1>3. S = Nat
    BY <1>1, <1>2, Induct
<1> QED
    BY <1>3

LEMMA Sums ==
    ASSUME NEW f
    PROVE  /\ Sum(f, 0) = 0
           /\ \A n \in Nat : Sum(f, n + 1) = Sum(f, n) + f[n + 1]
<1>1. Sum(f, 0) = 0
    <2>1. PICK g : IsSums(g, f, 0) /\ Sum(f, 0) = g[0]
        BY SumAt
    <2>2. 0 \in 0 .. 0
        OBVIOUS
    <2> QED
        BY <2>1, <2>2 DEF IsSums
<1>2. ASSUME NEW n \in Nat PROVE Sum(f, n + 1) = Sum(f, n) + f[n + 1]
    <2>1. PICK g : IsSums(g, f, n) /\ Sum(f, n) = g[n]
        BY SumAt
    <2>2. n + 1 \in Nat /\ n + 1 \in 0 .. n + 1 /\ n + 1 # 0 /\ n + 1 - 1 = n
        OBVIOUS
    <2>3. PICK h : IsSums(h, f, n + 1) /\ Sum(f, n + 1) = h[n + 1]
        BY <2>2, SumAt
    <2>4. g[n] = h[n]
        BY <2>1, <2>3, SumsAgree
    <2>5. h[n + 1] = h[n] + f[n + 1]
        BY <2>2, <2>3 DEF IsSums
    <2> QED
        BY <2>1, <2>3, <2>4, <2>5
<1> QED
    BY <1>1, <1>2

-----------------------------------------------------------------------------
(***************************************************************************)
(* The normal matrix of rows <<a[i], b[i]>> is singular just when the rows *)
(* are multiples of each other: adding a row adds to its determinant the   *)
(* sum of the squares of the cross products with the rows before.          *)
(***************************************************************************)
LEMMA Square == \A x \in Int : x * x \in Int /\ x * x >= 0 /\ (x * x = 0 <=> x = 0)
    OBVIOUS

LEMMA Product == \A x, y \in Int : x * y \in Int /\ x - y \in Int /\ (x - y = 0 <=> x = y)
    OBVIOUS

LEMMA NonNegatives ==
    \A x, y \in Int : x >= 0 /\ y >= 0 =>
        x + y \in Int /\ x + y >= 0 /\ (x + y = 0 <=> x = 0 /\ y = 0)
    OBVIOUS

LEMMA CrossesGrow ==
    ASSUME NEW s \in Int, NEW t \in Int, NEW u \in Int,
           NEW p \in Int, NEW q \in Int, NEW a \in Int, NEW b \in Int
    PROVE  (s + a * a) * (q * q) - 2 * (p * q) * (t + a * b) + (u + b * b) * (p * p)
             = s * (q * q) - 2 * (p * q) * t + u * (p * p) + (a * q - b * p) * (a * q - b * p)
    OBVIOUS

LEMMA DeterminantGrows ==
    ASSUME NEW s \in Int, NEW t \in Int, NEW u \in Int, NEW a \in Int, NEW b \in Int
    PROVE  (s + a * a) * (u + b * b) - (t + a * b) * (t + a * b)
             = s * u - t * t + (s * (b * b) - 2 * (a * b) * t + u * (a * a))
    OBVIOUS

Products(n, a, b) == [i \in 1 .. n |-> a[i] * b[i]]
Dot(n, a, b, k) == Sum(Products(n, a, b), k)

LEMMA Dots ==
    ASSUME NEW n \in Nat, NEW a \in [1 .. n -> Int], NEW b \in [1 .. n -> Int]
    PROVE  /\ Dot(n, a, b, 0) = 0
           /\ \A k \in 0 .. n - 1 : Dot(n, a, b, k + 1) = Dot(n, a, b, k) + a[k + 1] * b[k + 1]
           /\ \A k \in 0 .. n : Dot(n, a, b, k) \in Int
<1> DEFINE d(k) == Dot(n, a, b, k)
<1>1. d(0) = 0
    BY Sums DEF Dot
<1>2. ASSUME NEW k \in 0 .. n - 1 PROVE d(k + 1) = d(k) + a[k + 1] * b[k + 1]
    <2>1. k + 1 \in 1 .. n /\ k \in Nat
        OBVIOUS
    <2>2. Products(n, a, b)[k + 1] = a[k + 1] * b[k + 1]
        BY <2>1 DEF Products
    <2> QED
        BY <2>1, <2>2, Sums DEF Dot
<1> HIDE DEF d
<1> DEFINE S == {k \in Nat : k <= n => d(k) \in Int}
<1>3. 0 \in S
    BY <1>1
<1>4. ASSUME NEW k \in S PROVE k + 1 \in S
    <2>1. CASE k + 1 <= n
        <3>1. k \in 0 .. n - 1 /\ k + 1 \in 1 .. n /\ d(k) \in Int
            BY <2>1
        <3>2. a[k + 1] \in Int /\ b[k + 1] \in Int
            BY <3>1
        <3>3. d(k + 1) \in Int
            BY <1>2, <3>1, <3>2
        <3> QED
            BY <3>3
    <2> QED
        BY <2>1
<1>5. S = Nat
    BY <1>3, <1>4, Induct
<1>6. \A k \in 0 .. n : d(k) \in Int
    BY <1>5
<1> QED
    BY <1>1, <1>2, <1>6 DEF d

\* the sum of the squares of the cross products of <<p, q>> with the first k rows
Crosses(n, a, b, p, q, k) ==
    Dot(n, a, a, k) * (q * q) - 2 * (p * q) * Dot(n, a, b, k) + Dot(n, b, b, k) * (p * p)

IsCrosses(c, a, b, p, q, k) ==
    c \in Int /\ c >= 0 /\ (c = 0 <=> \A i \in 1 .. k : a[i] * q = b[i] * p)

LEMMA CrossesVanish ==
    ASSUME NEW n \in Nat, NEW a \in [1 .. n -> Int], NEW b \in [1 .. n -> Int],
           NEW p \in Int, NEW q \in Int, NEW k \in 0 .. n
    PROVE  IsCrosses(Crosses(n, a, b, p, q, k), a, b, p, q, k)
<1> DEFINE c(h) == Crosses(n, a, b, p, q, h)
           Good(h) == /\ c(h) \in Int /\ c(h) >= 0
                      /\ c(h) = 0 <=> \A i \in 1 .. h : a[i] * q = b[i] * p
           S == {h \in Nat : h <= n => Good(h)}
<1>1. 0 \in S
    <2>1. c(0) = 0
        <3>1. Dot(n, a, a, 0) = 0 /\ Dot(n, a, b, 0) = 0 /\ Dot(n, b, b, 0) = 0
            BY Dots
        <3> QED
            BY <3>1 DEF Crosses
    <2> QED
        BY <2>1
<1>2. ASSUME NEW h \in S PROVE h + 1 \in S
    <2>1. CASE h + 1 <= n
        <3>1. h \in 0 .. n /\ h \in 0 .. n - 1 /\ h + 1 \in 1 .. n /\ h \in Nat
            BY <2>1
        <3>2. Good(h)
            BY <2>1, <3>1
        <3> DEFINE x == a[h + 1]
                   y == b[h + 1]
                   e == x * q - y * p
        <3>3. x \in Int /\ y \in Int
            BY <3>1
        <3>4. /\ Dot(n, a, a, h) \in Int /\ Dot(n, a, b, h) \in Int /\ Dot(n, b, b, h) \in Int
              /\ Dot(n, a, a, h + 1) = Dot(n, a, a, h) + x * x
              /\ Dot(n, a, b, h + 1) = Dot(n, a, b, h) + x * y
              /\ Dot(n, b, b, h + 1) = Dot(n, b, b, h) + y * y
            BY <3>1, Dots
        <3> HIDE DEF x, y
        <3>5. c(h + 1) = c(h) + e * e
            <4> DEFINE s == Dot(n, a, a, h)
                       t == Dot(n, a, b, h)
                       u == Dot(n, b, b, h)
            <4>1. c(h + 1) = (s + x * x) * (q * q) - 2 * (p * q) * (t + x * y)
                               + (u + y * y) * (p * p)
                BY <3>4, Zenon DEF Crosses
            <4>2. c(h) = s * (q * q) - 2 * (p * q) * t + u * (p * p)
                BY Zenon DEF Crosses
            <4>3. s \in Int /\ t \in Int /\ u \in Int
                BY <3>4
            <4> HIDE DEF s, t, u, c
            <4> QED
                BY <3>3, <4>1, <4>2, <4>3, CrossesGrow
        <3>6. e \in Int /\ (e = 0 <=> x * q = y * p)
            BY <3>3
        <3>7. e * e \in Int /\ e * e >= 0 /\ (e * e = 0 <=> e = 0)
            BY <3>6, Square
        <3> HIDE DEF c, e
        <3>8. /\ c(h + 1) \in Int /\ c(h + 1) >= 0
              /\ c(h + 1) = 0 <=> c(h) = 0 /\ e = 0
            BY <3>2, <3>5, <3>7
        <3>9. \A i \in 1 .. h + 1 : i \in 1 .. h \/ i = h + 1
            BY <3>1
        <3>10. 1 .. h \subseteq 1 .. h + 1 /\ h + 1 \in 1 .. h + 1
            BY <3>1
        <3>11. (\A i \in 1 .. h + 1 : a[i] * q = b[i] * p)
                 <=> (\A i \in 1 .. h : a[i] * q = b[i] * p) /\ x * q = y * p
            BY <3>9, <3>10 DEF x, y
        <3>12. Good(h + 1)
            BY <3>2, <3>6, <3>8, <3>11
        <3> QED
            BY <3>12
    <2> QED
        BY <2>1
<1>3. S = Nat
    BY <1>1, <1>2, Induct
<1> HIDE DEF Good
<1>4. Good(k)
    <2>1. k \in S /\ k <= n
        BY <1>3
    <2> QED
        BY <2>1
<1> QED
    BY <1>4 DEF Good, IsCrosses

LEMMA DeterminantVanishes ==
    ASSUME NEW n \in Nat, NEW a \in [1 .. n -> Int], NEW b \in [1 .. n -> Int]
    PROVE  Dot(n, a, a, n) * Dot(n, b, b, n) = Dot(n, a, b, n) * Dot(n, a, b, n)
             <=> \A i, j \in 1 .. n : a[i] * b[j] = b[i] * a[j]
<1> DEFINE d(k) == Dot(n, a, a, k) * Dot(n, b, b, k) - Dot(n, a, b, k) * Dot(n, a, b, k)
           Parallel(k) == \A i, j \in 1 .. k : a[i] * b[j] = b[i] * a[j]
           Good(k) == d(k) \in Int /\ d(k) >= 0 /\ (d(k) = 0 <=> Parallel(k))
           S == {k \in Nat : k <= n => Good(k)}
<1>1. 0 \in S
    <2>1. d(0) = 0
        <3>1. Dot(n, a, a, 0) = 0 /\ Dot(n, a, b, 0) = 0 /\ Dot(n, b, b, 0) = 0
            BY Dots
        <3> QED
            BY <3>1
    <2> QED
        BY <2>1
<1>2. ASSUME NEW k \in S PROVE k + 1 \in S
    <2>1. CASE k + 1 <= n
        <3>1. k \in 0 .. n /\ k \in 0 .. n - 1 /\ k + 1 \in 1 .. n /\ k \in Nat
            BY <2>1
        <3>2. Good(k)
            BY <2>1, <3>1
        <3> DEFINE x == a[k + 1]
                   y == b[k + 1]
                   c == Crosses(n, a, b, x, y, k)
        <3>3. x \in Int /\ y \in Int
            BY <3>1
        <3>4. /\ Dot(n, a, a, k) \in Int /\ Dot(n, a, b, k) \in Int /\ Dot(n, b, b, k) \in Int
              /\ Dot(n, a, a, k + 1) = Dot(n, a, a, k) + x * x
              /\ Dot(n, a, b, k + 1) = Dot(n, a, b, k) + x * y
              /\ Dot(n, b, b, k + 1) = Dot(n, b, b, k) + y * y
            BY <3>1, Dots
        <3> HIDE DEF x, y
        <3>5. d(k + 1) = d(k) + c
            <4> DEFINE s == Dot(n, a, a, k)
                       t == Dot(n, a, b, k)
                       u == Dot(n, b, b, k)
            <4>1. d(k + 1) = (s + x * x) * (u + y * y) - (t + x * y) * (t + x * y)
                BY <3>4, Zenon
            <4>2. d(k) = s * u - t * t
                BY Zenon
            <4>3. c = s * (y * y) - 2 * (x * y) * t + u * (x * x)
                BY Zenon DEF Crosses
            <4>4. s \in Int /\ t \in Int /\ u \in Int
                BY <3>4
            <4> HIDE DEF s, t, u, c, d
            <4> QED
                BY <3>3, <4>1, <4>2, <4>3, <4>4, DeterminantGrows
        <3>6. c \in Int /\ c >= 0 /\ (c = 0 <=> \A i \in 1 .. k : a[i] * y = b[i] * x)
            <4>1. IsCrosses(c, a, b, x, y, k)
                BY <3>1, <3>3, CrossesVanish
            <4> HIDE DEF c
            <4> QED
                BY <4>1 DEF IsCrosses
        <3> HIDE DEF c, d
        <3>7. /\ d(k + 1) \in Int /\ d(k + 1) >= 0
              /\ d(k + 1) = 0 <=> d(k) = 0 /\ c = 0
            <4>1. d(k) \in Int /\ d(k) >= 0 /\ c \in Int /\ c >= 0
                BY <3>2, <3>6
            <4>2. /\ d(k) + c \in Int /\ d(k) + c >= 0
                  /\ d(k) + c = 0 <=> d(k) = 0 /\ c = 0
                BY <4>1, NonNegatives
            <4> QED
                BY <3>5, <4>2, Zenon
        <3>8. Parallel(k + 1) <=> Parallel(k) /\ \A i \in 1 .. k : a[i] * y = b[i] * x
            <4>1. ASSUME Parallel(k + 1)
                  PROVE  Parallel(k) /\ \A i \in 1 .. k : a[i] * y = b[i] * x
                <5>1. 1 .. k \subseteq 1 .. k + 1 /\ k + 1 \in 1 .. k + 1
                    BY <3>1
                <5> QED
                    BY <4>1, <5>1 DEF x, y
            <4>2. ASSUME Parallel(k), \A i \in 1 .. k : a[i] * y = b[i] * x,
                         NEW i \in 1 .. k + 1, NEW j \in 1 .. k + 1
                  PROVE  a[i] * b[j] = b[i] * a[j]
                <5>1. \A l \in 1 .. k + 1 : l \in 1 .. k \/ l = k + 1
                    BY <3>1
                <5>2. 1 .. k + 1 \subseteq 1 .. n
                    BY <3>1
                <5>3. a[i] \in Int /\ b[i] \in Int /\ a[j] \in Int /\ b[j] \in Int
                    BY <5>2
                <5>4. CASE i \in 1 .. k /\ j \in 1 .. k
                    BY <4>2, <5>4
                <5>5. CASE i \in 1 .. k /\ j = k + 1
                    BY <4>2, <5>5 DEF x, y
                <5>6. CASE i = k + 1 /\ j \in 1 .. k
                    <6>1. a[j] * b[i] = b[j] * a[i]
                        BY <4>2, <5>6 DEF x, y
                    <6> QED
                        BY <5>3, <6>1
                <5>7. CASE i = k + 1 /\ j = k + 1
                    BY <5>3, <5>7
                <5> QED
                    BY <5>1, <5>4, <5>5, <5>6, <5>7
            <4> QED
                BY <4>1, <4>2
        <3> HIDE DEF Parallel
        <3>9. Good(k + 1)
            BY <3>2, <3>6, <3>7, <3>8
        <3> QED
            BY <3>9
    <2> QED
        BY <2>1
<1>3. S = Nat
    BY <1>1, <1>2, Induct
<1> HIDE DEF Good
<1>4. Good(n)
    <2>1. n \in S /\ n <= n
        BY <1>3
    <2> QED
        BY <2>1
<1> DEFINE s == Dot(n, a, a, n)
           t == Dot(n, a, b, n)
           u == Dot(n, b, b, n)
<1>5. s \in Int /\ t \in Int /\ u \in Int
    <2>1. n \in 0 .. n
        OBVIOUS
    <2> QED
        BY <2>1, Dots
<1>6. d(n) = 0 <=> Parallel(n)
    BY <1>4 DEF Good
<1>7. d(n) = s * u - t * t
    OBVIOUS
<1> HIDE DEF s, t, u, d, Parallel
<1>8. d(n) = 0 <=> s * u = t * t
    BY <1>5, <1>7, Product
<1> QED
    BY <1>6, <1>8 DEF s, t, u, Parallel

-----------------------------------------------------------------------------
(***************************************************************************)
(* Singular and Collinear.                                                 *)
(***************************************************************************)
LEMMA TotalIsSum ==
    ASSUME NEW n \in Nat, NEW f \in [1 .. n -> Int]
    PROVE  Solver!Total(f) = Sum(f, n)
<1>1. Len(f) = n
    OBVIOUS
<1> QED
    BY <1>1 DEF Solver!Total, Sum

\* the columns of the matrix
Across(coordinates, n) == [i \in 1 .. n |-> 2 * (coordinates[i].x - coordinates[n].x)]
Along(coordinates, n)  == [i \in 1 .. n |-> 2 * (coordinates[i].y - coordinates[n].y)]

LEMMA GramIsDot ==
    ASSUME NEW P \in Seq(Point), NEW n \in Nat, n = Len(P), n # 0
    PROVE  /\ Across(P, n) \in [1 .. n -> Int] /\ Along(P, n) \in [1 .. n -> Int]
           /\ Solver!Gram(P, 1, 1) = Dot(n, Across(P, n), Across(P, n), n)
           /\ Solver!Gram(P, 1, 2) = Dot(n, Across(P, n), Along(P, n), n)
           /\ Solver!Gram(P, 2, 2) = Dot(n, Along(P, n), Along(P, n), n)
<1> DEFINE a == Across(P, n)
           b == Along(P, n)
<1>1. \A i \in 1 .. n : P[i].x \in Int /\ P[i].y \in Int
    <2>1. \A i \in 1 .. n : P[i] \in Point
        OBVIOUS
    <2> QED
        BY <2>1 DEF Point
<1>2. n \in 1 .. n
    OBVIOUS
<1>3. a \in [1 .. n -> Int] /\ b \in [1 .. n -> Int]
    BY <1>1, <1>2 DEF Across, Along
<1>4. \A i \in 1 .. n : Solver!A(P, i)[1] = a[i] /\ Solver!A(P, i)[2] = b[i]
    BY DEF Solver!A, Across, Along
<1> HIDE DEF a, b
<1>5. /\ Products(n, a, a) \in [1 .. n -> Int] /\ Products(n, a, b) \in [1 .. n -> Int]
      /\ Products(n, b, b) \in [1 .. n -> Int]
    BY <1>3 DEF Products
<1>6. /\ Solver!Gram(P, 1, 1) = Solver!Total(Products(n, a, a))
      /\ Solver!Gram(P, 1, 2) = Solver!Total(Products(n, a, b))
      /\ Solver!Gram(P, 2, 2) = Solver!Total(Products(n, b, b))
    BY <1>4 DEF Solver!Gram, Products
<1> QED
    BY <1>3, <1>5, <1>6, TotalIsSum DEF Dot, a, b

LEMMA Twice ==
    \A u, v, w, z \in Int : (2 * u) * (2 * v) = (2 * w) * (2 * z) <=> u * v = w * z
    OBVIOUS

LEMMA AboutAPoint ==
    \A u, v, c, d, e, f \in Int :
        u * d = v * c /\ u * f = v * e /\ c * f = d * e
            => (c - u) * (f - v) = (d - v) * (e - u)
    OBVIOUS

\* nodes are in one line just when they are seen in one direction from the last one
LEMMA LineFromTheLast ==
    ASSUME NEW P \in Seq(Point), NEW n \in Nat, n = Len(P), n # 0
    PROVE  (\A i, j \in 1 .. n : Across(P, n)[i] * Along(P, n)[j]
                                   = Along(P, n)[i] * Across(P, n)[j])
             <=> Collinear({P[k] : k \in DOMAIN P})
<1>1. DOMAIN P = 1 .. n /\ n \in 1 .. n
    OBVIOUS
<1> DEFINE u(i) == P[i].x - P[n].x
           v(i) == P[i].y - P[n].y
<1>2. \A i \in 1 .. n : P[i].x \in Int /\ P[i].y \in Int
    <2>1. \A i \in 1 .. n : P[i] \in Point
        OBVIOUS
    <2> QED
        BY <2>1 DEF Point
<1>3. \A i \in 1 .. n : u(i) \in Int /\ v(i) \in Int
    BY <1>1, <1>2
<1>4. \A i \in 1 .. n : Across(P, n)[i] = 2 * u(i) /\ Along(P, n)[i] = 2 * v(i)
    BY DEF Across, Along
<1>5. ASSUME NEW i \in 1 .. n, NEW j \in 1 .. n
      PROVE  Across(P, n)[i] * Along(P, n)[j] = Along(P, n)[i] * Across(P, n)[j]
               <=> u(i) * v(j) = v(i) * u(j)
    <2>1. u(i) \in Int /\ v(i) \in Int /\ u(j) \in Int /\ v(j) \in Int
        BY <1>3
    <2> DEFINE ui == u(i)
               vi == v(i)
               uj == u(j)
               vj == v(j)
    <2>2. (2 * ui) * (2 * vj) = (2 * vi) * (2 * uj) <=> ui * vj = vi * uj
        <3>1. ui \in Int /\ vi \in Int /\ uj \in Int /\ vj \in Int
            BY <2>1, Zenon
        <3> HIDE DEF ui, vi, uj, vj
        <3> QED
            BY <3>1, Twice
    <2> QED
        BY <1>4, <2>2, Zenon
<1>6. ASSUME \A i, j \in 1 .. n : u(i) * v(j) = v(i) * u(j)
      PROVE  Collinear({P[k] : k \in DOMAIN P})
    <2> SUFFICES ASSUME NEW i \in 1 .. n, NEW j \in 1 .. n, NEW k \in 1 .. n
                 PROVE  (P[j].x - P[i].x) * (P[k].y - P[i].y)
                          = (P[j].y - P[i].y) * (P[k].x - P[i].x)
        BY <1>1 DEF Collinear
    <2>1. /\ u(i) \in Int /\ v(i) \in Int /\ u(j) \in Int /\ v(j) \in Int
          /\ u(k) \in Int /\ v(k) \in Int
        BY <1>3
    <2>2. u(i) * v(j) = v(i) * u(j) /\ u(i) * v(k) = v(i) * u(k) /\ u(j) * v(k) = v(j) * u(k)
        BY <1>6
    <2>3. /\ P[j].x - P[i].x = u(j) - u(i) /\ P[k].y - P[i].y = v(k) - v(i)
          /\ P[j].y - P[i].y = v(j) - v(i) /\ P[k].x - P[i].x = u(k) - u(i)
        <3>1. /\ P[i].x \in Int /\ P[i].y \in Int /\ P[j].x \in Int /\ P[j].y \in Int
              /\ P[k].x \in Int /\ P[k].y \in Int /\ P[n].x \in Int /\ P[n].y \in Int
            BY <1>1, <1>2
        <3> DEFINE a == P[i].x
                   b == P[i].y
                   c == P[n].x
                   d == P[n].y
        <3>2. \A l \in 1 .. n : P[l].x - a = (P[l].x - c) - (a - c)
                              /\ P[l].y - b = (P[l].y - d) - (b - d)
            <4> SUFFICES ASSUME NEW l \in 1 .. n
                         PROVE  /\ P[l].x - a = (P[l].x - c) - (a - c)
                                /\ P[l].y - b = (P[l].y - d) - (b - d)
                OBVIOUS
            <4> DEFINE e == P[l].x
                       f == P[l].y
            <4>1. /\ a \in Int /\ b \in Int /\ c \in Int /\ d \in Int
                  /\ e \in Int /\ f \in Int
                BY <1>2, <3>1
            <4> HIDE DEF a, b, c, d, e, f
            <4>2. e - a = (e - c) - (a - c) /\ f - b = (f - d) - (b - d)
                BY <4>1
            <4> QED
                BY <4>2 DEF e, f
        <3> QED
            BY <3>2, Zenon
    <2>4. (u(j) - u(i)) * (v(k) - v(i)) = (v(j) - v(i)) * (u(k) - u(i))
        <3> DEFINE ui == u(i)
                   vi == v(i)
                   uj == u(j)
                   vj == v(j)
                   uk == u(k)
                   vk == v(k)
        <3>1. /\ ui \in Int /\ vi \in Int /\ uj \in Int /\ vj \in Int /\ uk \in Int /\ vk \in Int
              /\ ui * vj = vi * uj /\ ui * vk = vi * uk /\ uj * vk = vj * uk
            BY <2>1, <2>2, Zenon
        <3>2. (uj - ui) * (vk - vi) = (vj - vi) * (uk - ui)
            <4> HIDE DEF ui, vi, uj, vj, uk, vk
            <4> QED
                BY <3>1, AboutAPoint
        <3> QED
            BY <3>2, Zenon
    <2> QED
        BY <2>3, <2>4
<1>7. ASSUME Collinear({P[k] : k \in DOMAIN P}), NEW i \in 1 .. n, NEW j \in 1 .. n
      PROVE  u(i) * v(j) = v(i) * u(j)
    <2>1. P[i] \in {P[k] : k \in DOMAIN P} /\ P[j] \in {P[k] : k \in DOMAIN P}
          /\ P[n] \in {P[k] : k \in DOMAIN P}
        BY <1>1
    <2> QED
        BY <1>7, <2>1, Zenon DEF Collinear
<1> QED
    BY <1>5, <1>6, <1>7

\* The unwrap of try_inverse panics for nodes in one line, and for no others.
LEMMA SingularInLine ==
    ASSUME NEW P \in Seq(Point), P # <<>>
    PROVE  Solver!Singular(P) <=> Collinear({P[k] : k \in DOMAIN P})
<1> DEFINE n == Len(P)
           a == Across(P, n)
           b == Along(P, n)
<1>1. n \in Nat /\ n = Len(P) /\ n # 0
    OBVIOUS
<1> HIDE DEF n
<1>2. Solver!Singular(P)
        <=> Dot(n, a, a, n) * Dot(n, b, b, n) = Dot(n, a, b, n) * Dot(n, a, b, n)
    BY <1>1, GramIsDot, Zenon DEF Solver!Singular, Solver!Sq
<1>3. a \in [1 .. n -> Int] /\ b \in [1 .. n -> Int]
    BY <1>1, GramIsDot
<1> HIDE DEF a, b
<1>4. Solver!Singular(P) <=> \A i, j \in 1 .. n : a[i] * b[j] = b[i] * a[j]
    BY <1>1, <1>2, <1>3, DeterminantVanishes
<1> QED
    BY <1>1, <1>4, LineFromTheLast, Zenon DEF a, b

-----------------------------------------------------------------------------
(***************************************************************************)
(* The inductive invariant.                                                *)
(***************************************************************************)
Readings == Seq(Name \X Reading)
IsHash(hash) == DOMAIN hash \subseteq Name /\ hash \in [DOMAIN hash -> Value]

TypeInv ==
    /\ TypeOK
    /\ node_floors \in Seq(Int \X Name) /\ clean_data \in Readings /\ coords \in Seq(Point)
    /\ IsHash(node_coords) /\ IsHash(coords_then)

\* f is the floor where most nodes are, the higher one of two
MostOn(floors, f) ==
    \A g \in 2 .. 4 :
        LET here  == Cardinality({k \in DOMAIN floors : floors[k][1] = f})
            there == Cardinality({k \in DOMAIN floors : floors[k][1] = g})
        IN  here > there \/ (here = there /\ f >= g)

\* the readings whose name was found on no other floor
OnFloor(floors, data, f) ==
    {k \in DOMAIN data :
        \A n \in DOMAIN floors : floors[n][2] = data[k][1] => floors[n][1] = f}

\* the readings above the cutoff whose name was found on no other floor
Passing(floors, data, f) ==
    {k \in OnFloor(floors, data, f) : data[k][2] > cutoff}

Taken(floors, data, f, clean) ==
    /\ MostOn(floors, f)
    /\ \A k \in OnFloor(floors, data, f) : data[k][2] # Malformed
    /\ Len(clean) = Cardinality(Passing(floors, data, f))
    /\ {clean[k] : k \in DOMAIN clean} = {data[k] : k \in Passing(floors, data, f)}

Qualified(floors, data, clean) ==
    /\ Len(floors) = Len(data) /\ Len(data) >= 3 /\ Len(clean) >= 3
    /\ \E f \in 2 .. 4 : Taken(floors, data, f, clean)

\* how far the localisation is
Progress ==
    /\ locale = "idle" => node_floors = <<>> /\ coords = <<>> /\ clean_data = <<>>
    /\ locale = "floors" => Len(raw_data) >= 3 /\ coords = <<>> /\ clean_data = <<>>
    /\ locale \in {"coords", "located"} => Qualified(node_floors, raw_data, clean_data)
    /\ locale = "located" => Len(coords) = Len(clean_data) /\ ~Solver!Singular(coords)

\* what was read is what the hash had when the localisation began
ReadThen(hash, floors, clean, points) ==
    /\ \A k \in DOMAIN floors :
          Readable(hash, floors[k][2]) /\ floors[k][1] = hash[floors[k][2]].z
    /\ \A k \in DOMAIN points :
          Readable(hash, clean[k][1]) /\ points[k] = hash[clean[k][1]]

Unraced ==
    ~reloaded =>
        /\ locale \in Asking => node_coords = coords_then
        /\ ReadThen(coords_then, node_floors, clean_data, coords)

IInv == TypeInv /\ Progress /\ Unraced

-----------------------------------------------------------------------------
(***************************************************************************)
(* What passes the filters.                                                *)
(***************************************************************************)
Passes(reading) == OnCommonFloor(reading) /\ AboveCutoff(reading)

KeptStep(g, data, k) ==
    IF k = 0 THEN <<>>
    ELSE IF Passes(data[k]) THEN Append(g[k - 1], data[k])
    ELSE g[k - 1]

IsKept(g, data, n) == g = [k \in 0 .. n |-> KeptStep(g, data, k)]

LEMMA KeptStepAgrees ==
    ASSUME NEW g, NEW h, NEW data, NEW k, k # 0 => g[k - 1] = h[k - 1]
    PROVE  KeptStep(g, data, k) = KeptStep(h, data, k)
    BY DEF KeptStep

LEMMA KeptExists ==
    ASSUME NEW data, NEW n \in Nat
    PROVE  \E g : IsKept(g, data, n)
<1> DEFINE S == {j \in Nat : \E g : IsKept(g, data, j)}
<1>1. 0 \in S
    <2>1. IsKept([k \in 0 .. 0 |-> <<>>], data, 0)
        BY DEF IsKept, KeptStep
    <2> QED
        BY <2>1
<1>2. ASSUME NEW j \in S PROVE j + 1 \in S
    <2>1. PICK g : IsKept(g, data, j)
        OBVIOUS
    <2> DEFINE x == KeptStep(g, data, j + 1)
               h == [k \in 0 .. j + 1 |-> IF k = j + 1 THEN x ELSE g[k]]
    <2>2. ASSUME NEW k \in 0 .. j + 1 PROVE h[k] = KeptStep(h, data, k)
        <3> HIDE DEF x
        <3>1. k # 0 => h[k - 1] = g[k - 1]
            OBVIOUS
        <3> HIDE DEF h
        <3>2. KeptStep(h, data, k) = KeptStep(g, data, k)
            BY <3>1, KeptStepAgrees
        <3>3. CASE k = j + 1
            BY <3>2, <3>3 DEF x, h
        <3>4. CASE k # j + 1
            <4>1. k \in 0 .. j
                BY <3>4
            <4>2. h[k] = g[k]
                BY <3>4 DEF h
            <4>3. g[k] = KeptStep(g, data, k)
                BY <2>1, <4>1, Zenon DEF IsKept
            <4> QED
                BY <3>2, <4>2, <4>3
        <3> QED
            BY <3>3, <3>4
    <2>3. IsKept(h, data, j + 1)
        BY <2>2, Zenon DEF IsKept
    <2> QED
        BY <2>3
<1>3. S = Nat
    BY <1>1, <1>2, Induct
<1> QED
    BY <1>3

LEMMA KeptAt ==
    ASSUME NEW data, NEW n \in Nat, n = Len(data)
    PROVE  \E g : IsKept(g, data, n) /\ Kept(data) = g[n]
<1> DEFINE kept == CHOOSE g : g = [k \in 0 .. Len(data) |->
                        IF k = 0 THEN <<>>
                        ELSE IF OnCommonFloor(data[k]) /\ AboveCutoff(data[k])
                             THEN Append(g[k - 1], data[k])
                        ELSE g[k - 1]]
<1>1. Kept(data) = kept[Len(data)]
    BY Zenon DEF Kept
<1>2. \E g : g = [k \in 0 .. Len(data) |->
                        IF k = 0 THEN <<>>
                        ELSE IF OnCommonFloor(data[k]) /\ AboveCutoff(data[k])
                             THEN Append(g[k - 1], data[k])
                        ELSE g[k - 1]]
    <2>1. PICK g : IsKept(g, data, n)
        BY KeptExists
    <2> QED
        BY <2>1, Zenon DEF IsKept, KeptStep, Passes
<1>3. kept = [k \in 0 .. Len(data) |->
                        IF k = 0 THEN <<>>
                        ELSE IF OnCommonFloor(data[k]) /\ AboveCutoff(data[k])
                             THEN Append(kept[k - 1], data[k])
                        ELSE kept[k - 1]]
    BY <1>2, Zenon
<1> HIDE DEF kept
<1>4. IsKept(kept, data, n)
    BY <1>3, Zenon DEF IsKept, KeptStep, Passes
<1> QED
    BY <1>1, <1>4

\* the numbers up to n of the readings that pass
Passed(data, n) == {k \in 1 .. n : Passes(data[k])}

\* The readings kept are those that pass, as many as there are, once each.
LEMMA KeptIsPassed ==
    ASSUME NEW data \in Readings, NEW n \in Nat, n = Len(data)
    PROVE  /\ Kept(data) \in Readings
           /\ Len(Kept(data)) = Cardinality(Passed(data, n))
           /\ {Kept(data)[i] : i \in DOMAIN Kept(data)} = {data[k] : k \in Passed(data, n)}
<1>1. PICK g : IsKept(g, data, n) /\ Kept(data) = g[n]
    BY KeptAt
<1>2. ASSUME NEW k \in 0 .. n PROVE g[k] = KeptStep(g, data, k)
    BY <1>1, Zenon DEF IsKept
<1> DEFINE Good(k) ==
               /\ g[k] \in Readings
               /\ Len(g[k]) = Cardinality(Passed(data, k))
               /\ {g[k][i] : i \in DOMAIN g[k]} = {data[i] : i \in Passed(data, k)}
           S == {k \in Nat : k <= n => Good(k)}
<1> HIDE DEF Good
<1>3. 0 \in S
    <2>1. g[0] = <<>> /\ Passed(data, 0) = {}
        BY <1>2 DEF KeptStep, Passed
    <2>2. <<>> \in Readings /\ Len(<<>>) = 0 /\ DOMAIN <<>> = {}
        BY DEF Readings
    <2>3. Good(0)
        BY <2>1, <2>2, FS_EmptySet DEF Good
    <2> QED
        BY <2>3
<1>4. ASSUME NEW k \in S PROVE k + 1 \in S
    <2>1. CASE k + 1 <= n
        <3>1. k + 1 \in 0 .. n /\ k + 1 # 0 /\ k + 1 - 1 = k /\ k + 1 \in 1 .. n
            BY <2>1
        <3>2. Good(k)
            BY <2>1
        <3> DEFINE r == data[k + 1]
        <3>3. r \in Name \X Reading
            BY <3>1 DEF Readings
        <3>4. IsFiniteSet(Passed(data, k))
            <4>1. Passed(data, k) \subseteq 1 .. k
                BY DEF Passed
            <4>2. IsFiniteSet(1 .. k)
                BY FS_Interval
            <4> QED
                BY <4>1, <4>2, FS_Subset
        <3>5. \A i \in 1 .. k + 1 : i \in 1 .. k \/ i = k + 1
            OBVIOUS
        <3>6. 1 .. k \subseteq 1 .. k + 1 /\ k + 1 \notin 1 .. k /\ k + 1 \in 1 .. k + 1
            OBVIOUS
        <3> HIDE DEF r
        <3>7. CASE Passes(r)
            <4>1. g[k + 1] = Append(g[k], r)
                <5>1. g[k + 1] = KeptStep(g, data, k + 1)
                    BY <1>2, <3>1
                <5> QED
                    BY <5>1, <3>1, <3>7 DEF KeptStep, r
            <4>2. Passed(data, k + 1) = Passed(data, k) \cup {k + 1}
                BY <3>5, <3>6, <3>7, Zenon DEF Passed, r
            <4>3. k + 1 \notin Passed(data, k)
                BY <3>6 DEF Passed
            <4>4. Cardinality(Passed(data, k + 1)) = Cardinality(Passed(data, k)) + 1
                BY <3>4, <4>2, <4>3, FS_AddElement
            <4> DEFINE s == g[k]
            <4>5. s \in Seq(Name \X Reading)
                BY <3>2 DEF Readings, Good
            <4> HIDE DEF s
            <4>6. /\ Append(s, r) \in Seq(Name \X Reading) /\ Len(Append(s, r)) = Len(s) + 1
                  /\ {Append(s, r)[i] : i \in DOMAIN Append(s, r)}
                       = {s[i] : i \in DOMAIN s} \cup {r}
                <5>1. /\ Append(s, r) \in Seq(Name \X Reading) /\ Len(Append(s, r)) = Len(s) + 1
                      /\ DOMAIN Append(s, r) = 1 .. Len(s) + 1 /\ DOMAIN s = 1 .. Len(s)
                      /\ \A i \in 1 .. Len(s) : Append(s, r)[i] = s[i]
                      /\ Append(s, r)[Len(s) + 1] = r /\ Len(s) \in Nat
                    BY <3>3, <4>5
                <5>2. /\ \A i \in 1 .. Len(s) + 1 : i \in 1 .. Len(s) \/ i = Len(s) + 1
                      /\ 1 .. Len(s) \subseteq 1 .. Len(s) + 1 /\ Len(s) + 1 \in 1 .. Len(s) + 1
                    BY <5>1
                <5> QED
                    BY <5>1, <5>2, Zenon
            <4>7. {data[i] : i \in Passed(data, k + 1)}
                    = {data[i] : i \in Passed(data, k)} \cup {r}
                BY <4>2 DEF r
            <4>8. Good(k + 1)
                BY <3>2, <4>1, <4>4, <4>6, <4>7 DEF Readings, s, Good
            <4> QED
                BY <4>8
        <3>8. CASE ~ Passes(r)
            <4>1. g[k + 1] = g[k]
                <5>1. g[k + 1] = KeptStep(g, data, k + 1)
                    BY <1>2, <3>1
                <5> QED
                    BY <5>1, <3>1, <3>8 DEF KeptStep, r
            <4>2. Passed(data, k + 1) = Passed(data, k)
                BY <3>5, <3>6, <3>8, Zenon DEF Passed, r
            <4>3. Good(k + 1)
                BY <3>2, <4>1, <4>2 DEF Good
            <4> QED
                BY <4>3
        <3> QED
            BY <3>7, <3>8
    <2> QED
        BY <2>1
<1>5. S = Nat
    BY <1>3, <1>4, Induct
<1>6. Good(n)
    <2>1. n \in S /\ n <= n
        BY <1>5
    <2> QED
        BY <2>1
<1> QED
    BY <1>1, <1>6, Zenon DEF Good

-----------------------------------------------------------------------------
(***************************************************************************)
(* The common floor.                                                       *)
(***************************************************************************)
Here(floors, f) == Cardinality({k \in DOMAIN floors : floors[k][1] = f})

LEMMA Tallies ==
    ASSUME NEW floors \in Seq(Int \X Name)
    PROVE  \A f : Here(floors, f) \in Nat
<1> SUFFICES ASSUME NEW f PROVE Here(floors, f) \in Nat
    OBVIOUS
<1>1. DOMAIN floors = 1 .. Len(floors) /\ Len(floors) \in Nat
    OBVIOUS
<1>2. IsFiniteSet(1 .. Len(floors))
    BY <1>1, FS_Interval
<1>3. {k \in DOMAIN floors : floors[k][1] = f} \subseteq 1 .. Len(floors)
    BY <1>1
<1>4. IsFiniteSet({k \in DOMAIN floors : floors[k][1] = f})
    BY <1>2, <1>3, FS_Subset
<1> QED
    BY <1>4, FS_CardinalityType DEF Here

LEMMA MostExists ==
    ASSUME NEW floors \in Seq(Int \X Name)
    PROVE  \E f \in 2 .. 4 : MostOn(floors, f)
<1> DEFINE a == Here(floors, 2)
           b == Here(floors, 3)
           c == Here(floors, 4)
<1>1. a \in Nat /\ b \in Nat /\ c \in Nat
    BY Tallies
<1>2. \A g \in 2 .. 4 : g = 2 \/ g = 3 \/ g = 4
    OBVIOUS
<1>3. \A f \in 2 .. 4 :
          MostOn(floors, f) <=>
            \A g \in 2 .. 4 : Here(floors, f) > Here(floors, g)
                              \/ (Here(floors, f) = Here(floors, g) /\ f >= g)
    BY DEF MostOn, Here
<1>4. CASE c >= b /\ c >= a
    <2>1. \A g \in 2 .. 4 : c > Here(floors, g) \/ (c = Here(floors, g) /\ 4 >= g)
        BY <1>1, <1>2, <1>4
    <2> QED
        BY <1>3, <2>1
<1>5. CASE b > c /\ b >= a
    <2>1. \A g \in 2 .. 4 : b > Here(floors, g) \/ (b = Here(floors, g) /\ 3 >= g)
        BY <1>1, <1>2, <1>5
    <2> QED
        BY <1>3, <2>1
<1>6. CASE a > b /\ a > c
    <2>1. \A g \in 2 .. 4 : a > Here(floors, g) \/ (a = Here(floors, g) /\ 2 >= g)
        BY <1>1, <1>2, <1>6
    <2> QED
        BY <1>3, <2>1
<1> QED
    BY <1>1, <1>4, <1>5, <1>6

LEMMA MostIsUnique ==
    ASSUME NEW floors \in Seq(Int \X Name), NEW f \in 2 .. 4, NEW g \in 2 .. 4,
           MostOn(floors, f), MostOn(floors, g)
    PROVE  f = g
<1> DEFINE a == Here(floors, f)
           b == Here(floors, g)
<1>1. a \in Nat /\ b \in Nat
    BY Tallies
<1>2. (a > b \/ (a = b /\ f >= g)) /\ (b > a \/ (b = a /\ g >= f))
    BY DEF MostOn, Here
<1> HIDE DEF a, b
<1> QED
    BY <1>1, <1>2

LEMMA CommonFloorIsMost ==
    ASSUME node_floors \in Seq(Int \X Name)
    PROVE  CommonFloor \in 2 .. 4 /\ MostOn(node_floors, CommonFloor)
<1>1. \A f \in 2 .. 4 :
          MostOn(node_floors, f) <=>
            \A g \in 2 .. 4 : Tally(f) > Tally(g) \/ (Tally(f) = Tally(g) /\ f >= g)
    BY Zenon DEF MostOn, Tally
<1> HIDE DEF Tally
<1>2. \E f \in 2 .. 4 : \A g \in 2 .. 4 : Tally(f) > Tally(g) \/ (Tally(f) = Tally(g) /\ f >= g)
    BY <1>1, MostExists
<1>3. /\ CommonFloor \in 2 .. 4
      /\ \A g \in 2 .. 4 : Tally(CommonFloor) > Tally(g)
                           \/ (Tally(CommonFloor) = Tally(g) /\ CommonFloor >= g)
    BY <1>2, Zenon DEF CommonFloor
<1> QED
    BY <1>1, <1>3

\* The rest of filter_floor and of qualify_data takes what passes on the common floor.
LEMMA KeptIsTaken ==
    ASSUME node_floors \in Seq(Int \X Name), raw_data \in Readings,
           Len(node_floors) = Len(raw_data), ~Garbled(raw_data)
    PROVE  /\ Kept(raw_data) \in Readings
           /\ \E f \in 2 .. 4 : Taken(node_floors, raw_data, f, Kept(raw_data))
<1> DEFINE n == Len(raw_data)
           f == CommonFloor
<1>1. n \in Nat /\ n = Len(raw_data) /\ DOMAIN raw_data = 1 .. n
    BY DEF Readings
<1>2. f \in 2 .. 4 /\ MostOn(node_floors, f)
    BY CommonFloorIsMost
<1>3. Passing(node_floors, raw_data, f) = Passed(raw_data, n)
    BY <1>1, Zenon DEF Passing, OnFloor, Passed, Passes, OnCommonFloor, AboveCutoff
<1>6. \A k \in OnFloor(node_floors, raw_data, f) : raw_data[k][2] # Malformed
    BY Zenon DEF OnFloor, OnCommonFloor, Garbled
<1> HIDE DEF n, f
<1>4. /\ Kept(raw_data) \in Readings
      /\ Len(Kept(raw_data)) = Cardinality(Passed(raw_data, n))
      /\ {Kept(raw_data)[i] : i \in DOMAIN Kept(raw_data)}
           = {raw_data[k] : k \in Passed(raw_data, n)}
    BY <1>1, KeptIsPassed
<1>5. Taken(node_floors, raw_data, f, Kept(raw_data))
    BY <1>2, <1>3, <1>4, <1>6, Zenon DEF Taken
<1> QED
    BY <1>2, <1>4, <1>5

\* the floors are those that the hash has for the readings
FloorsOf(floors, hash, data) ==
    /\ Len(floors) = Len(data)
    /\ \A k \in DOMAIN floors :
          floors[k][2] = data[k][1] /\ floors[k][1] = hash[data[k][1]].z

\* The floor with the most nodes is the one the specification asks for.
LEMMA BestIsMost ==
    ASSUME NEW hash, NEW floors \in Seq(Int \X Name), NEW data \in Readings,
           FloorsOf(floors, hash, data), NEW f \in 2 .. 4, MostOn(floors, f)
    PROVE  Best(hash, data) = f
<1>1. DOMAIN floors = DOMAIN data /\ \A k \in DOMAIN floors : floors[k][1] = hash[data[k][1]].z
    BY DEF Readings, FloorsOf
<1>2. \A g : Cardinality(NodesOn(hash, data, g)) = Here(floors, g)
    <2> SUFFICES ASSUME NEW g
                 PROVE  NodesOn(hash, data, g) = {k \in DOMAIN floors : floors[k][1] = g}
        BY Zenon DEF Here
    <2> QED
        BY <1>1 DEF NodesOn
<1> DEFINE Bests(h) ==
               \A g \in (2 .. 4) \ {h} :
                   LET here  == Cardinality(NodesOn(hash, data, h))
                       there == Cardinality(NodesOn(hash, data, g))
                   IN  here > there \/ (here = there /\ h > g)
<1>3. ASSUME NEW h \in 2 .. 4 PROVE Bests(h) <=> MostOn(floors, h)
    <2>1. Bests(h) <=> \A g \in (2 .. 4) \ {h} :
              Here(floors, h) > Here(floors, g) \/ (Here(floors, h) = Here(floors, g) /\ h > g)
        BY <1>2, Zenon
    <2>2. MostOn(floors, h) <=> \A g \in 2 .. 4 :
              Here(floors, h) > Here(floors, g) \/ (Here(floors, h) = Here(floors, g) /\ h >= g)
        BY Zenon DEF MostOn, Here
    <2>3. \A g \in 2 .. 4 : g # h => (h > g <=> h >= g)
        OBVIOUS
    <2>4. h >= h
        OBVIOUS
    <2> HIDE DEF Bests
    <2> QED
        BY <2>1, <2>2, <2>3, <2>4, Zenon
<1>4. Best(hash, data) = CHOOSE h \in 2 .. 4 : Bests(h)
    BY Zenon DEF Best
<1> HIDE DEF Bests
<1>5. \E h \in 2 .. 4 : Bests(h)
    BY <1>3
<1>6. Best(hash, data) \in 2 .. 4 /\ Bests(Best(hash, data))
    BY <1>4, <1>5, Zenon
<1> QED
    BY <1>3, <1>6, MostIsUnique

\* Where nothing moved, the readings taken are those heard well on that floor.
LEMMA PassingIsHeard ==
    ASSUME NEW hash, NEW floors \in Seq(Int \X Name), NEW data \in Readings,
           FloorsOf(floors, hash, data), NEW f
    PROVE  /\ OnFloor(floors, data, f) = NodesOn(hash, data, f)
           /\ Passing(floors, data, f) = HeardOn(hash, data, f)
<1>1. /\ DOMAIN floors = DOMAIN data
      /\ \A k \in DOMAIN floors :
            floors[k][2] = data[k][1] /\ floors[k][1] = hash[data[k][1]].z
    BY DEF Readings, FloorsOf
<1>2. ASSUME NEW k \in DOMAIN data
      PROVE  (\A n \in DOMAIN floors : floors[n][2] = data[k][1] => floors[n][1] = f)
               <=> hash[data[k][1]].z = f
    BY <1>1, Zenon
<1>3. OnFloor(floors, data, f) = NodesOn(hash, data, f)
    BY <1>2, Zenon DEF OnFloor, NodesOn
<1> QED
    BY <1>3, Zenon DEF Passing, HeardOn

-----------------------------------------------------------------------------
(***************************************************************************)
(* Type correctness.                                                       *)
(***************************************************************************)
LEMMA EntriesAreReadings ==
    \A e \in Entry \cup {<<>>} : e \in Readings
<1>1. <<>> \in Seq(Name \X Reading)
    OBVIOUS
<1> QED
    BY <1>1, EntryAssumption, Zenon DEF Readings

LEMMA FilesAreLines ==
    \A f \in File \cup {<<>>} : f \in Seq(Line)
<1>1. <<>> \in Seq(Line)
    OBVIOUS
<1> QED
    BY <1>1, FileAssumption, Zenon

\* a line with two fields names a node and its coordinates
LEMMA Fields ==
    ASSUME NEW f \in Line, Len(f) >= 2
    PROVE  f[1] \in Name /\ f[2] \in Value
<1>1. f \in Name \X Value \/ (\E n \in Name : f = <<n>>) \/ f = <<>>
    BY Zenon DEF Line
<1>2. \A n : Len(<<n>>) = 1
    OBVIOUS
<1>3. Len(<<>>) = 0
    OBVIOUS
<1>4. f \in Name \X Value
    <2>1. ASSUME NEW n \in Name, f = <<n>> PROVE FALSE
        BY <1>2, <2>1
    <2>2. f # <<>>
        BY <1>3
    <2> QED
        BY <1>1, <2>1, <2>2, Zenon
<1> QED
    BY <1>4

LEMMA EmptyIsHash == IsHash(Empty)
    BY DEF IsHash, Empty

LEMMA SetIsHash ==
    ASSUME NEW hash, IsHash(hash), NEW f \in Line
    PROVE  IsHash(HSet(hash, f))
<1>1. CASE Len(f) >= 2
    <2>1. f[1] \in Name /\ f[2] \in Value
        BY <1>1, Fields
    <2> DEFINE n == f[1]
               p == f[2]
               D == DOMAIN hash \cup {n}
               new == [m \in D |-> IF m = n THEN p ELSE hash[m]]
    <2>2. HSet(hash, f) = new
        BY <1>1 DEF HSet
    <2> HIDE DEF n, p
    <2>3. n \in Name /\ p \in Value
        BY <2>1 DEF n, p
    <2>4. DOMAIN new = D /\ D \subseteq Name /\ new \in [D -> Value]
        BY <2>3 DEF IsHash
    <2> QED
        BY <2>2, <2>4 DEF IsHash
<1>2. CASE ~ (Len(f) >= 2)
    BY <1>2 DEF HSet
<1> QED
    BY <1>1, <1>2

LEMMA PointOf ==
    ASSUME NEW hash, IsHash(hash), NEW n, Readable(hash, n)
    PROVE  n \in Name /\ hash[n] \in Point /\ hash[n].z \in Int
<1>1. n \in Name /\ hash[n] \in Point
    BY DEF IsHash, Readable, Value
<1> QED
    BY <1>1 DEF Point

LEMMA ReadingOf ==
    ASSUME NEW data \in Readings, NEW k \in DOMAIN data
    PROVE  data[k][1] \in Name /\ data[k][2] \in Reading
    BY DEF Readings

\* A list that grows by one.
LEMMA Appended ==
    ASSUME NEW T, NEW s \in Seq(T), NEW e \in T
    PROVE  /\ Append(s, e) \in Seq(T) /\ Len(Append(s, e)) = Len(s) + 1
           /\ DOMAIN Append(s, e) = DOMAIN s \cup {Len(s) + 1}
           /\ \A k \in DOMAIN s : Append(s, e)[k] = s[k]
           /\ Append(s, e)[Len(s) + 1] = e
<1>1. 1 .. Len(s) + 1 = (1 .. Len(s)) \cup {Len(s) + 1}
    BY LenProperties
<1> QED
    BY <1>1

LEMMA InitHolds == Init => IInv
<1> SUFFICES ASSUME Init PROVE IInv
    OBVIOUS
<1> USE DEF Init
<1>1. TypeOK
    <2>1. stream \in Entry \cup {<<>>} /\ raw_data \in Entry \cup {<<>>}
        OBVIOUS
    <2>2. loader \in {"idle", "load"} /\ content \in File \cup {<<>>} /\ line \in 1 .. Len(content) + 1
        OBVIOUS
    <2>3. locale \in {"idle"} \cup Asking \cup Ended
        OBVIOUS
    <2>4. Len(node_floors) <= Len(raw_data) /\ Len(coords) <= Len(clean_data)
        OBVIOUS
    <2>5. \A k \in DOMAIN node_floors : node_floors[k][2] = raw_data[k][1]
        OBVIOUS
    <2>6. reloaded \in BOOLEAN
        BY Zenon
    <2> QED
        BY <2>1, <2>2, <2>3, <2>4, <2>5, <2>6, Zenon DEF TypeOK
<1>2. TypeInv
    <2>1. node_floors \in Seq(Int \X Name) /\ clean_data \in Readings /\ coords \in Seq(Point)
        BY DEF Readings
    <2> QED
        BY <1>1, <2>1, EmptyIsHash, Zenon DEF TypeInv
<1>3. Progress
    BY DEF Progress
<1>4. Unraced
    <2>1. ReadThen(coords_then, node_floors, clean_data, coords)
        BY DEF ReadThen
    <2> QED
        BY <2>1 DEF Unraced, Asking
<1> QED
    BY <1>2, <1>3, <1>4 DEF IInv

LEMMA TypeStep ==
    ASSUME IInv, [Next]_vars
    PROVE  TypeInv'
<1>1. /\ stream \in Entry \cup {<<>>} /\ raw_data \in Entry \cup {<<>>}
      /\ loader \in {"idle", "load"} /\ content \in File \cup {<<>>}
      /\ line \in 1 .. Len(content) + 1
      /\ locale \in {"idle"} \cup Asking \cup Ended
      /\ Len(node_floors) <= Len(raw_data) /\ Len(coords) <= Len(clean_data)
      /\ \A k \in DOMAIN node_floors : node_floors[k][2] = raw_data[k][1]
      /\ reloaded \in BOOLEAN
      /\ node_floors \in Seq(Int \X Name) /\ clean_data \in Readings /\ coords \in Seq(Point)
      /\ IsHash(node_coords) /\ IsHash(coords_then)
    BY Zenon DEF IInv, TypeInv, TypeOK
<1>2. content \in Seq(Line) /\ Len(content) \in Nat /\ line \in Nat
    <2>1. content \in Seq(Line)
        BY <1>1, FilesAreLines
    <2>2. Len(content) \in Nat
        BY <2>1
    <2> QED
        BY <1>1, <2>1, <2>2
<1>3. raw_data \in Readings /\ stream \in Readings
    BY <1>1, EntriesAreReadings
<1>4. Empty = Empty /\ IsHash(Empty)
    BY EmptyIsHash
<1>5. TypeInv' <=>
      /\ stream' \in Entry \cup {<<>>} /\ raw_data' \in Entry \cup {<<>>}
      /\ loader' \in {"idle", "load"} /\ content' \in File \cup {<<>>}
      /\ line' \in 1 .. Len(content') + 1
      /\ locale' \in {"idle"} \cup Asking \cup Ended
      /\ Len(node_floors') <= Len(raw_data') /\ Len(coords') <= Len(clean_data')
      /\ \A k \in DOMAIN node_floors' : node_floors'[k][2] = raw_data'[k][1]
      /\ reloaded' \in BOOLEAN
      /\ node_floors' \in Seq(Int \X Name) /\ clean_data' \in Readings /\ coords' \in Seq(Point)
      /\ IsHash(node_coords') /\ IsHash(coords_then')
    BY Zenon DEF TypeInv, TypeOK, Asking, Ended, Errors, Readings, IsHash
<1>6. CASE Xadd
    <2>1. stream' \in Entry \cup {<<>>}
        BY <1>6 DEF Xadd
    <2> QED
        BY <1>1, <1>5, <1>6, <2>1, Zenon DEF Xadd, loader_vars, data_vars
<1>7. CASE LoadDel
    <2>1. content' \in Seq(Line) /\ content' \in File \cup {<<>>}
        BY <1>7, FileAssumption DEF LoadDel
    <2>2. line' \in 1 .. Len(content') + 1 /\ loader' \in {"idle", "load"}
        <3>1. Len(content') \in Nat
            BY <2>1
        <3> QED
            BY <1>7, <3>1 DEF LoadDel
    <2>3. reloaded' \in BOOLEAN
        BY <1>1, <1>7, Zenon DEF LoadDel
    <2>4. IsHash(node_coords')
        BY <1>4, <1>7, Zenon DEF LoadDel, Deleted
    <2> QED
        BY <1>1, <1>5, <1>7, <2>1, <2>2, <2>3, <2>4, Zenon DEF LoadDel, data_vars
<1>8. CASE LoadLine
    <2>1. line' \in 1 .. Len(content') + 1
        BY <1>2, <1>8 DEF LoadLine
    <2>2. reloaded' \in BOOLEAN
        BY <1>1, <1>8, Zenon DEF LoadLine
    <2>3. IsHash(node_coords')
        <3>1. line \in 1 .. Len(content)
            BY <1>1, <1>2, <1>8 DEF LoadLine
        <3>2. content[line] \in Line
            BY <1>2, <3>1
        <3>3. node_coords' = HSet(node_coords, content[line])
            BY <1>8 DEF LoadLine
        <3> QED
            BY <1>1, <3>2, <3>3, SetIsHash
    <2> QED
        BY <1>1, <1>5, <1>8, <2>1, <2>2, <2>3, Zenon DEF LoadLine, data_vars
<1>9. CASE LoadEnds
    <2>1. loader' \in {"idle", "load"}
        BY <1>9 DEF LoadEnds
    <2> QED
        BY <1>1, <1>5, <1>9, <2>1, Zenon DEF LoadEnds, data_vars
<1>10. CASE GetData
    <2>1. node_floors = <<>>
        BY <1>10 DEF GetData, IInv, Progress
    <2>2. locale' \in {"idle"} \cup Asking \cup Ended
        <3>1. locale' \in {"MACNotFound", "LackOfRSSIData", "floors", "unanswered"}
            BY <1>10, Zenon DEF GetData
        <3> QED
            BY <3>1 DEF Asking, Ended, Errors
    <2>3. reloaded' \in BOOLEAN
        BY <1>10, Zenon DEF GetData
    <2>4. Len(node_floors') <= Len(raw_data')
          /\ \A k \in DOMAIN node_floors' : node_floors'[k][2] = raw_data'[k][1]
        <3>1. node_floors' = <<>> /\ raw_data' \in Readings
            BY <1>3, <1>10, <2>1 DEF GetData
        <3>2. Len(raw_data') \in Nat
            BY <3>1 DEF Readings
        <3> QED
            BY <3>1, <3>2
    <2> QED
        BY <1>1, <1>5, <1>10, <2>2, <2>3, <2>4, Zenon DEF GetData, loader_vars
<1>11. CASE HGetFloor
    <2> DEFINE k == Len(node_floors) + 1
               name == raw_data[k][1]
    <2>1. Len(node_floors) \in Nat /\ k \in DOMAIN raw_data /\ name \in Name
        <3>1. Len(node_floors) \in Nat /\ k \in DOMAIN raw_data
            BY <1>1, <1>3, <1>11 DEF HGetFloor, Readings
        <3> QED
            BY <1>3, <3>1, ReadingOf
    <2>2. NextReading(raw_data, node_floors)[1] = name
        BY DEF NextReading
    <2> HIDE DEF k, name
    <2>3. locale' \in {"idle"} \cup Asking \cup Ended
        <3>1. locale' = locale \/ locale' = "panicked" \/ locale' = "unanswered"
            BY <1>11, Zenon DEF HGetFloor
        <3> QED
            BY <1>1, <3>1 DEF Ended
    <2>4. /\ Len(node_floors') <= Len(raw_data)
          /\ \A l \in DOMAIN node_floors' : node_floors'[l][2] = raw_data[l][1]
          /\ node_floors' \in Seq(Int \X Name)
        <3> DEFINE e == <<node_coords[name].z, name>>
        <3>1. CASE Readable(node_coords, name) /\ node_floors' = Append(node_floors, e)
            <4>1. node_floors' = Append(node_floors, e)
                BY <3>1
            <4>2. e \in Int \X Name /\ e[2] = name
                BY <1>1, <3>1, PointOf
            <4> HIDE DEF e
            <4>3. /\ node_floors' \in Seq(Int \X Name) /\ Len(node_floors') = k
                  /\ DOMAIN node_floors' = DOMAIN node_floors \cup {k}
                  /\ \A l \in DOMAIN node_floors : node_floors'[l] = node_floors[l]
                  /\ node_floors'[k] = e
                BY <1>1, <4>1, <4>2, Appended DEF k
            <4>4. Len(node_floors') <= Len(raw_data)
                BY <1>3, <2>1, <4>3 DEF Readings
            <4>5. \A l \in DOMAIN node_floors' : node_floors'[l][2] = raw_data[l][1]
                BY <1>1, <4>2, <4>3, Zenon DEF name
            <4> QED
                BY <4>3, <4>4, <4>5
        <3>2. CASE node_floors' = node_floors
            BY <1>1, <3>2
        <3> QED
            BY <1>11, <2>2, <3>1, <3>2, Zenon DEF HGetFloor
    <2> QED
        BY <1>1, <1>5, <1>11, <2>3, <2>4, Zenon DEF HGetFloor, loader_vars
<1>12. CASE Qualify
    <2>1. /\ locale = "floors" /\ Len(node_floors) = Len(raw_data)
          /\ ~Garbled(raw_data) => clean_data' = Kept(raw_data)
          /\ Garbled(raw_data) => clean_data' = clean_data
        BY <1>12, Zenon DEF Qualify
    <2>2. coords = <<>>
        BY <2>1 DEF IInv, Progress
    <2>3. clean_data' \in Readings
        BY <1>1, <1>3, <2>1, KeptIsTaken
    <2>4. locale' \in {"idle"} \cup Asking \cup Ended
        <3>1. locale' \in {"RSSINotInRange", "coords", "panicked"}
            BY <1>12, Zenon DEF Qualify
        <3> QED
            BY <3>1 DEF Asking, Ended, Errors
    <2>5. Len(coords') <= Len(clean_data')
        <3>1. coords' = <<>> /\ Len(clean_data') \in Nat
            BY <1>12, <2>2, <2>3 DEF Qualify, Readings
        <3> QED
            BY <3>1
    <2> QED
        BY <1>1, <1>5, <1>12, <2>3, <2>4, <2>5, Zenon DEF Qualify, loader_vars
<1>13. CASE HGetCoord
    <2> DEFINE name == NextReading(clean_data, coords)[1]
    <2>1. locale' \in {"idle"} \cup Asking \cup Ended
        <3>1. locale' = locale \/ locale' = "panicked" \/ locale' = "unanswered"
            BY <1>13, Zenon DEF HGetCoord
        <3> QED
            BY <1>1, <3>1 DEF Ended
    <2>2. Len(coords') <= Len(clean_data) /\ coords' \in Seq(Point)
        <3> DEFINE e == node_coords[name]
        <3>1. CASE Readable(node_coords, name) /\ coords' = Append(coords, e)
            <4>1. coords' = Append(coords, e)
                BY <3>1
            <4>2. e \in Point
                BY <1>1, <3>1, PointOf
            <4> HIDE DEF e
            <4>3. coords' \in Seq(Point) /\ Len(coords') = Len(coords) + 1
                BY <1>1, <4>1, <4>2
            <4>4. Len(coords) < Len(clean_data) /\ Len(coords) \in Nat /\ Len(clean_data) \in Nat
                BY <1>1, <1>13 DEF HGetCoord, Readings
            <4> QED
                BY <4>3, <4>4
        <3>2. CASE coords' = coords
            BY <1>1, <3>2
        <3> QED
            BY <1>13, <3>1, <3>2, Zenon DEF HGetCoord
    <2> QED
        BY <1>1, <1>5, <1>13, <2>1, <2>2, Zenon DEF HGetCoord, loader_vars
<1>14. CASE Solve
    <2>1. locale' \in {"idle"} \cup Asking \cup Ended
        <3>1. locale' \in {"panicked", "located"}
            BY <1>14, Zenon DEF Solve
        <3> QED
            BY <3>1 DEF Ended
    <2> QED
        BY <1>1, <1>5, <1>14, <2>1, Zenon DEF Solve, loader_vars, data_vars
<1>15. CASE Return
    <2>1. /\ raw_data' = <<>> /\ node_floors' = <<>> /\ clean_data' = <<>> /\ coords' = <<>>
          /\ coords_then' = Empty /\ locale' = "idle"
        BY <1>15 DEF Return
    <2>2. reloaded' \in BOOLEAN
        BY <1>15, Zenon DEF Return
    <2>3. /\ raw_data' \in Entry \cup {<<>>} /\ locale' \in {"idle"} \cup Asking \cup Ended
          /\ Len(node_floors') <= Len(raw_data') /\ Len(coords') <= Len(clean_data')
          /\ \A l \in DOMAIN node_floors' : node_floors'[l][2] = raw_data'[l][1]
          /\ node_floors' \in Seq(Int \X Name) /\ clean_data' \in Readings
          /\ coords' \in Seq(Point)
        BY <2>1 DEF Readings
    <2>4. IsHash(coords_then')
        BY <1>4, <2>1
    <2> QED
        BY <1>1, <1>5, <1>15, <2>2, <2>3, <2>4, Zenon DEF Return, loader_vars
<1>16. CASE UNCHANGED vars
    BY <1>1, <1>5, <1>16, Zenon DEF vars, loader_vars, data_vars
<1> QED
    BY <1>6, <1>7, <1>8, <1>9, <1>10, <1>11, <1>12, <1>13, <1>14, <1>15, <1>16, Zenon
    DEF Next, LocaleNext

-----------------------------------------------------------------------------
(***************************************************************************)
(* The other parts of the invariant.                                       *)
(***************************************************************************)
LEMMA ProgressStep ==
    ASSUME IInv, [Next]_vars
    PROVE  Progress'
<1>1. /\ locale = "idle" => node_floors = <<>> /\ coords = <<>> /\ clean_data = <<>>
      /\ locale = "floors" => Len(raw_data) >= 3 /\ coords = <<>> /\ clean_data = <<>>
      /\ locale \in {"coords", "located"} => Qualified(node_floors, raw_data, clean_data)
      /\ locale = "located" => Len(coords) = Len(clean_data) /\ ~Solver!Singular(coords)
    BY Zenon DEF IInv, Progress
<1>2. Progress' <=>
      /\ locale' = "idle" => node_floors' = <<>> /\ coords' = <<>> /\ clean_data' = <<>>
      /\ locale' = "floors" => Len(raw_data') >= 3 /\ coords' = <<>> /\ clean_data' = <<>>
      /\ locale' \in {"coords", "located"} => Qualified(node_floors', raw_data', clean_data')
      /\ locale' = "located" => Len(coords') = Len(clean_data') /\ ~Solver!Singular(coords')
    BY Zenon DEF Progress
<1>3. ASSUME UNCHANGED <<locale, data_vars>> PROVE Progress'
    BY <1>1, <1>2, <1>3, Zenon DEF data_vars
<1>4. CASE Xadd \/ LoadDel \/ LoadLine \/ LoadEnds \/ UNCHANGED vars
    BY <1>3, <1>4, Zenon DEF Xadd, LoadDel, LoadLine, LoadEnds, vars
<1>5. raw_data \in Readings /\ stream \in Readings /\ node_floors \in Seq(Int \X Name)
    BY EntriesAreReadings, Zenon DEF IInv, TypeInv, TypeOK
<1>6. CASE GetData
    <2>1. /\ node_floors = <<>> /\ coords = <<>> /\ clean_data = <<>>
          /\ UNCHANGED <<node_floors, clean_data, coords>>
        BY <1>1, <1>6, Zenon DEF GetData
    <2>2. \/ /\ raw_data' = stream
             /\ locale' = CASE stream = <<>> -> "MACNotFound"
                            [] stream # <<>> /\ Len(stream) < 3 -> "LackOfRSSIData"
                            [] OTHER -> "floors"
          \/ locale' = "unanswered"
        BY <1>6, Zenon DEF GetData
    <2>3. locale' \in {"MACNotFound", "LackOfRSSIData", "floors", "unanswered"}
        BY <2>2
    <2>4. locale' = "floors" => Len(raw_data') >= 3
        <3>1. Len(stream) \in Nat
            BY <1>5 DEF Readings
        <3> QED
            BY <2>2, <3>1
    <2>5. locale' \notin {"coords", "located"} /\ locale' # "located"
        BY <2>3
    <2> QED
        BY <1>2, <2>1, <2>4, <2>5, Zenon
<1>7. CASE HGetFloor
    <2>1. locale = "floors" /\ locale' \in {"floors", "panicked", "unanswered"}
        BY <1>7, Zenon DEF HGetFloor
    <2>2. locale' # "idle" /\ locale' # "located" /\ locale' \notin {"coords", "located"}
        BY <2>1
    <2> QED
        BY <1>1, <1>2, <1>7, <2>1, <2>2, Zenon DEF HGetFloor
<1>8. CASE Qualify
    <2> SUFFICES ASSUME ~Garbled(raw_data) PROVE Progress'
        <3>1. CASE Garbled(raw_data)
            <4>1. locale' = "panicked"
                BY <1>8, <3>1, Zenon DEF Qualify
            <4>2. /\ locale' # "idle" /\ locale' # "floors" /\ locale' # "located"
                  /\ locale' \notin {"coords", "located"}
                BY <4>1
            <4> QED
                BY <1>2, <4>2, Zenon
        <3> QED
            BY <3>1
    <2>1. /\ locale = "floors" /\ Len(node_floors) = Len(raw_data)
          /\ clean_data' = Kept(raw_data) /\ UNCHANGED <<raw_data, node_floors, coords>>
          /\ locale' = IF Len(clean_data') < 3 THEN "RSSINotInRange" ELSE "coords"
        BY <1>8, Zenon DEF Qualify
    <2>2. /\ clean_data' \in Readings
          /\ \E f \in 2 .. 4 : Taken(node_floors, raw_data, f, clean_data')
        BY <1>5, <2>1, KeptIsTaken
    <2>3. Len(clean_data') \in Nat
        BY <2>2 DEF Readings
    <2>4. locale' = "coords" => Len(clean_data') >= 3
        BY <2>1, <2>3
    <2>5. locale' = "coords" => Qualified(node_floors', raw_data', clean_data')
        BY <1>1, <2>1, <2>2, <2>4, Zenon DEF Qualified
    <2>6. locale' = "RSSINotInRange" \/ locale' = "coords"
        BY <2>1
    <2>7. locale' # "idle" /\ locale' # "floors" /\ locale' # "located"
        BY <2>6
    <2>8. locale' \in {"coords", "located"} => locale' = "coords"
        BY <2>6
    <2> QED
        BY <1>2, <2>5, <2>7, <2>8, Zenon
<1>9. CASE HGetCoord
    <2>1. locale = "coords" /\ locale' \in {"coords", "panicked", "unanswered"}
        BY <1>9, Zenon DEF HGetCoord
    <2>2. locale' # "idle" /\ locale' # "floors" /\ locale' # "located"
        BY <2>1
    <2>3. locale \in {"coords", "located"}
        BY <2>1
    <2> QED
        BY <1>1, <1>2, <1>9, <2>2, <2>3, Zenon DEF HGetCoord
<1>10. CASE Solve
    <2>1. /\ locale = "coords" /\ Len(coords) = Len(clean_data)
          /\ locale' = IF Solver!Singular(coords) THEN "panicked" ELSE "located"
          /\ UNCHANGED data_vars
        BY <1>10, Zenon DEF Solve
    <2>2. locale' # "idle" /\ locale' # "floors"
        BY <2>1
    <2>3. locale \in {"coords", "located"}
        BY <2>1
    <2>4. locale' = "located" => ~Solver!Singular(coords)
        BY <2>1
    <2> QED
        BY <1>1, <1>2, <2>1, <2>2, <2>3, <2>4, Zenon DEF data_vars
<1>11. CASE Return
    <2>1. locale' = "idle" /\ node_floors' = <<>> /\ coords' = <<>> /\ clean_data' = <<>>
        BY <1>11, Zenon DEF Return
    <2>2. locale' # "floors" /\ locale' # "located" /\ locale' \notin {"coords", "located"}
        BY <2>1
    <2> QED
        BY <1>2, <2>1, <2>2, Zenon
<1> QED
    BY <1>4, <1>6, <1>7, <1>8, <1>9, <1>10, <1>11, Zenon DEF Next, LocaleNext

LEMMA NothingRead ==
    ASSUME NEW hash, NEW clean
    PROVE  ReadThen(hash, <<>>, clean, <<>>)
    BY DEF ReadThen

LEMMA UnracedStep ==
    ASSUME IInv, [Next]_vars
    PROVE  Unraced'
<1>1. /\ ~reloaded /\ locale \in Asking => node_coords = coords_then
      /\ ~reloaded => ReadThen(coords_then, node_floors, clean_data, coords)
    BY Zenon DEF IInv, Unraced
<1>2. Unraced' <=>
      (~reloaded' =>
          /\ locale' \in Asking => node_coords' = coords_then'
          /\ ReadThen(coords_then', node_floors', clean_data', coords'))
    BY Zenon DEF Unraced, Asking
<1>3. /\ raw_data \in Readings /\ node_floors \in Seq(Int \X Name) /\ clean_data \in Readings
      /\ coords \in Seq(Point) /\ IsHash(node_coords) /\ IsHash(coords_then)
    BY EntriesAreReadings, Zenon DEF IInv, TypeInv, TypeOK
<1>4. CASE Xadd \/ LoadEnds \/ UNCHANGED vars
    BY <1>1, <1>2, <1>4, Zenon DEF Xadd, LoadEnds, vars, loader_vars, data_vars
<1>5. CASE LoadDel \/ LoadLine
    <2>1. /\ reloaded' = (reloaded \/ locale \in Asking)
          /\ UNCHANGED <<locale, data_vars, coords_then>>
        BY <1>5, Zenon DEF LoadDel, LoadLine
    <2> QED
        BY <1>1, <1>2, <2>1, Zenon DEF data_vars
<1>6. CASE GetData
    <2>1. /\ node_floors' = <<>> /\ coords' = <<>> /\ coords_then' = node_coords
          /\ node_coords' = node_coords
        BY <1>6, Zenon DEF GetData, loader_vars, IInv, Progress
    <2> QED
        BY <1>2, <2>1, NothingRead, Zenon
<1>7. CASE HGetFloor
    <2> SUFFICES ASSUME ~reloaded'
                 PROVE  /\ locale' \in Asking => node_coords' = coords_then'
                        /\ ReadThen(coords_then', node_floors', clean_data', coords')
        BY <1>2, Zenon
    <2>1. /\ locale = "floors" /\ Len(node_floors) < Len(raw_data)
          /\ UNCHANGED <<node_coords, coords_then, reloaded, clean_data, coords>>
        BY <1>7, Zenon DEF HGetFloor, loader_vars
    <2>2. locale \in Asking /\ coords = <<>>
        BY <2>1 DEF Asking, IInv, Progress
    <2>3. node_coords = coords_then /\ ReadThen(coords_then, node_floors, clean_data, coords)
        BY <1>1, <2>1, <2>2
    <2> DEFINE name == NextReading(raw_data, node_floors)[1]
               e == <<node_coords[name].z, name>>
    <2>4. CASE Readable(node_coords, name) /\ node_floors' = Append(node_floors, e)
        <3>1. node_floors' = Append(node_floors, e)
            BY <2>4
        <3>2. e \in Int \X Name
            BY <1>3, <2>4, PointOf
        <3>3. Readable(coords_then, e[2]) /\ e[1] = coords_then[e[2]].z
            BY <2>3, <2>4
        <3> HIDE DEF e
        <3>4. /\ DOMAIN node_floors' = DOMAIN node_floors \cup {Len(node_floors) + 1}
              /\ \A l \in DOMAIN node_floors : node_floors'[l] = node_floors[l]
              /\ node_floors'[Len(node_floors) + 1] = e
            BY <1>3, <3>1, <3>2, Appended
        <3>5. ReadThen(coords_then, node_floors', clean_data, coords)
            <4>1. \A l \in DOMAIN node_floors :
                     /\ Readable(coords_then, node_floors[l][2])
                     /\ node_floors[l][1] = coords_then[node_floors[l][2]].z
                BY <2>3, Zenon DEF ReadThen
            <4>2. \A l \in DOMAIN node_floors' :
                     /\ Readable(coords_then, node_floors'[l][2])
                     /\ node_floors'[l][1] = coords_then[node_floors'[l][2]].z
                BY <3>3, <3>4, <4>1, Zenon
            <4> QED
                BY <2>3, <4>2, Zenon DEF ReadThen
        <3> QED
            BY <2>1, <2>3, <3>5
    <2>5. CASE node_floors' = node_floors
        BY <2>1, <2>3, <2>5
    <2> QED
        BY <1>7, <2>4, <2>5, Zenon DEF HGetFloor
<1>8. CASE Qualify
    <2>1. /\ locale = "floors"
          /\ UNCHANGED <<node_coords, coords_then, reloaded, node_floors, coords>>
        BY <1>8, Zenon DEF Qualify, loader_vars
    <2>2. locale \in Asking /\ coords = <<>>
        BY <2>1 DEF Asking, IInv, Progress
    <2>3. ~reloaded => ReadThen(coords_then, node_floors, clean_data', coords)
        <3>1. DOMAIN coords = {}
            BY <2>2
        <3> QED
            BY <1>1, <3>1, Zenon DEF ReadThen
    <2> QED
        BY <1>1, <1>2, <2>1, <2>2, <2>3, Zenon
<1>9. CASE HGetCoord
    <2> SUFFICES ASSUME ~reloaded'
                 PROVE  /\ locale' \in Asking => node_coords' = coords_then'
                        /\ ReadThen(coords_then', node_floors', clean_data', coords')
        BY <1>2, Zenon
    <2>1. /\ locale = "coords" /\ Len(coords) < Len(clean_data)
          /\ UNCHANGED <<node_coords, coords_then, reloaded, clean_data, node_floors>>
        BY <1>9, Zenon DEF HGetCoord, loader_vars
    <2>2. locale \in Asking
        BY <2>1 DEF Asking
    <2>3. node_coords = coords_then /\ ReadThen(coords_then, node_floors, clean_data, coords)
        BY <1>1, <2>1, <2>2
    <2> DEFINE k == Len(coords) + 1
               name == clean_data[k][1]
               e == node_coords[name]
    <2>4. NextReading(clean_data, coords)[1] = name
        BY DEF NextReading
    <2>5. CASE Readable(node_coords, name) /\ coords' = Append(coords, e)
        <3>1. coords' = Append(coords, e)
            BY <2>5
        <3>2. e \in Point
            BY <1>3, <2>5, PointOf
        <3>3. Readable(coords_then, name) /\ e = coords_then[name]
            BY <2>3, <2>5
        <3> HIDE DEF e
        <3>4. /\ DOMAIN coords' = DOMAIN coords \cup {k}
              /\ \A l \in DOMAIN coords : coords'[l] = coords[l]
              /\ coords'[k] = e
            BY <1>3, <3>1, <3>2, Appended
        <3> HIDE DEF k
        <3>5. ReadThen(coords_then, node_floors, clean_data, coords')
            <4>1. \A l \in DOMAIN coords :
                     Readable(coords_then, clean_data[l][1])
                     /\ coords[l] = coords_then[clean_data[l][1]]
                BY <2>3, Zenon DEF ReadThen
            <4>2. \A l \in DOMAIN coords' :
                     Readable(coords_then, clean_data[l][1])
                     /\ coords'[l] = coords_then[clean_data[l][1]]
                BY <3>3, <3>4, <4>1, Zenon
            <4> QED
                BY <2>3, <4>2, Zenon DEF ReadThen
        <3> QED
            BY <2>1, <2>3, <3>5
    <2>6. CASE coords' = coords
        BY <2>1, <2>3, <2>6
    <2> QED
        BY <1>9, <2>4, <2>5, <2>6, Zenon DEF HGetCoord
<1>10. CASE Solve
    <2>1. /\ locale = "coords"
          /\ UNCHANGED <<node_coords, coords_then, reloaded, node_floors, clean_data, coords>>
        BY <1>10, Zenon DEF Solve, loader_vars, data_vars
    <2>2. locale \in Asking
        BY <2>1 DEF Asking
    <2> QED
        BY <1>1, <1>2, <2>1, <2>2, Zenon
<1>11. CASE Return
    <2>1. /\ locale' = "idle" /\ node_floors' = <<>> /\ coords' = <<>>
        BY <1>11, Zenon DEF Return
    <2>2. locale' \notin Asking
        BY <2>1 DEF Asking
    <2> QED
        BY <1>2, <2>1, <2>2, NothingRead, Zenon
<1> QED
    BY <1>4, <1>5, <1>6, <1>7, <1>8, <1>9, <1>10, <1>11, Zenon DEF Next, LocaleNext

LEMMA InvariantHolds == Spec => []IInv
<1>1. IInv /\ [Next]_vars => IInv'
    BY TypeStep, ProgressStep, UnracedStep, Zenon DEF IInv
<1> QED
    BY <1>1, InitHolds, PTL DEF Spec

-----------------------------------------------------------------------------
(***************************************************************************)
(* The theorems.                                                           *)
(***************************************************************************)
\* Every variable keeps its type, and a floor is read for the readings of the entry in
\* their order, whatever the files and entries are.
THEOREM TypeCorrect == Spec => []TypeOK
    BY InvariantHolds, PTL DEF IInv, TypeInv

(***************************************************************************)
(* The loader.                                                             *)
(***************************************************************************)
Asked(text, n) == {k \in 1 .. n - 1 : Len(text[k]) >= 2}
Written(hash, text, n) ==
    /\ DOMAIN hash = {text[k][1] : k \in Asked(text, n)}
    /\ \A k \in Asked(text, n) :
          (\A l \in Asked(text, n) : text[l][1] = text[k][1] => l <= k)
             => hash[text[k][1]] = text[k][2]

LEMMA NothingWritten ==
    ASSUME NEW text
    PROVE  Written(Empty, text, 1)
<1>1. Asked(text, 1) = {}
    BY DEF Asked
<1> QED
    BY <1>1 DEF Written, Empty

LEMMA WrittenOn ==
    ASSUME NEW text \in Seq(Line), NEW n \in 1 .. Len(text), NEW hash, Written(hash, text, n)
    PROVE  Written(HSet(hash, text[n]), text, n + 1)
<1> DEFINE new == HSet(hash, text[n])
<1>1. n \in Nat /\ n \notin 1 .. n - 1 /\ 1 .. n + 1 - 1 = (1 .. n - 1) \cup {n}
    OBVIOUS
<1>2. \A k \in Asked(text, n) : k \in 1 .. n - 1 /\ k <= n /\ k # n /\ ~ (n <= k)
    BY <1>1 DEF Asked
<1>3. CASE Len(text[n]) >= 2
    <2> DEFINE name == text[n][1]
               p == text[n][2]
    <2>1. new = [m \in DOMAIN hash \cup {name} |-> IF m = name THEN p ELSE hash[m]]
        BY <1>3, Zenon DEF HSet
    <2>2. Asked(text, n + 1) = Asked(text, n) \cup {n}
        BY <1>1, <1>3 DEF Asked
    <2>3. DOMAIN new = DOMAIN hash \cup {name}
        BY <2>1
    <2>4. new[name] = p /\ \A m \in DOMAIN hash : m # name => new[m] = hash[m]
        BY <2>1
    <2> HIDE DEF new
    <2>5. DOMAIN new = {text[k][1] : k \in Asked(text, n + 1)}
        BY <2>2, <2>3 DEF Written
    <2>6. ASSUME NEW k \in Asked(text, n + 1),
                 \A l \in Asked(text, n + 1) : text[l][1] = text[k][1] => l <= k
          PROVE  new[text[k][1]] = text[k][2]
        <3>1. CASE k = n
            BY <2>4, <3>1
        <3>2. CASE k # n
            <4>1. k \in Asked(text, n)
                BY <2>2, <3>2
            <4>2. name # text[k][1]
                BY <1>2, <2>2, <2>6, <4>1
            <4>3. text[k][1] \in DOMAIN hash
                BY <4>1 DEF Written
            <4>4. hash[text[k][1]] = text[k][2]
                BY <2>2, <2>6, <4>1, Zenon DEF Written
            <4> QED
                BY <2>4, <4>2, <4>3, <4>4, Zenon
        <3> QED
            BY <3>1, <3>2
    <2> QED
        BY <2>5, <2>6, Zenon DEF Written, new
<1>4. CASE ~ (Len(text[n]) >= 2)
    <2>1. new = hash
        BY <1>4, Zenon DEF HSet
    <2>2. Asked(text, n + 1) = Asked(text, n)
        BY <1>1, <1>4 DEF Asked
    <2> QED
        BY <2>1, <2>2, Zenon DEF Written
<1> QED
    BY <1>3, <1>4

\* What was asked of the hash so far is what it holds, after every line of any file,
\* with nodes named twice, and wherever a command fails.
THEOREM HashHoldsFile == Spec => []HashIsFile
<1>1. HashIsFile <=> Written(node_coords, content, line)
    BY Zenon DEF HashIsFile, Written, Asked
<1>2. HashIsFile' <=> Written(node_coords', content', line')
    BY Zenon DEF HashIsFile, Written, Asked
<1>3. Init => HashIsFile
    BY <1>1, NothingWritten DEF Init
<1>4. ASSUME TypeInv, HashIsFile, [Next]_vars PROVE HashIsFile'
    <2>1. CASE LoadDel
        <3>1. node_coords' = Empty /\ line' = 1
            BY <2>1, Zenon DEF LoadDel, Deleted
        <3> QED
            BY <1>2, <3>1, NothingWritten, Zenon
    <2>2. CASE LoadLine
        <3>1. /\ line <= Len(content) /\ node_coords' = HSet(node_coords, content[line])
              /\ line' = line + 1 /\ content' = content
            BY <2>2, Zenon DEF LoadLine
        <3>2. content \in Seq(Line) /\ line \in 1 .. Len(content) + 1
            BY <1>4, FilesAreLines, Zenon DEF TypeInv, TypeOK
        <3>3. line \in 1 .. Len(content)
            BY <3>1, <3>2
        <3>4. Written(node_coords, content, line)
            BY <1>1, <1>4
        <3>5. Written(node_coords', content, line + 1)
            BY <3>1, <3>2, <3>3, <3>4, WrittenOn
        <3> QED
            BY <1>2, <3>1, <3>5, Zenon
    <2>3. CASE ~LoadDel /\ ~LoadLine
        <3>1. UNCHANGED <<node_coords, content, line>>
            BY <1>4, <2>3, Zenon
            DEF Next, LocaleNext, Xadd, LoadEnds, GetData, HGetFloor, Qualify, HGetCoord, Solve,
                Return, vars, loader_vars
        <3> QED
            BY <1>1, <1>2, <1>4, <3>1, Zenon
    <2> QED
        BY <2>1, <2>2, <2>3
<1> QED
    BY <1>3, <1>4, InvariantHolds, PTL DEF Spec, IInv

(***************************************************************************)
(* How a localisation ends.                                                *)
(***************************************************************************)
\* the verdict by the readings on a floor
Located(hash, data, floor) ==
    LET heard == HeardOn(hash, data, floor) IN
    IF \E k \in NodesOn(hash, data, floor) : data[k][2] = Malformed THEN "panicked"
    ELSE IF Cardinality(heard) < 3 THEN "RSSINotInRange"
    ELSE IF Collinear({hash[data[k][1]] : k \in heard}) THEN "panicked"
    ELSE "located"

LEMMA Verdicts ==
    ASSUME NEW hash, NEW data \in Readings
    PROVE  /\ Len(data) = 0 => Verdict(hash, data) = "MACNotFound"
           /\ Len(data) \in 1 .. 2 => Verdict(hash, data) = "LackOfRSSIData"
           /\ Len(data) > 2 /\ ~Known(hash, data) => Verdict(hash, data) = "panicked"
           /\ Len(data) > 2 /\ Known(hash, data) =>
                Verdict(hash, data) = Located(hash, data, Best(hash, data))
<1> DEFINE n == Len(data)
           x == Located(hash, data, Best(hash, data))
           known == Known(hash, data)
<1>1. Verdict(hash, data) = CASE n = 0 -> "MACNotFound"
                              [] n \in 1 .. 2 -> "LackOfRSSIData"
                              [] n > 2 /\ ~known -> "panicked"
                              [] OTHER -> x
    BY Zenon DEF Verdict, Located
<1>2. n \in Nat
    BY DEF Readings
<1> HIDE DEF n, x, known
<1>3. n = 0 => Verdict(hash, data) = "MACNotFound"
    BY <1>1, <1>2
<1>4. n \in 1 .. 2 => Verdict(hash, data) = "LackOfRSSIData"
    BY <1>1, <1>2
<1>5. n > 2 /\ ~known => Verdict(hash, data) = "panicked"
    BY <1>1, <1>2
<1>6. n > 2 /\ known => Verdict(hash, data) = x
    BY <1>1, <1>2
<1> QED
    BY <1>3, <1>4, <1>5, <1>6 DEF n, x, known

Outcome(hash, clean) ==
    IF Len(clean) < 3 THEN "RSSINotInRange"
    ELSE IF Collinear({hash[clean[k][1]] : k \in DOMAIN clean}) THEN "panicked"
    ELSE "located"

LEMMA VerdictWhenRead ==
    ASSUME NEW hash, NEW floors \in Seq(Int \X Name), NEW data \in Readings,
           NEW clean, Len(floors) = Len(data), Len(data) >= 3,
           NEW f \in 2 .. 4, Taken(floors, data, f, clean),
           \A k \in DOMAIN floors : floors[k][2] = data[k][1],
           \A k \in DOMAIN floors :
               Readable(hash, floors[k][2]) /\ floors[k][1] = hash[floors[k][2]].z
    PROVE  Verdict(hash, data) = Outcome(hash, clean)
<1> DEFINE heard == HeardOn(hash, data, f)
<1>1. DOMAIN floors = DOMAIN data /\ Len(data) > 2
    BY DEF Readings
<1>2. FloorsOf(floors, hash, data)
    BY Zenon DEF FloorsOf
<1>3. Known(hash, data)
    BY <1>1, Zenon DEF Known
<1>4. Best(hash, data) = f
    <2>1. MostOn(floors, f)
        BY Zenon DEF Taken
    <2> QED
        BY <1>2, <2>1, BestIsMost
<1>5. Passing(floors, data, f) = heard /\ OnFloor(floors, data, f) = NodesOn(hash, data, f)
    BY <1>2, PassingIsHeard
<1>9. \A k \in NodesOn(hash, data, f) : data[k][2] # Malformed
    BY <1>5, Zenon DEF Taken
<1>6. /\ Len(clean) = Cardinality(heard)
      /\ {clean[k] : k \in DOMAIN clean} = {data[k] : k \in heard}
    BY <1>5, Zenon DEF Taken
<1> HIDE DEF heard
<1>7. {hash[data[k][1]] : k \in heard} = {hash[clean[k][1]] : k \in DOMAIN clean}
    <2>1. \A k \in heard : \E l \in DOMAIN clean : clean[l] = data[k]
        BY <1>6
    <2>2. \A l \in DOMAIN clean : \E k \in heard : clean[l] = data[k]
        BY <1>6
    <2> DEFINE X == {hash[data[k][1]] : k \in heard}
               Y == {hash[clean[k][1]] : k \in DOMAIN clean}
    <2>3. ASSUME NEW x \in X PROVE x \in Y
        <3>1. PICK k \in heard : x = hash[data[k][1]]
            OBVIOUS
        <3>2. PICK l \in DOMAIN clean : clean[l] = data[k]
            BY <2>1
        <3> QED
            BY <3>1, <3>2, Zenon
    <2>4. ASSUME NEW x \in Y PROVE x \in X
        <3>1. PICK l \in DOMAIN clean : x = hash[clean[l][1]]
            OBVIOUS
        <3>2. PICK k \in heard : clean[l] = data[k]
            BY <2>2
        <3> QED
            BY <3>1, <3>2, Zenon
    <2>5. X = Y
        <3> HIDE DEF X, Y
        <3> QED
            BY <2>3, <2>4
    <2> QED
        BY <2>5
<1>8. Verdict(hash, data) = Located(hash, data, f)
    BY <1>1, <1>3, <1>4, Verdicts, Zenon
<1>10. Located(hash, data, f) =
          IF Cardinality(heard) < 3 THEN "RSSINotInRange"
          ELSE IF Collinear({hash[data[k][1]] : k \in heard}) THEN "panicked"
          ELSE "located"
    BY <1>9, Zenon DEF Located, heard
<1> QED
    BY <1>6, <1>7, <1>8, <1>10 DEF Outcome

\* the same in a state of the localisation
LEMMA VerdictHere ==
    ASSUME IInv, ~reloaded, NEW clean, NEW f \in 2 .. 4,
           Len(node_floors) = Len(raw_data), Len(raw_data) >= 3,
           Taken(node_floors, raw_data, f, clean)
    PROVE  Verdict(coords_then, raw_data) = Outcome(coords_then, clean)
<1>1. node_floors \in Seq(Int \X Name) /\ raw_data \in Readings
    BY EntriesAreReadings, Zenon DEF IInv, TypeInv, TypeOK
<1>2. /\ \A k \in DOMAIN node_floors : node_floors[k][2] = raw_data[k][1]
      /\ \A k \in DOMAIN node_floors :
            /\ Readable(coords_then, node_floors[k][2])
            /\ node_floors[k][1] = coords_then[node_floors[k][2]].z
    BY Zenon DEF IInv, TypeInv, TypeOK, Unraced, ReadThen
<1> QED
    BY <1>1, <1>2, VerdictWhenRead

\* a reading on the common floor that does not parse
LEMMA GarbledHere ==
    ASSUME IInv, ~reloaded, Len(node_floors) = Len(raw_data), Len(raw_data) >= 3,
           Garbled(raw_data)
    PROVE  Verdict(coords_then, raw_data) = "panicked"
<1>1. node_floors \in Seq(Int \X Name) /\ raw_data \in Readings
    BY EntriesAreReadings, Zenon DEF IInv, TypeInv, TypeOK
<1>2. \A k \in DOMAIN node_floors :
          /\ node_floors[k][2] = raw_data[k][1] /\ Readable(coords_then, node_floors[k][2])
          /\ node_floors[k][1] = coords_then[node_floors[k][2]].z
    BY Zenon DEF IInv, TypeInv, TypeOK, Unraced, ReadThen
<1>3. DOMAIN node_floors = DOMAIN raw_data /\ Len(raw_data) > 2
    BY <1>1 DEF Readings
<1>4. FloorsOf(node_floors, coords_then, raw_data) /\ Known(coords_then, raw_data)
    BY <1>2, <1>3, Zenon DEF FloorsOf, Known
<1>5. CommonFloor \in 2 .. 4 /\ MostOn(node_floors, CommonFloor)
    BY <1>1, CommonFloorIsMost
<1>6. Best(coords_then, raw_data) = CommonFloor
    BY <1>1, <1>4, <1>5, BestIsMost
<1>7. OnFloor(node_floors, raw_data, CommonFloor) = NodesOn(coords_then, raw_data, CommonFloor)
    BY <1>1, <1>4, PassingIsHeard
<1>8. \E k \in NodesOn(coords_then, raw_data, CommonFloor) : raw_data[k][2] = Malformed
    BY <1>7, Zenon DEF OnFloor, Garbled, OnCommonFloor
<1>9. Verdict(coords_then, raw_data) = Located(coords_then, raw_data, CommonFloor)
    BY <1>1, <1>3, <1>4, <1>6, Verdicts, Zenon
<1> QED
    BY <1>8, <1>9, Zenon DEF Located

\* all nodes taken were in the hash
LEMMA TakenAreKnown ==
    ASSUME IInv, ~reloaded, Qualified(node_floors, raw_data, clean_data)
    PROVE  \A k \in DOMAIN clean_data : Readable(coords_then, clean_data[k][1])
<1> SUFFICES ASSUME NEW k \in DOMAIN clean_data
             PROVE  Readable(coords_then, clean_data[k][1])
    OBVIOUS
<1>1. node_floors \in Seq(Int \X Name) /\ raw_data \in Readings
    BY EntriesAreReadings, Zenon DEF IInv, TypeInv, TypeOK
<1>2. PICK f \in 2 .. 4 : Taken(node_floors, raw_data, f, clean_data)
    BY Zenon DEF Qualified
<1>3. PICK l \in Passing(node_floors, raw_data, f) : clean_data[k] = raw_data[l]
    BY <1>2 DEF Taken
<1>4. l \in DOMAIN raw_data
    BY <1>3, Zenon DEF Passing, OnFloor
<1>5. l \in DOMAIN node_floors
    <2>1. Len(node_floors) = Len(raw_data)
        BY Zenon DEF Qualified
    <2> QED
        BY <1>1, <1>4, <2>1 DEF Readings
<1>6. node_floors[l][2] = raw_data[l][1] /\ Readable(coords_then, node_floors[l][2])
    BY <1>5, Zenon DEF IInv, TypeInv, TypeOK, Unraced, ReadThen
<1> QED
    BY <1>3, <1>6, Zenon

LEMMA EndsStep ==
    ASSUME IInv, IInv', EndsAsSpecified, [Next]_vars
    PROVE  EndsAsSpecified'
<1>1. locale \in Ended /\ locale # "unanswered" /\ ~reloaded
          => locale = Verdict(coords_then, raw_data)
    BY Zenon DEF EndsAsSpecified
<1> SUFFICES ASSUME locale' \in Ended, locale' # "unanswered", ~reloaded'
             PROVE  locale' = Verdict(coords_then', raw_data')
    BY Zenon DEF EndsAsSpecified, Ended, Errors
<1>2. /\ raw_data \in Readings /\ stream \in Readings /\ node_floors \in Seq(Int \X Name)
      /\ clean_data \in Readings /\ coords \in Seq(Point)
    BY EntriesAreReadings, Zenon DEF IInv, TypeInv, TypeOK
<1>3. /\ locale \in Asking /\ ~reloaded => node_coords = coords_then
      /\ ~reloaded => ReadThen(coords_then, node_floors, clean_data, coords)
    BY Zenon DEF IInv, Unraced
<1>4. /\ locale = "floors" => Len(raw_data) >= 3
      /\ locale = "coords" => Qualified(node_floors, raw_data, clean_data)
    BY DEF IInv, Progress
<1>5. "floors" \notin Ended /\ "coords" \notin Ended /\ "idle" \notin Ended
    BY DEF Ended, Errors
<1>6. "floors" \in Asking /\ "coords" \in Asking
    BY DEF Asking
<1>7. CASE Xadd \/ LoadDel \/ LoadLine \/ LoadEnds \/ UNCHANGED vars
    <2>1. UNCHANGED <<locale, coords_then, raw_data>>
        BY <1>7, Zenon DEF Xadd, LoadDel, LoadLine, LoadEnds, vars, data_vars
    <2>2. reloaded' = reloaded \/ reloaded' = (reloaded \/ locale \in Asking)
        BY <1>7, Zenon DEF Xadd, LoadDel, LoadLine, LoadEnds, vars
    <2>3. ~reloaded
        BY <2>2, Zenon
    <2> QED
        BY <1>1, <2>1, <2>3, Zenon
<1>8. CASE GetData
    <2>1. /\ raw_data' = stream
          /\ locale' = CASE stream = <<>> -> "MACNotFound"
                         [] stream # <<>> /\ Len(stream) < 3 -> "LackOfRSSIData"
                         [] OTHER -> "floors"
        BY <1>8, Zenon DEF GetData
    <2>2. Len(stream) \in Nat /\ (stream = <<>> <=> Len(stream) = 0)
        BY <1>2 DEF Readings
    <2>3. CASE Len(stream) = 0
        <3>1. locale' = "MACNotFound"
            BY <2>1, <2>2, <2>3
        <3> QED
            BY <1>2, <2>1, <2>3, <3>1, Verdicts, Zenon
    <2>4. CASE Len(stream) # 0
        <3>1. locale' = IF Len(stream) < 3 THEN "LackOfRSSIData" ELSE "floors"
            BY <2>1, <2>2, <2>4
        <3>2. locale' = "LackOfRSSIData" /\ Len(stream) < 3
            BY <1>5, <3>1
        <3>3. Len(stream) \in 1 .. 2
            <4> DEFINE n == Len(stream)
            <4>1. n \in Nat /\ n # 0 /\ n < 3
                BY <2>2, <2>4, <3>2, Zenon
            <4> HIDE DEF n
            <4>2. n \in 1 .. 2
                BY <4>1
            <4> QED
                BY <4>2 DEF n
        <3> QED
            BY <1>2, <2>1, <3>2, <3>3, Verdicts, Zenon
    <2> QED
        BY <2>3, <2>4
<1>9. CASE HGetFloor
    <2> DEFINE k == Len(node_floors) + 1
               name == raw_data[k][1]
    <2>1. /\ locale = "floors" /\ Len(node_floors) < Len(raw_data) /\ ~reloaded
          /\ coords_then' = coords_then /\ raw_data' = raw_data
          /\ \/ ~Readable(node_coords, name) /\ locale' = "panicked"
             \/ Readable(node_coords, name) /\ locale' = locale
        BY <1>9, Zenon DEF HGetFloor, NextReading
    <2>2. k \in DOMAIN raw_data /\ Len(raw_data) > 2
        BY <1>2, <1>4, <2>1 DEF Readings
    <2>3. ~Readable(coords_then, name) /\ locale' = "panicked"
        BY <1>3, <1>5, <1>6, <2>1
    <2>4. ~Known(coords_then, raw_data)
        BY <2>2, <2>3, Zenon DEF Known
    <2> QED
        BY <1>2, <2>1, <2>2, <2>3, <2>4, Verdicts, Zenon
<1>10. CASE Qualify /\ Garbled(raw_data)
    <2>1. /\ locale = "floors" /\ Len(node_floors) = Len(raw_data) /\ ~reloaded
          /\ locale' = "panicked" /\ raw_data' = raw_data /\ coords_then' = coords_then
        BY <1>10, Zenon DEF Qualify
    <2>2. Verdict(coords_then, raw_data) = "panicked"
        BY <1>4, <1>10, <2>1, GarbledHere
    <2> QED
        BY <2>1, <2>2
<1>14. CASE Qualify /\ ~Garbled(raw_data)
    <2>1. /\ locale = "floors" /\ Len(node_floors) = Len(raw_data)
          /\ clean_data' = Kept(raw_data) /\ ~reloaded
          /\ locale' = IF Len(clean_data') < 3 THEN "RSSINotInRange" ELSE "coords"
          /\ raw_data' = raw_data /\ coords_then' = coords_then
        BY <1>14, Zenon DEF Qualify
    <2>2. PICK f \in 2 .. 4 : Taken(node_floors, raw_data, f, clean_data')
        BY <1>2, <1>14, <2>1, KeptIsTaken
    <2>3. Len(clean_data') < 3 /\ locale' = "RSSINotInRange"
        BY <1>5, <2>1
    <2> DEFINE clean == clean_data'
    <2>4. Taken(node_floors, raw_data, f, clean) /\ Len(clean) < 3
        BY <2>2, <2>3
    <2> HIDE DEF clean
    <2>5. Verdict(coords_then, raw_data) = "RSSINotInRange"
        BY <1>4, <2>1, <2>4, VerdictHere DEF Outcome
    <2> QED
        BY <2>1, <2>3, <2>5, Zenon
<1>11. CASE HGetCoord
    <2> DEFINE k == Len(coords) + 1
               name == clean_data[k][1]
    <2>1. /\ locale = "coords" /\ Len(coords) < Len(clean_data) /\ ~reloaded
          /\ Readable(node_coords, name) => locale' = locale
        BY <1>11, Zenon DEF HGetCoord, NextReading
    <2>2. k \in DOMAIN clean_data
        BY <1>2, <2>1 DEF Readings
    <2>3. Readable(coords_then, name)
        BY <1>4, <2>1, <2>2, TakenAreKnown, Zenon
    <2>4. locale' = "coords"
        BY <1>3, <1>6, <2>1, <2>3, Zenon
    <2> QED
        BY <1>5, <2>4, Zenon
<1>12. CASE Solve
    <2>1. /\ locale = "coords" /\ Len(coords) = Len(clean_data) /\ ~reloaded
          /\ locale' = IF Solver!Singular(coords) THEN "panicked" ELSE "located"
          /\ raw_data' = raw_data /\ coords_then' = coords_then
        BY <1>12, Zenon DEF Solve, data_vars
    <2>2. Qualified(node_floors, raw_data, clean_data)
        BY <1>4, <2>1
    <2>3. PICK f \in 2 .. 4 : Taken(node_floors, raw_data, f, clean_data)
        BY <2>2, Zenon DEF Qualified
    <2>4. /\ Len(node_floors) = Len(raw_data) /\ Len(raw_data) >= 3 /\ Len(clean_data) >= 3
        BY <2>2, Zenon DEF Qualified
    <2>5. Verdict(coords_then, raw_data) = Outcome(coords_then, clean_data)
        BY <2>1, <2>3, <2>4, VerdictHere
    <2>6. Len(clean_data) \in Nat /\ ~ (Len(clean_data) < 3)
        BY <1>2, <2>4 DEF Readings
    <2>7. DOMAIN coords = DOMAIN clean_data /\ coords # <<>>
        BY <1>2, <2>1, <2>4 DEF Readings
    <2>8. \A k \in DOMAIN coords : coords[k] = coords_then[clean_data[k][1]]
        BY <1>3, <2>1, Zenon DEF ReadThen
    <2>9. {coords[k] : k \in DOMAIN coords}
            = {coords_then[clean_data[k][1]] : k \in DOMAIN clean_data}
        BY <2>7, <2>8
    <2>10. Solver!Singular(coords) <=> Collinear({coords[k] : k \in DOMAIN coords})
        BY <1>2, <2>7, SingularInLine
    <2> QED
        BY <2>1, <2>5, <2>6, <2>9, <2>10 DEF Outcome
<1>13. CASE Return
    BY <1>5, <1>13, Zenon DEF Return
<1> QED
    BY <1>7, <1>8, <1>9, <1>10, <1>11, <1>12, <1>13, <1>14, Zenon DEF Next, LocaleNext

\* When every Redis command is answered and the loader did not run meanwhile, a
\* localisation of any entry, in any hash, with fields that do not parse in either, ends
\* with the error, the panic or the position that the nodes of the entry and the floor
\* where most of them are ask for.
THEOREM EndsAsAsked == Spec => []EndsAsSpecified
<1>1. Init => EndsAsSpecified
    BY DEF Init, EndsAsSpecified, Ended, Errors
<1>2. IInv /\ IInv' /\ EndsAsSpecified /\ [Next]_vars => EndsAsSpecified'
    BY EndsStep
<1> QED
    BY <1>1, <1>2, InvariantHolds, PTL DEF Spec

-----------------------------------------------------------------------------
(***************************************************************************)
(* What a position rests on.                                               *)
(***************************************************************************)
LEMMA NoPointTwice ==
    ASSUME NEW P \in SUBSET Point, ~Collinear(P)
    PROVE  \E p, q, r \in P : p # q /\ q # r /\ p # r
<1>1. PICK p \in P, q \in P, r \in P :
          (q.x - p.x) * (r.y - p.y) # (q.y - p.y) * (r.x - p.x)
    BY Zenon DEF Collinear
<1>2. /\ p.x \in Int /\ p.y \in Int /\ q.x \in Int /\ q.y \in Int
      /\ r.x \in Int /\ r.y \in Int
    <2>1. p \in Point /\ q \in Point /\ r \in Point
        OBVIOUS
    <2> QED
        BY <2>1 DEF Point
<1>3. p # q
    <2>1. ASSUME p = q PROVE FALSE
        <3>1. q.x - p.x = 0 /\ q.y - p.y = 0
            BY <1>2, <2>1
        <3>2. r.y - p.y \in Int /\ r.x - p.x \in Int
            BY <1>2
        <3> QED
            BY <1>1, <3>1, <3>2
    <2> QED
        BY <2>1
<1>4. p # r
    <2>1. ASSUME p = r PROVE FALSE
        <3>1. r.x - p.x = 0 /\ r.y - p.y = 0
            BY <1>2, <2>1
        <3>2. q.y - p.y \in Int /\ q.x - p.x \in Int
            BY <1>2
        <3> QED
            BY <1>1, <3>1, <3>2
    <2> QED
        BY <2>1
<1>5. q # r
    <2>1. ASSUME q = r PROVE FALSE
        <3> DEFINE u == q.x - p.x
                   v == q.y - p.y
        <3>1. u \in Int /\ v \in Int /\ r.x - p.x = u /\ r.y - p.y = v
            BY <1>2, <2>1
        <3> HIDE DEF u, v
        <3>2. u * v = v * u
            BY <3>1
        <3> QED
            BY <1>1, <3>1, <3>2 DEF u, v
    <2> QED
        BY <2>1
<1> QED
    BY <1>3, <1>4, <1>5, Zenon

LEMMA ThreeAreThree ==
    ASSUME NEW S, IsFiniteSet(S), NEW a \in S, NEW b \in S, NEW c \in S,
           a # b, b # c, a # c
    PROVE  Cardinality(S) >= 3
<1>1. IsFiniteSet({}) /\ Cardinality({}) = 0
    BY FS_EmptySet
<1>2. IsFiniteSet({a}) /\ Cardinality({a}) = 1
    BY FS_Singleton
<1>3. IsFiniteSet({a} \cup {b}) /\ Cardinality({a} \cup {b}) = 2
    <2>1. b \notin {a}
        OBVIOUS
    <2>2. IsFiniteSet({a} \cup {b}) /\ Cardinality({a} \cup {b}) = Cardinality({a}) + 1
        BY <1>2, <2>1, FS_AddElement, Zenon
    <2> QED
        BY <1>2, <2>2
<1>4. IsFiniteSet({a} \cup {b} \cup {c}) /\ Cardinality({a} \cup {b} \cup {c}) = 3
    <2> DEFINE T == {a} \cup {b}
    <2>1. c \notin T /\ IsFiniteSet(T)
        BY <1>3
    <2> HIDE DEF T
    <2>2. IsFiniteSet(T \cup {c}) /\ Cardinality(T \cup {c}) = Cardinality(T) + 1
        BY <2>1, FS_AddElement, Zenon
    <2> QED
        BY <1>3, <2>2 DEF T
<1>5. {a} \cup {b} \cup {c} \subseteq S
    OBVIOUS
<1>6. Cardinality({a} \cup {b} \cup {c}) <= Cardinality(S)
    BY <1>5, FS_Subset
<1>7. Cardinality(S) \in Nat
    BY FS_CardinalityType
<1> QED
    BY <1>4, <1>6, <1>7

\* A position rests on three readings above the cutoff, of nodes that were on one of the
\* three floors and that span the plane, whatever the loader does meanwhile; and on three
\* names, unless it ran meanwhile.
THEOREM ThreeNodes == Spec => []RestsOnThree
<1>1. ASSUME IInv, locale = "located"
      PROVE  /\ Len(clean_data) >= 3
             /\ ~reloaded => Cardinality({clean_data[k][1] : k \in DOMAIN clean_data}) >= 3
             /\ \A k \in DOMAIN clean_data : clean_data[k][2] > cutoff
             /\ \E floor \in 2 .. 4 : \A k \in DOMAIN clean_data :
                   \E n \in DOMAIN node_floors : node_floors[n] = <<floor, clean_data[k][1]>>
             /\ ~Collinear({coords[k] : k \in DOMAIN coords})
    <2>1. /\ raw_data \in Readings /\ node_floors \in Seq(Int \X Name)
          /\ clean_data \in Readings /\ coords \in Seq(Point)
        BY <1>1, EntriesAreReadings, Zenon DEF IInv, TypeInv, TypeOK
    <2>2. /\ Qualified(node_floors, raw_data, clean_data)
          /\ Len(coords) = Len(clean_data) /\ ~Solver!Singular(coords)
        BY <1>1 DEF IInv, Progress
    <2>3. Len(node_floors) = Len(raw_data) /\ Len(clean_data) >= 3
        BY <2>2, Zenon DEF Qualified
    <2>4. PICK f \in 2 .. 4 : Taken(node_floors, raw_data, f, clean_data)
        BY <2>2, Zenon DEF Qualified
    <2>5. \A k \in DOMAIN clean_data : \E l \in Passing(node_floors, raw_data, f) :
              clean_data[k] = raw_data[l]
        BY <2>4 DEF Taken
    <2>6. \A k \in DOMAIN clean_data : clean_data[k][2] > cutoff
        BY <2>5, Zenon DEF Passing
    <2>7. ASSUME NEW k \in DOMAIN clean_data
          PROVE  \E n \in DOMAIN node_floors : node_floors[n] = <<f, clean_data[k][1]>>
        <3>1. PICK l \in Passing(node_floors, raw_data, f) : clean_data[k] = raw_data[l]
            BY <2>5
        <3>2. l \in DOMAIN raw_data
            BY <3>1, Zenon DEF Passing, OnFloor
        <3>3. l \in DOMAIN node_floors
            BY <2>1, <2>3, <3>2 DEF Readings
        <3>4. node_floors[l][2] = raw_data[l][1]
            BY <1>1, <3>3, Zenon DEF IInv, TypeInv, TypeOK
        <3>5. node_floors[l][1] = f
            BY <3>1, <3>3, <3>4, Zenon DEF Passing, OnFloor
        <3>6. node_floors[l] \in Int \X Name
            BY <2>1, <3>3
        <3>7. node_floors[l] = <<node_floors[l][1], node_floors[l][2]>>
            BY <3>6
        <3> QED
            BY <3>1, <3>3, <3>4, <3>5, <3>7, Zenon
    <2>8. DOMAIN coords = DOMAIN clean_data /\ coords # <<>>
        BY <2>1, <2>2, <2>3 DEF Readings
    <2>9. ~Collinear({coords[k] : k \in DOMAIN coords})
        BY <2>1, <2>2, <2>8, SingularInLine
    <2>10. ASSUME ~reloaded
           PROVE  Cardinality({clean_data[k][1] : k \in DOMAIN clean_data}) >= 3
        <3> DEFINE names == {clean_data[k][1] : k \in DOMAIN clean_data}
        <3>1. \A k \in DOMAIN coords : coords[k] = coords_then[clean_data[k][1]]
            BY <1>1, <2>10, Zenon DEF IInv, Unraced, ReadThen
        <3>2. {coords[k] : k \in DOMAIN coords} \in SUBSET Point
            BY <2>1
        <3>3. PICK p \in {coords[k] : k \in DOMAIN coords},
                   q \in {coords[k] : k \in DOMAIN coords},
                   r \in {coords[k] : k \in DOMAIN coords} : p # q /\ q # r /\ p # r
            BY <2>9, <3>2, NoPointTwice
        <3>4. PICK i \in DOMAIN coords : p = coords[i]
            OBVIOUS
        <3>5. PICK j \in DOMAIN coords : q = coords[j]
            OBVIOUS
        <3>6. PICK k \in DOMAIN coords : r = coords[k]
            OBVIOUS
        <3> DEFINE a == clean_data[i][1]
                   b == clean_data[j][1]
                   c == clean_data[k][1]
        <3>7. a \in names /\ b \in names /\ c \in names
            BY <2>8, <3>4, <3>5, <3>6
        <3>8. a # b /\ b # c /\ a # c
            BY <3>1, <3>3, <3>4, <3>5, <3>6, Zenon
        <3>9. IsFiniteSet(names)
            <4> DEFINE n == Len(clean_data)
                       M == [l \in 1 .. n |-> clean_data[l][1]]
            <4>1. DOMAIN clean_data = 1 .. n /\ n \in Nat
                BY <2>1 DEF Readings
            <4> HIDE DEF n
            <4>2. M \in [1 .. n -> names] /\ \A m \in names : \E l \in 1 .. n : M[l] = m
                BY <4>1
            <4>3. M \in Surjection(1 .. n, names)
                BY <4>2, Zenon DEF Surjection
            <4> QED
                BY <4>1, <4>3, FS_NatSurjection DEF ExistsSurjection
        <3> HIDE DEF names, a, b, c
        <3>10. Cardinality(names) >= 3
            BY <3>7, <3>8, <3>9, ThreeAreThree
        <3> QED
            BY <3>10 DEF names
    <2> QED
        BY <2>3, <2>6, <2>7, <2>9, <2>10
<1>2. IInv => RestsOnThree
    BY <1>1, Zenon DEF RestsOnThree
<1> QED
    BY <1>2, InvariantHolds, PTL

=============================================================================
