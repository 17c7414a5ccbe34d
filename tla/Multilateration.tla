-------------------------- MODULE Multilateration --------------------------
(***************************************************************************)
(* The position of a beacon (multilateration of indoor_locale/src/main.rs) *)
(* on integer coordinates.  Readings and coordinates are sequences in the  *)
(* same order; the last one is the reference of the linear equations.      *)
(***************************************************************************)
EXTENDS Integers, Sequences

\* the division of Rust, which truncates
Truncated(a, b) ==
    LET abs(n) == IF n < 0 THEN -n ELSE n
        q == abs(a) \div abs(b)
    IN  IF (a < 0) = (b < 0) THEN q ELSE -q

\* The distance is the power of ten with an integer exponent, here for readings
\* that are not stronger than the one expected at 1 metre.
rssi_to_distance(rssi, measured_power, n) ==
    10 ^ Truncated(rssi - measured_power, -10 * n)

Sq(n) == n * n

\* row i of the matrix
A(coords, i) ==
    LET last == coords[Len(coords)] IN
    <<2 * (coords[i].x - last.x), 2 * (coords[i].y - last.y)>>

\* row i of the vector, for squared distances
B(coords, d2, i) ==
    LET last == coords[Len(coords)] IN
    Sq(coords[i].x) - Sq(last.x) + Sq(coords[i].y) - Sq(last.y) + d2[i] - d2[Len(coords)]

\* the sum of a sequence of numbers
Total(terms) ==
    LET sum[n \in 0 .. Len(terms)] == IF n = 0 THEN 0 ELSE sum[n - 1] + terms[n]
    IN sum[Len(terms)]

\* the product of columns j and k of the matrix
Gram(coords, j, k) ==
    Total([i \in 1 .. Len(coords) |-> A(coords, i)[j] * A(coords, i)[k]])

\* try_inverse gives None
Singular(coords) ==
    Gram(coords, 1, 1) * Gram(coords, 2, 2) = Sq(Gram(coords, 1, 2))

\* (A^T A) p = A^T b, for a matrix that is not singular: p is the result
Solves(coords, d2, p) ==
    \A j \in 1 .. 2 :
        Gram(coords, j, 1) * p.x + Gram(coords, j, 2) * p.y
          = Total([i \in 1 .. Len(coords) |-> A(coords, i)[j] * B(coords, d2, i)])
=============================================================================
