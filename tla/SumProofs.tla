----------------------------- MODULE SumProofs -----------------------------
(***************************************************************************)
(* Sums over a finite set without recursion: a total is the sum of the     *)
(* amounts of a set when some listing of the set adds up to it.  The       *)
(* ledgers of Allocator and OrderExec are proved with these four facts.    *)
(***************************************************************************)
EXTENDS Integers, TLAPS

\* e lists the set S without repetition and r its running totals of amt.
Totals(S, amt, total, n, e, r) ==
  /\ n \in Nat /\ e \in [1..n -> S] /\ r \in [0..n -> Int]
  /\ \A x \in S : \E k \in 1..n : e[k] = x
  /\ \A j, k \in 1..n : e[j] = e[k] => j = k
  /\ r[0] = 0 /\ r[n] = total
  /\ \A k \in 1..n : r[k] = r[k - 1] + amt[e[k]]

\* total is the sum of amt over S: some listing of S adds up to it.
AddsUp(S, amt, total) == \E n, e, r : Totals(S, amt, total, n, e, r)
-----------------------------------------------------------------------------
\* Nothing adds up to zero, and only to zero.
LEMMA EmptyAddsUp ==
  /\ \A amt : AddsUp({}, amt, 0)
  /\ \A amt, t : AddsUp({}, amt, t) => t = 0
  <1>1. ASSUME NEW amt PROVE AddsUp({}, amt, 0)
    <2>1. Totals({}, amt, 0, 0, [k \in 1..0 |-> 0], [k \in 0..0 |-> 0])
      BY DEF Totals
    <2> QED
      BY <2>1 DEF AddsUp
  <1>2. ASSUME NEW amt, NEW t, AddsUp({}, amt, t) PROVE t = 0
    <2>1. PICK n, e, r : Totals({}, amt, t, n, e, r)
      BY <1>2 DEF AddsUp
    <2>2. n \in Nat /\ e \in [1..n -> {}] /\ r[0] = 0 /\ r[n] = t
      BY <2>1 DEF Totals
    <2>3. n = 0
      <3> SUFFICES ASSUME n > 0 PROVE FALSE
        BY <2>2
      <3>1. e[1] \in {}
        BY <2>2
      <3> QED
        BY <3>1
    <2> QED
      BY <2>2, <2>3
  <1> QED
    BY <1>1, <1>2

\* A new member adds its amount.
LEMMA AddOne ==
  ASSUME NEW S, NEW amt, NEW amt2, NEW t \in Int, NEW x, x \notin S, NEW m \in Int,
         AddsUp(S, amt, t), \A y \in S : amt2[y] = amt[y], amt2[x] = m
  PROVE  AddsUp(S \cup {x}, amt2, t + m)
  <1>1. PICK n, e, r : Totals(S, amt, t, n, e, r)
    BY DEF AddsUp
  <1>2. /\ n \in Nat /\ e \in [1..n -> S] /\ r \in [0..n -> Int]
        /\ \A y \in S : \E k \in 1..n : e[k] = y
        /\ \A j, k \in 1..n : e[j] = e[k] => j = k
        /\ r[0] = 0 /\ r[n] = t
        /\ \A k \in 1..n : r[k] = r[k - 1] + amt[e[k]]
    BY <1>1 DEF Totals
  <1> DEFINE f == [k \in 1..(n + 1) |-> IF k = n + 1 THEN x ELSE e[k]]
             q == [k \in 0..(n + 1) |-> IF k = n + 1 THEN t + m ELSE r[k]]
  <1>3. n + 1 \in Nat /\ f \in [1..(n + 1) -> S \cup {x}] /\ q \in [0..(n + 1) -> Int]
    BY <1>2
  <1>4. \A y \in S \cup {x} : \E k \in 1..(n + 1) : f[k] = y
    <2>1. ASSUME NEW y \in S PROVE \E k \in 1..(n + 1) : f[k] = y
      <3>1. PICK k \in 1..n : e[k] = y
        BY <1>2
      <3>2. k \in 1..(n + 1) /\ f[k] = y
        BY <1>2, <3>1
      <3> QED
        BY <3>2
    <2>2. n + 1 \in 1..(n + 1) /\ f[n + 1] = x
      BY <1>2
    <2> QED
      BY <2>1, <2>2
  <1>5. \A j, k \in 1..(n + 1) : f[j] = f[k] => j = k
    BY <1>2
  <1>6. q[0] = 0 /\ q[n + 1] = t + m
    BY <1>2
  <1>7. \A k \in 1..(n + 1) : q[k] = q[k - 1] + amt2[f[k]]
    <2> SUFFICES ASSUME NEW k \in 1..(n + 1) PROVE q[k] = q[k - 1] + amt2[f[k]]
      OBVIOUS
    <2>1. CASE k = n + 1
      BY <1>2, <2>1
    <2>2. CASE k \in 1..n
      <3>1. q[k] = r[k] /\ q[k - 1] = r[k - 1] /\ f[k] = e[k] /\ e[k] \in S
        BY <1>2, <2>2
      <3> QED
        BY <1>2, <2>2, <3>1
    <2> QED
      BY <1>2, <2>1, <2>2
  <1> HIDE DEF f, q
  <1>8. Totals(S \cup {x}, amt2, t + m, n + 1, f, q)
    BY <1>3, <1>4, <1>5, <1>6, <1>7 DEF Totals
  <1> QED
    BY <1>8 DEF AddsUp

\* A member that leaves takes its amount away.
LEMMA RemoveOne ==
  ASSUME NEW S, NEW amt, NEW t \in Int, NEW x \in S, \A y \in S : amt[y] \in Int,
         AddsUp(S, amt, t)
  PROVE  AddsUp(S \ {x}, amt, t - amt[x])
  <1>1. PICK n, e, r : Totals(S, amt, t, n, e, r)
    BY DEF AddsUp
  <1>2. /\ n \in Nat /\ e \in [1..n -> S] /\ r \in [0..n -> Int]
        /\ \A y \in S : \E k \in 1..n : e[k] = y
        /\ \A j, k \in 1..n : e[j] = e[k] => j = k
        /\ r[0] = 0 /\ r[n] = t
        /\ \A k \in 1..n : r[k] = r[k - 1] + amt[e[k]]
    BY <1>1 DEF Totals
  <1>3. PICK c \in 1..n : e[c] = x
    BY <1>2
  <1>a. n \in Nat /\ n - 1 \in Nat /\ c \in Nat /\ c >= 1 /\ c <= n
    BY <1>2, <1>3
  <1> DEFINE f == [k \in 1..(n - 1) |-> IF k < c THEN e[k] ELSE e[k + 1]]
             q == [k \in 0..(n - 1) |-> IF k < c THEN r[k] ELSE r[k + 1] - amt[x]]
  \* f and q skip the place of x; k and k + 1 are places of the old listing.
  <1>f. \A k \in 1..(n - 1) : /\ k \in 1..n /\ k + 1 \in 1..n
                              /\ k < c => f[k] = e[k]
                              /\ ~(k < c) => f[k] = e[k + 1]
    BY <1>a
  <1>q. \A k \in 0..(n - 1) : /\ k \in 0..n /\ k + 1 \in 0..n
                              /\ k < c => q[k] = r[k]
                              /\ ~(k < c) => q[k] = r[k + 1] - amt[x]
    BY <1>a
  <1>g. f = [k \in 1..(n - 1) |-> f[k]] /\ q = [k \in 0..(n - 1) |-> q[k]]
    OBVIOUS
  <1> HIDE DEF f, q
  <1>4. \A k \in 1..(n - 1) : f[k] \in S \ {x}
    <2> SUFFICES ASSUME NEW k \in 1..(n - 1) PROVE f[k] \in S \ {x}
      OBVIOUS
    <2>1. CASE k < c
      <3>1. f[k] = e[k] /\ k \in 1..n /\ k # c
        BY <1>a, <1>f, <2>1
      <3> QED
        BY <1>2, <1>3, <3>1
    <2>2. CASE ~(k < c)
      <3>1. f[k] = e[k + 1] /\ k + 1 \in 1..n
        BY <1>f, <2>2
      <3>2. k + 1 # c
        BY <1>a, <2>2
      <3> QED
        BY <1>2, <1>3, <3>1, <3>2
    <2> QED
      BY <2>1, <2>2
  <1>5. \A k \in 0..(n - 1) : q[k] \in Int
    <2> SUFFICES ASSUME NEW k \in 0..(n - 1) PROVE q[k] \in Int
      OBVIOUS
    <2>1. r[k] \in Int /\ r[k + 1] \in Int
      BY <1>2, <1>q
    <2> QED
      BY <1>q, <2>1
  <1>6. \A y \in S \ {x} : \E k \in 1..(n - 1) : f[k] = y
    <2> SUFFICES ASSUME NEW y \in S \ {x} PROVE \E k \in 1..(n - 1) : f[k] = y
      OBVIOUS
    <2>1. PICK k \in 1..n : e[k] = y
      BY <1>2
    <2>2. CASE k < c
      <3>1. k \in 1..(n - 1)
        BY <1>a, <2>2
      <3> QED
        BY <1>f, <2>1, <2>2, <3>1
    <2>3. CASE k > c
      <3>1. k - 1 \in 1..(n - 1) /\ ~(k - 1 < c) /\ (k - 1) + 1 = k
        BY <1>a, <2>3
      <3> QED
        BY <1>f, <2>1, <3>1
    <2>4. k # c
      BY <1>3, <2>1
    <2> QED
      BY <1>a, <2>2, <2>3, <2>4
  <1>7. \A j, k \in 1..(n - 1) : f[j] = f[k] => j = k
    <2> SUFFICES ASSUME NEW j \in 1..(n - 1), NEW k \in 1..(n - 1), f[j] = f[k] PROVE j = k
      OBVIOUS
    <2> DEFINE a == IF j < c THEN j ELSE j + 1
               b == IF k < c THEN k ELSE k + 1
    <2>1. a \in 1..n /\ b \in 1..n /\ f[j] = e[a] /\ f[k] = e[b]
      BY <1>f
    <2>2. a = b
      <3> HIDE DEF a, b
      <3> QED
        BY <1>2, <2>1
    <2> QED
      BY <1>a, <2>2
  <1>8. q[0] = 0 /\ q[n - 1] = t - amt[x]
    <2>1. 0 \in 0..(n - 1) /\ 0 < c /\ n - 1 \in 0..(n - 1) /\ (n - 1) + 1 = n
      BY <1>a
    <2>2. q[0] = 0
      BY <1>2, <1>q, <2>1
    <2>3. CASE n - 1 < c
      <3>1. c = n
        BY <1>a, <2>3
      <3>2. r[n] = r[n - 1] + amt[x] /\ r[n - 1] \in Int /\ amt[x] \in Int
        BY <1>2, <1>3, <1>q, <2>1, <3>1
      <3>3. q[n - 1] = r[n - 1]
        BY <1>q, <2>1, <2>3
      <3>4. r[n] = t
        BY <1>2
      <3> QED
        BY <2>2, <3>2, <3>3, <3>4
    <2>4. CASE ~(n - 1 < c)
      <3>1. q[n - 1] = r[(n - 1) + 1] - amt[x]
        BY <1>q, <2>1, <2>4
      <3>2. r[n] = t
        BY <1>2
      <3> QED
        BY <2>1, <2>2, <3>1, <3>2
    <2> QED
      BY <2>3, <2>4
  <1>9. \A k \in 1..(n - 1) : q[k] = q[k - 1] + amt[f[k]]
    <2> SUFFICES ASSUME NEW k \in 1..(n - 1) PROVE q[k] = q[k - 1] + amt[f[k]]
      OBVIOUS
    <2>1. k - 1 \in 0..(n - 1) /\ k \in 0..(n - 1) /\ (k - 1) + 1 = k /\ (k + 1) - 1 = k
      BY <1>a
    <2>2. /\ r[k] \in Int /\ r[k - 1] \in Int /\ r[k + 1] \in Int
          /\ amt[e[k]] \in Int /\ amt[e[k + 1]] \in Int /\ amt[x] \in Int
      BY <1>2, <1>f, <1>q, <2>1
    <2>3. r[k] = r[k - 1] + amt[e[k]] /\ r[k + 1] = r[k] + amt[e[k + 1]]
      BY <1>2, <1>f, <2>1
    <2>4. CASE k < c
      <3>1. k - 1 < c
        BY <1>a, <2>4
      <3>2. q[k] = r[k] /\ q[k - 1] = r[k - 1] /\ f[k] = e[k]
        BY <1>f, <1>q, <2>1, <2>4, <3>1
      <3> QED
        BY <2>3, <3>2
    <2>5. CASE k = c
      <3>1. k - 1 < c /\ ~(k < c)
        BY <1>a, <2>5
      <3>2. q[k] = r[k + 1] - amt[x] /\ q[k - 1] = r[k - 1] /\ f[k] = e[k + 1] /\ e[k] = x
        BY <1>f, <1>q, <1>3, <2>1, <2>5, <3>1
      <3> QED
        BY <2>2, <2>3, <3>2
    <2>6. CASE k > c
      <3>1. ~(k - 1 < c) /\ ~(k < c)
        BY <1>a, <2>6
      <3>2. q[k] = r[k + 1] - amt[x] /\ q[k - 1] = r[k] - amt[x] /\ f[k] = e[k + 1]
        BY <1>f, <1>q, <2>1, <3>1
      <3> QED
        BY <2>2, <2>3, <3>2
    <2> QED
      BY <1>a, <2>4, <2>5, <2>6
  <1>10. f \in [1..(n - 1) -> S \ {x}] /\ q \in [0..(n - 1) -> Int]
    BY <1>4, <1>5, <1>g
  <1>11. Totals(S \ {x}, amt, t - amt[x], n - 1, f, q)
    BY <1>a, <1>6, <1>7, <1>8, <1>9, <1>10 DEF Totals
  <1> QED
    BY <1>11 DEF AddsUp

\* Only the amounts of the members count.
LEMMA SameAmounts ==
  ASSUME NEW S, NEW amt, NEW amt2, NEW t, AddsUp(S, amt, t),
         \A y \in S : amt2[y] = amt[y]
  PROVE  AddsUp(S, amt2, t)
  <1>1. PICK n, e, r : Totals(S, amt, t, n, e, r)
    BY DEF AddsUp
  <1>2. Totals(S, amt2, t, n, e, r)
    BY <1>1 DEF Totals
  <1> QED
    BY <1>2 DEF AddsUp
=============================================================================
