----------------------------- MODULE DataLemmas -----------------------------
(***************************************************************************)
(* Facts about numbers, sequences and folds that the proofs of the kernel  *)
(* and of the desktop share.                                               *)
(*                                                                         *)
(* Induction is by sets: a set that holds 0 and with each number the next  *)
(* one holds every number.  It follows from the least element that every   *)
(* set of naturals has, and needs no predicate as a parameter.             *)
(***************************************************************************)
EXTENDS Integers, Sequences, SequencesExt, SequenceTheorems, WellFoundedInduction, TLAPS

(* Every set of naturals has a least element. *)
LEMMA LeastElement ==
    ASSUME NEW S \in SUBSET Nat, S # {}
    PROVE  \E i \in S : \A j \in S : i <= j
  <1>1. \E R : IsWellFoundedOn(R, Nat) /\ \A i, j \in Nat : <<j, i>> \in R <=> j < i
    <2>1. \A i, j \in Nat : <<j, i>> \in OpToRel(<, Nat) <=> j < i
      BY DEF OpToRel
    <2>2. QED
      BY <2>1, NatLessThanWellFounded
  <1>2. PICK R : IsWellFoundedOn(R, Nat) /\ \A i, j \in Nat : <<j, i>> \in R <=> j < i
    BY <1>1
  <1>3. PICK i \in S : \A j \in S : <<j, i>> \notin R
    BY <1>2, WFMin
  <1>4. ASSUME NEW j \in S PROVE i <= j
    <2>1. i \in Nat /\ j \in Nat /\ ~ (j < i)
      BY <1>2, <1>3
    <2>2. QED
      BY <2>1
  <1>5. QED
    BY <1>4

LEMMA SetInduction ==
    ASSUME NEW S, 0 \in S, \A n \in Nat : n \in S => n + 1 \in S
    PROVE  \A n \in Nat : n \in S
  <1>1. SUFFICES ASSUME NEW m \in Nat, m \notin S PROVE FALSE
    OBVIOUS
  <1>2. PICK x \in Nat \ S : \A y \in Nat \ S : x <= y
    BY <1>1, LeastElement
  <1>3. x # 0 /\ x - 1 \in Nat /\ (x - 1) + 1 = x /\ ~(x <= x - 1)
    BY <1>2
  <1>4. x - 1 \in S
    BY <1>2, <1>3
  <1>5. QED
    BY <1>2, <1>3, <1>4

LEMMA GreatestElement ==
    ASSUME NEW n \in Nat, NEW s \in SUBSET (1 .. n), s # {}
    PROVE  Max(s) \in s /\ \A i \in s : i <= Max(s)
  <1> DEFINE T == {n - i : i \in s}
  <1>1. \A i \in s : i \in Nat /\ n - i \in Nat
    OBVIOUS
  <1>2. T \in SUBSET Nat /\ T # {}
    BY <1>1
  <1>3. PICK t \in T : \A u \in T : t <= u
    BY <1>2, LeastElement
  <1>4. PICK m \in s : t = n - m
    BY <1>3
  <1>5. \A i \in s : m >= i
    <2>1. TAKE i \in s
    <2>2. n - m <= n - i
      BY <1>3, <1>4
    <2>3. QED
      BY <2>2, <1>1
  <1>6. m \in {x \in s : \A y \in s : x >= y}
    BY <1>5
  <1> HIDE DEF T
  <1>7. Max(s) \in s /\ \A y \in s : Max(s) >= y
    BY <1>5 DEF Max
  <1>8. QED
    BY <1>1, <1>7

(* g is what the recursion of a fold over 1 .. k computes for each subset. *)
Folds(g, k, S, c, F) ==
    /\ g \in [SUBSET (1 .. k) -> S]
    /\ \A s \in SUBSET (1 .. k) :
           g[s] = IF s = {} THEN c ELSE F[Max(s)][g[s \ {Max(s)}]]

(* Such a g exists. *)
LEMMA FoldExists ==
    ASSUME NEW n \in Nat, NEW S, NEW c \in S, NEW F \in [1 .. n -> [S -> S]]
    PROVE  \E g : Folds(g, n, S, c, F)
  <1> DEFINE Q == {k \in Nat : k <= n => \E g : Folds(g, k, S, c, F)}
  <1>1. \E g : Folds(g, 0, S, c, F)
    <2> DEFINE g == [s \in SUBSET (1 .. 0) |-> c]
    <2>1. \A s \in SUBSET (1 .. 0) : s = {}
      OBVIOUS
    <2>2. Folds(g, 0, S, c, F)
      BY <2>1 DEF Folds
    <2>3. QED
      BY <2>2
  <1>2. ASSUME NEW k \in Nat, k + 1 <= n, \E g : Folds(g, k, S, c, F)
        PROVE  \E h : Folds(h, k + 1, S, c, F)
    <2>1. PICK g : Folds(g, k, S, c, F)
      BY <1>2
    <2> DEFINE h == [s \in SUBSET (1 .. k + 1) |->
                       IF k + 1 \in s THEN F[k + 1][g[s \ {k + 1}]] ELSE g[s]]
    <2>2. k + 1 \in 1 .. n /\ F[k + 1] \in [S -> S]
      BY <1>2
    <2>3. \A s \in SUBSET (1 .. k + 1) : s \ {k + 1} \in SUBSET (1 .. k)
      OBVIOUS
    <2>4. \A s \in SUBSET (1 .. k + 1) : k + 1 \notin s => s \in SUBSET (1 .. k)
      OBVIOUS
    <2>5. h \in [SUBSET (1 .. k + 1) -> S]
      <3>1. ASSUME NEW s \in SUBSET (1 .. k + 1)
            PROVE  (IF k + 1 \in s THEN F[k + 1][g[s \ {k + 1}]] ELSE g[s]) \in S
        BY <2>1, <2>2, <2>3, <2>4 DEF Folds
      <3>2. QED
        BY <3>1
    <2>6. ASSUME NEW s \in SUBSET (1 .. k + 1)
          PROVE  h[s] = IF s = {} THEN c ELSE F[Max(s)][h[s \ {Max(s)}]]
      <3>1. CASE k + 1 \in s
        <4>1. Max(s) = k + 1
          <5>1. Max(s) \in s /\ k + 1 <= Max(s)
            BY <3>1, GreatestElement, k + 1 \in Nat, s # {}
          <5>2. Max(s) \in 1 .. k + 1
            BY <5>1
          <5>3. QED
            BY <5>1, <5>2
        <4>2. h[s] = F[k + 1][g[s \ {k + 1}]]
          BY <3>1
        <4>3. h[s \ {k + 1}] = g[s \ {k + 1}]
          OBVIOUS
        <4>4. QED
          BY <3>1, <4>1, <4>2, <4>3
      <3>2. CASE k + 1 \notin s
        <4>1. s \in SUBSET (1 .. k) /\ h[s] = g[s]
          BY <2>4, <3>2
        <4>2. h[s \ {Max(s)}] = g[s \ {Max(s)}]
          BY <3>2
        <4>3. QED
          BY <2>1, <4>1, <4>2 DEF Folds
      <3>3. QED
        BY <3>1, <3>2
    <2> HIDE DEF h
    <2>7. Folds(h, k + 1, S, c, F)
      BY <2>5, <2>6 DEF Folds
    <2>8. QED
      BY <2>7
  <1>3. \A k \in Nat : k \in Q
    <2>1. 0 \in Q
      BY <1>1
    <2>2. ASSUME NEW k \in Nat, k \in Q PROVE k + 1 \in Q
      <3>1. k + 1 <= n => k <= n
        OBVIOUS
      <3>2. QED
        BY <1>2, <2>2, <3>1
    <2> HIDE DEF Q
    <2>3. QED
      BY <2>1, <2>2, SetInduction
  <1>4. QED
    BY <1>3

-----------------------------------------------------------------------------
(* r is q with e put in at position k, and with position k taken out. *)
Inserted(T, r, q, k, e) ==
    /\ r \in Seq(T)
    /\ Len(r) = Len(q) + 1
    /\ \A j \in 1 .. Len(r) :
           r[j] = IF j < k THEN q[j] ELSE IF j = k THEN e ELSE q[j - 1]

Removed(T, r, q, k) ==
    /\ r \in Seq(T)
    /\ Len(r) = Len(q) - 1
    /\ \A j \in 1 .. Len(r) : r[j] = IF j < k THEN q[j] ELSE q[j + 1]

(* The elements of a concatenation. *)
LEMMA ConcatFacts ==
    ASSUME NEW T, NEW a \in Seq(T), NEW c \in Seq(T)
    PROVE  /\ a \o c \in Seq(T)
           /\ Len(a \o c) = Len(a) + Len(c)
           /\ \A j \in 1 .. (Len(a) + Len(c)) :
                  (a \o c)[j] = IF j <= Len(a) THEN a[j] ELSE c[j - Len(a)]
  <1>1. a \o c \in Seq(T) /\ Len(a \o c) = Len(a) + Len(c)
    OBVIOUS
  <1>2. \A j \in 1 .. (Len(a) + Len(c)) :
            (a \o c)[j] = IF j <= Len(a) THEN a[j] ELSE c[j - Len(a)]
    OBVIOUS
  <1>3. QED
    BY <1>1, <1>2

(* What InsertAt and RemoveAt return, element by element. *)
LEMMA InsertAtFacts ==
    ASSUME NEW T, NEW q \in Seq(T), NEW k \in 1 .. (Len(q) + 1), NEW e \in T
    PROVE  Inserted(T, InsertAt(q, k, e), q, k, e)
  <1> DEFINE a == SubSeq(q, 1, k - 1)
             c == SubSeq(q, k, Len(q))
             n == Len(q)
  <1>0. n \in Nat /\ k \in Nat /\ 1 <= k /\ k <= n + 1
    OBVIOUS
  <1>1. /\ a \in Seq(T) /\ Len(a) = k - 1
        /\ \A j \in 1 .. (k - 1) : a[j] = q[j]
    OBVIOUS
  <1>2. /\ c \in Seq(T) /\ Len(c) = n + 1 - k
        /\ \A j \in 1 .. (n + 1 - k) : c[j] = q[k + j - 1]
    OBVIOUS
  <1>3. <<e>> \in Seq(T) /\ Len(<<e>>) = 1 /\ <<e>>[1] = e
    OBVIOUS
  <1> DEFINE b == a \o <<e>>
             r == b \o c
  <1>4. /\ b \in Seq(T) /\ Len(b) = Len(a) + 1
        /\ \A j \in 1 .. (Len(a) + 1) : b[j] = IF j <= Len(a) THEN a[j] ELSE <<e>>[j - Len(a)]
    BY <1>1, <1>3, ConcatFacts
  <1>5. InsertAt(q, k, e) = r
    BY DEF InsertAt
  <1> HIDE DEF a, c, n, b
  <1>6. /\ r \in Seq(T) /\ Len(r) = Len(b) + Len(c)
        /\ \A j \in 1 .. (Len(b) + Len(c)) : r[j] = IF j <= Len(b) THEN b[j] ELSE c[j - Len(b)]
    BY <1>2, <1>4, ConcatFacts
  <1> HIDE DEF r
  <1>7. Len(b) = k /\ \A j \in 1 .. k : b[j] = IF j < k THEN q[j] ELSE e
    <2>1. Len(b) = k
      BY <1>0, <1>1, <1>4
    <2>2. ASSUME NEW j \in 1 .. k, j < k PROVE b[j] = q[j]
      BY <2>2, <1>0, <1>1, <1>4
    <2>3. b[k] = e
      BY <1>0, <1>1, <1>3, <1>4
    <2>4. QED
      BY <2>1, <2>2, <2>3, <1>0
  <1>8. Len(r) = n + 1
    BY <1>0, <1>2, <1>6, <1>7
  <1>9. ASSUME NEW j \in 1 .. (n + 1)
        PROVE  r[j] = IF j < k THEN q[j] ELSE IF j = k THEN e ELSE q[j - 1]
    <2>1. CASE j <= k
      BY <2>1, <1>0, <1>2, <1>6, <1>7
    <2>2. CASE j > k
      <3>1. r[j] = c[j - k]
        BY <2>2, <1>0, <1>2, <1>6, <1>7
      <3>2. c[j - k] = q[k + (j - k) - 1]
        BY <2>2, <1>0, <1>2
      <3>3. k + (j - k) - 1 = j - 1
        BY <1>0
      <3>4. QED
        BY <2>2, <3>1, <3>2, <3>3, <1>0
    <2>3. QED
      BY <2>1, <2>2, <1>0
  <1>10. Inserted(T, r, q, k, e)
    BY <1>6, <1>8, <1>9 DEF Inserted, n
  <1>11. QED
    BY <1>5, <1>10

(* Likewise for the removal. *)
LEMMA RemoveAtFacts ==
    ASSUME NEW T, NEW q \in Seq(T), NEW k \in 1 .. Len(q)
    PROVE  Removed(T, RemoveAt(q, k), q, k)
  <1> DEFINE a == SubSeq(q, 1, k - 1)
             c == SubSeq(q, k + 1, Len(q))
             n == Len(q)
  <1>0. n \in Nat /\ k \in Nat /\ 1 <= k /\ k <= n
    OBVIOUS
  <1>1. /\ a \in Seq(T) /\ Len(a) = k - 1
        /\ \A j \in 1 .. (k - 1) : a[j] = q[j]
    OBVIOUS
  <1>2. /\ c \in Seq(T) /\ Len(c) = n - k
        /\ \A j \in 1 .. (n - k) : c[j] = q[k + j]
    OBVIOUS
  <1> DEFINE r == a \o c
  <1>3. RemoveAt(q, k) = r
    BY DEF RemoveAt
  <1> HIDE DEF a, c, n
  <1>4. /\ r \in Seq(T) /\ Len(r) = Len(a) + Len(c)
        /\ \A j \in 1 .. (Len(a) + Len(c)) : r[j] = IF j <= Len(a) THEN a[j] ELSE c[j - Len(a)]
    BY <1>1, <1>2, ConcatFacts
  <1> HIDE DEF r
  <1>5. Len(r) = n - 1
    BY <1>0, <1>1, <1>2, <1>4
  <1>6. ASSUME NEW j \in 1 .. (n - 1)
        PROVE  r[j] = IF j < k THEN q[j] ELSE q[j + 1]
    <2>1. CASE j < k
      BY <2>1, <1>0, <1>1, <1>2, <1>4
    <2>2. CASE j >= k
      <3>1. r[j] = c[j - (k - 1)]
        BY <2>2, <1>0, <1>1, <1>2, <1>4
      <3>2. c[j - (k - 1)] = q[k + (j - (k - 1))]
        BY <2>2, <1>0, <1>2
      <3>3. k + (j - (k - 1)) = j + 1
        BY <1>0
      <3>4. QED
        BY <2>2, <3>1, <3>2, <3>3, <1>0
    <2>3. QED
      BY <2>1, <2>2, <1>0
  <1>7. Removed(T, r, q, k)
    BY <1>4, <1>5, <1>6 DEF Removed, n
  <1>8. QED
    BY <1>3, <1>7

(* Where the elements of the one are in the other. *)
LEMMA InsertedElements ==
    ASSUME NEW T, NEW q \in Seq(T), NEW k \in 1 .. (Len(q) + 1), NEW e, NEW r,
           Inserted(T, r, q, k, e)
    PROVE  /\ k \in DOMAIN r /\ r[k] = e
           /\ \A j \in DOMAIN r \ {k} : LET i == IF j < k THEN j ELSE j - 1
                                        IN  i \in DOMAIN q /\ r[j] = q[i]
           /\ \A i \in DOMAIN q : LET j == IF i < k THEN i ELSE i + 1
                                   IN  j \in DOMAIN r \ {k} /\ r[j] = q[i]
  <1>1. Len(q) \in Nat /\ DOMAIN q = 1 .. Len(q)
    OBVIOUS
  <1>2. /\ DOMAIN r = 1 .. (Len(q) + 1)
        /\ \A j \in 1 .. (Len(q) + 1) :
               r[j] = IF j < k THEN q[j] ELSE IF j = k THEN e ELSE q[j - 1]
    <2>1. r \in Seq(T) /\ Len(r) = Len(q) + 1
      BY DEF Inserted
    <2>2. DOMAIN r = 1 .. Len(r)
      BY <2>1
    <2>3. QED
      BY <2>1, <2>2 DEF Inserted
  <1>3. k \in DOMAIN r /\ r[k] = e
    BY <1>1, <1>2
  <1>4. ASSUME NEW j \in DOMAIN r \ {k}
        PROVE  LET i == IF j < k THEN j ELSE j - 1
               IN  i \in DOMAIN q /\ r[j] = q[i]
    <2>1. CASE j < k
      BY <2>1, <1>1, <1>2
    <2>2. CASE j > k
      BY <2>2, <1>1, <1>2
    <2>3. QED
      BY <2>1, <2>2, <1>1, <1>2
  <1>5. ASSUME NEW i \in DOMAIN q
        PROVE  LET j == IF i < k THEN i ELSE i + 1
               IN  j \in DOMAIN r \ {k} /\ r[j] = q[i]
    <2>1. CASE i < k
      BY <2>1, <1>1, <1>2
    <2>2. CASE i >= k
      <3>1. i + 1 \in 1 .. (Len(q) + 1) /\ ~(i + 1 < k) /\ i + 1 # k /\ (i + 1) - 1 = i /\ ~(i < k)
        BY <2>2, <1>1
      <3>2. r[i + 1] = q[i]
        BY <3>1, <1>2
      <3>3. QED
        BY <1>2, <3>1, <3>2
    <2>3. QED
      BY <2>1, <2>2, <1>1
  <1>6. QED
    BY <1>3, <1>4, <1>5

(* The intervals a fold from the left goes through. *)
LEMMA FoldIntervals ==
    ASSUME NEW n \in Nat
    PROVE  /\ 1 .. 0 = {}
           /\ \A k \in 0 .. n : (1 .. k) \in SUBSET (1 .. n)
           /\ \A k \in 1 .. n :
                  /\ 1 .. k # {} /\ Max(1 .. k) = k
                  /\ (1 .. k) \ {k} = 1 .. (k - 1)
  <1>1. 1 .. 0 = {}
    OBVIOUS
  <1>2. \A k \in 0 .. n : (1 .. k) \in SUBSET (1 .. n)
    OBVIOUS
  <1>3. ASSUME NEW k \in 1 .. n
        PROVE  1 .. k # {} /\ Max(1 .. k) = k /\ (1 .. k) \ {k} = 1 .. (k - 1)
    <2>1. k \in Nat /\ k \in 1 .. k
      OBVIOUS
    <2>2. (1 .. k) \ {k} = 1 .. (k - 1)
      OBVIOUS
    <2>3. 1 .. k # {}
      BY <2>1
    <2>4. Max(1 .. k) \in 1 .. k /\ k <= Max(1 .. k)
      BY <2>1, <2>3, GreatestElement
    <2>5. Max(1 .. k) = k
      BY <2>1, <2>4
    <2>6. QED
      BY <2>2, <2>3, <2>5
  <1>4. QED
    BY <1>1, <1>2, <1>3

(* g is what a recursion over 0 .. n computes. *)
Recursion(g, n, S, c, F) ==
    /\ g \in [0 .. n -> S]
    /\ g[0] = c
    /\ \A k \in 1 .. n : g[k] = F[k][g[k - 1]]

(* Such a g exists, too. *)
LEMMA RecursionExists ==
    ASSUME NEW n \in Nat, NEW S, NEW c \in S, NEW F \in [1 .. n -> [S -> S]]
    PROVE  \E g : Recursion(g, n, S, c, F)
  <1>1. PICK h : Folds(h, n, S, c, F)
    BY FoldExists
  <1> DEFINE g == [k \in 0 .. n |-> h[1 .. k]]
  <1>2. g \in [0 .. n -> S]
    BY <1>1, FoldIntervals DEF Folds
  <1>3. g[0] = c
    <2>1. {} \in SUBSET (1 .. n)
      OBVIOUS
    <2>2. h[{}] = c
      BY <1>1, <2>1 DEF Folds
    <2>3. QED
      BY <2>2, FoldIntervals
  <1>4. ASSUME NEW k \in 1 .. n PROVE g[k] = F[k][g[k - 1]]
    <2>1. /\ 1 .. k \in SUBSET (1 .. n) /\ 1 .. k # {} /\ Max(1 .. k) = k
          /\ (1 .. k) \ {k} = 1 .. (k - 1) /\ k \in 0 .. n /\ k - 1 \in 0 .. n
      BY FoldIntervals
    <2>2. h[1 .. k] = F[k][h[(1 .. k) \ {k}]]
      BY <1>1, <2>1 DEF Folds
    <2>3. QED
      BY <2>1, <2>2
  <1> HIDE DEF g
  <1>5. Recursion(g, n, S, c, F)
    BY <1>2, <1>3, <1>4 DEF Recursion
  <1>6. QED
    BY <1>5

(* A part of a sequence, from the position m to the position n. *)
LEMMA SubSeqFacts ==
    ASSUME NEW T, NEW q \in Seq(T), NEW m \in Nat, NEW n \in Nat, 1 <= m, m <= n + 1, n <= Len(q)
    PROVE  /\ SubSeq(q, m, n) \in Seq(T)
           /\ Len(SubSeq(q, m, n)) = n - m + 1
           /\ \A j \in 1 .. (n - m + 1) : SubSeq(q, m, n)[j] = q[m + j - 1]
  <1>1. m \in Int /\ n \in Int /\ \A j \in m .. n : q[j] \in T
    OBVIOUS
  <1> DEFINE f == SubSeq(q, m, n)
  <1>2. /\ f \in Seq(T)
        /\ Len(f) = IF m <= n THEN n - m + 1 ELSE 0
        /\ \A j \in 1 .. n - m + 1 : f[j] = q[m + j - 1]
    BY <1>1, SubSeqProperties
  <1> HIDE DEF f
  <1>3. Len(f) = n - m + 1
    BY <1>2
  <1>4. QED
    BY <1>2, <1>3, Zenon DEF f

(* All but the last element. *)
LEMMA FrontFacts ==
    ASSUME NEW T, NEW q \in Seq(T), q # <<>>
    PROVE  /\ SubSeq(q, 1, Len(q) - 1) \in Seq(T)
           /\ Len(SubSeq(q, 1, Len(q) - 1)) = Len(q) - 1
           /\ \A j \in 1 .. (Len(q) - 1) : SubSeq(q, 1, Len(q) - 1)[j] = q[j]
  <1> DEFINE n == Len(q) - 1
  <1>1. n \in Nat /\ n <= Len(q)
    <2>1. Len(q) \in Nat /\ Len(q) # 0
      OBVIOUS
    <2>2. QED
      BY <2>1
  <1> HIDE DEF n
  <1> DEFINE f == SubSeq(q, 1, n)
  <1>2. /\ f \in Seq(T) /\ Len(f) = n - 1 + 1
        /\ \A j \in 1 .. (n - 1 + 1) : f[j] = q[1 + j - 1]
    BY <1>1, SubSeqFacts
  <1> HIDE DEF f
  <1>3. Len(f) = n /\ \A j \in 1 .. n : f[j] = q[j]
    BY <1>1, <1>2
  <1>4. QED
    BY <1>2, <1>3, Zenon DEF f, n

(* What holds of the first and stays so turn by turn holds of each. *)
LEMMA Reaches ==
    ASSUME NEW n \in Nat, NEW f, NEW G, f[0] \in G[0],
           \A k \in 1 .. n : f[k - 1] \in G[k - 1] => f[k] \in G[k]
    PROVE  \A k \in 0 .. n : f[k] \in G[k]
<1> DEFINE Turns == {k \in Nat : k <= n => f[k] \in G[k]}
<1>1. 0 \in Turns
  OBVIOUS
<1>2. ASSUME NEW k \in Nat, k \in Turns PROVE k + 1 \in Turns
  <2>1. SUFFICES ASSUME k + 1 <= n PROVE f[k + 1] \in G[k + 1]
    OBVIOUS
  <2>2. k + 1 \in 1 .. n /\ (k + 1) - 1 = k /\ k <= n
    BY <2>1
  <2> QED
    BY <1>2, <2>2
<1> HIDE DEF Turns
<1>3. \A k \in Nat : k \in Turns
  BY <1>1, <1>2, SetInduction
<1> QED
  BY <1>3 DEF Turns
-----------------------------------------------------------------------------
(* Concatenation as a name of its own: the provers then see no more of it  *)
(* than these facts.                                                       *)
Cat(a, b) == a \o b

(* The type and the length of a concatenation. *)
LEMMA CatFacts ==
    ASSUME NEW T, NEW a \in Seq(T), NEW b \in Seq(T)
    PROVE  Cat(a, b) \in Seq(T) /\ Len(Cat(a, b)) = Len(a) + Len(b)
  BY ConcatFacts DEF Cat

(* It does not matter which two of three texts are put together first. *)
LEMMA CatAssociative ==
    ASSUME NEW T, NEW a \in Seq(T), NEW b \in Seq(T), NEW c \in Seq(T)
    PROVE  Cat(Cat(a, b), c) = Cat(a, Cat(b, c))
  BY ConcatAssociative DEF Cat

(* Of five parts, the second and the fourth joined to their outer neighbours. *)
LEMMA Regroup ==
    ASSUME NEW T, NEW a \in Seq(T), NEW b \in Seq(T), NEW m \in Seq(T), NEW d \in Seq(T),
           NEW t \in Seq(T)
    PROVE  /\ Cat(Cat(a, Cat(b, d)), t) = Cat(Cat(a, b), Cat(d, t))
           /\ Cat(Cat(a, Cat(Cat(b, m), d)), t) = Cat(Cat(Cat(a, b), m), Cat(d, t))
  <1>1. ASSUME NEW c \in Seq(T)
        PROVE  Cat(Cat(a, Cat(c, d)), t) = Cat(Cat(a, c), Cat(d, t))
    <2>1. Cat(a, c) \in Seq(T) /\ Cat(a, Cat(c, d)) = Cat(Cat(a, c), d)
      BY CatFacts, CatAssociative
    <2>2. QED
      BY <2>1, CatAssociative
  <1>2. Cat(b, m) \in Seq(T) /\ Cat(Cat(a, b), m) = Cat(a, Cat(b, m))
    BY CatFacts, CatAssociative
  <1>3. QED
    BY <1>1, <1>2

(* A text cut where two parts of it meet. *)
LEMMA CutWhereTheyMeet ==
    ASSUME NEW T, NEW u \in Seq(T), NEW v \in Seq(T)
    PROVE  /\ SubSeq(Cat(u, v), 1, Len(u)) = u
           /\ SubSeq(Cat(u, v), Len(u) + 1, Len(Cat(u, v))) = v
  <1> DEFINE q == Cat(u, v)
             b == SubSeq(q, 1, Len(u))
             d == SubSeq(q, Len(u) + 1, Len(q))
  <1>1. Len(u) \in Nat /\ Len(v) \in Nat
    OBVIOUS
  <1>2. /\ q \in Seq(T) /\ Len(q) = Len(u) + Len(v)
        /\ \A j \in 1 .. (Len(u) + Len(v)) : q[j] = IF j <= Len(u) THEN u[j] ELSE v[j - Len(u)]
    BY ConcatFacts DEF Cat
  <1> HIDE DEF q
  <1>3. b = u
    <2>1. /\ b \in Seq(T) /\ Len(b) = Len(u) - 1 + 1
          /\ \A j \in 1 .. (Len(u) - 1 + 1) : b[j] = q[1 + j - 1]
      BY <1>1, <1>2, SubSeqFacts
    <2> HIDE DEF b
    <2>2. Len(b) = Len(u) /\ \A j \in 1 .. Len(b) : b[j] = u[j]
      BY <1>1, <1>2, <2>1
    <2>3. QED
      BY <2>1, <2>2, SeqEqual
  <1>4. d = v
    <2>1. /\ d \in Seq(T) /\ Len(d) = Len(q) - (Len(u) + 1) + 1
          /\ \A j \in 1 .. (Len(q) - (Len(u) + 1) + 1) : d[j] = q[(Len(u) + 1) + j - 1]
      BY <1>1, <1>2, SubSeqFacts
    <2> HIDE DEF d
    <2>2. Len(d) = Len(v)
      BY <1>1, <1>2, <2>1
    <2>3. ASSUME NEW j \in 1 .. Len(d) PROVE d[j] = v[j]
      <3>1. /\ (Len(u) + 1) + j - 1 \in 1 .. (Len(u) + Len(v)) /\ ~((Len(u) + 1) + j - 1 <= Len(u))
            /\ ((Len(u) + 1) + j - 1) - Len(u) = j
        BY <1>1, <2>2
      <3>2. d[j] = q[(Len(u) + 1) + j - 1]
        BY <1>1, <1>2, <2>1, <2>2
      <3>3. QED
        BY <1>2, <3>1, <3>2
    <2>4. QED
      BY <2>1, <2>2, <2>3, SeqEqual
  <1>5. QED
    BY <1>3, <1>4 DEF b, d, q

(* The two parts of a text make it up. *)
LEMMA PartsMeet ==
    ASSUME NEW T, NEW q \in Seq(T), NEW n \in 0 .. Len(q)
    PROVE  LET u == SubSeq(q, 1, n)
               v == SubSeq(q, n + 1, Len(q))
           IN  /\ u \in Seq(T) /\ v \in Seq(T) /\ Len(u) = n /\ Len(v) = Len(q) - n
               /\ Cat(u, v) = q
  <1> DEFINE u == SubSeq(q, 1, n)
             v == SubSeq(q, n + 1, Len(q))
             r == Cat(u, v)
  <1>1. Len(q) \in Nat /\ n \in Nat /\ n <= Len(q)
    OBVIOUS
  <1>2. u \in Seq(T) /\ Len(u) = n - 1 + 1 /\ \A j \in 1 .. (n - 1 + 1) : u[j] = q[1 + j - 1]
    BY <1>1, SubSeqFacts
  <1>3. /\ v \in Seq(T) /\ Len(v) = Len(q) - (n + 1) + 1
        /\ \A j \in 1 .. (Len(q) - (n + 1) + 1) : v[j] = q[(n + 1) + j - 1]
    BY <1>1, SubSeqFacts
  <1> HIDE DEF u, v
  <1>4. /\ r \in Seq(T) /\ Len(r) = Len(u) + Len(v)
        /\ \A j \in 1 .. (Len(u) + Len(v)) : r[j] = IF j <= Len(u) THEN u[j] ELSE v[j - Len(u)]
    BY <1>2, <1>3, ConcatFacts DEF Cat
  <1> HIDE DEF r
  <1>5. Len(u) = n /\ Len(v) = Len(q) - n
    BY <1>1, <1>2, <1>3
  <1>6. ASSUME NEW j \in 1 .. Len(r) PROVE r[j] = q[j]
    <2>1. j \in 1 .. (Len(u) + Len(v)) /\ j \in Nat
      BY <1>4
    <2>2. CASE j <= n
      <3>1. r[j] = u[j] /\ j \in 1 .. (n - 1 + 1) /\ 1 + j - 1 = j
        BY <1>1, <1>4, <1>5, <2>1, <2>2
      <3>2. QED
        BY <1>2, <3>1
    <2>3. CASE j > n
      <3>1. /\ r[j] = v[j - n] /\ j - n \in 1 .. (Len(q) - (n + 1) + 1) /\ (n + 1) + (j - n) - 1 = j
        BY <1>1, <1>4, <1>5, <2>1, <2>3
      <3>2. v[j - n] = q[(n + 1) + (j - n) - 1]
        BY <1>3, <3>1
      <3>3. QED
        BY <3>1, <3>2
    <2>4. QED
      BY <1>1, <2>1, <2>2, <2>3
  <1>7. Len(r) = Len(q)
    BY <1>1, <1>4, <1>5
  <1>8. r = q
    BY <1>4, <1>6, <1>7, SeqEqual
  <1>9. QED
    BY <1>2, <1>3, <1>5, <1>8 DEF u, v, r

(* What is put into the part l of a text is put into the text, as many     *)
(* places further as come before l.                                        *)
LEMMA InsertInPart ==
    ASSUME NEW T, NEW a \in Seq(T), NEW l \in Seq(T), NEW t \in Seq(T),
           NEW n \in 0 .. Len(l), NEW e \in T
    PROVE  Cat(Cat(a, InsertAt(l, n + 1, e)), t) = InsertAt(Cat(Cat(a, l), t), Len(a) + n + 1, e)
  <1> DEFINE b == SubSeq(l, 1, n)
             d == SubSeq(l, n + 1, Len(l))
             m == <<e>>
             q == Cat(Cat(a, l), t)
  <1>1. Len(a) \in Nat /\ n \in Nat /\ (n + 1) - 1 = n
    OBVIOUS
  <1>2. b \in Seq(T) /\ d \in Seq(T) /\ Len(b) = n /\ Cat(b, d) = l
    BY PartsMeet
  <1>3. m \in Seq(T)
    OBVIOUS
  <1>4. InsertAt(l, n + 1, e) = Cat(Cat(b, m), d)
    BY <1>1, Zenon DEF InsertAt, Cat
  <1>5. InsertAt(q, Len(a) + n + 1, e)
          = Cat(Cat(SubSeq(q, 1, (Len(a) + n + 1) - 1), m), SubSeq(q, Len(a) + n + 1, Len(q)))
    BY Zenon DEF InsertAt, Cat
  <1> HIDE DEF b, d, m
  <1>6. q = Cat(Cat(a, b), Cat(d, t))
    BY <1>2, <1>3, Regroup
  <1> HIDE DEF q
  <1>7. Cat(a, b) \in Seq(T) /\ Cat(d, t) \in Seq(T) /\ Len(Cat(a, b)) = Len(a) + n
    BY <1>2, CatFacts
  <1>8. SubSeq(q, 1, Len(a) + n) = Cat(a, b) /\ SubSeq(q, Len(a) + n + 1, Len(q)) = Cat(d, t)
    <2>1. LET r == Cat(Cat(a, b), Cat(d, t))
          IN  /\ SubSeq(r, 1, Len(Cat(a, b))) = Cat(a, b)
              /\ SubSeq(r, Len(Cat(a, b)) + 1, Len(r)) = Cat(d, t)
      BY <1>7, CutWhereTheyMeet
    <2>2. QED
      BY <1>6, <1>7, <2>1
  <1>9. (Len(a) + n + 1) - 1 = Len(a) + n
    BY <1>1
  <1>10. Cat(Cat(a, Cat(Cat(b, m), d)), t) = Cat(Cat(Cat(a, b), m), Cat(d, t))
    BY <1>2, <1>3, Regroup
  <1>11. QED
    BY <1>4, <1>5, <1>8, <1>9, <1>10, Zenon DEF q

(* Likewise for what is taken out. *)
LEMMA RemoveInPart ==
    ASSUME NEW T, NEW a \in Seq(T), NEW l \in Seq(T), NEW t \in Seq(T), NEW n \in 1 .. Len(l)
    PROVE  Cat(Cat(a, RemoveAt(l, n)), t) = RemoveAt(Cat(Cat(a, l), t), Len(a) + n)
  <1> DEFINE b == SubSeq(l, 1, n - 1)
             c == SubSeq(l, 1, n)
             d == SubSeq(l, n + 1, Len(l))
             q == Cat(Cat(a, l), t)
  <1>1. Len(a) \in Nat /\ n \in Nat /\ n \in 0 .. Len(l) /\ n - 1 \in 0 .. Len(l) /\ Len(l) \in Nat
    OBVIOUS
  <1>2. c \in Seq(T) /\ d \in Seq(T) /\ Len(c) = n /\ Cat(c, d) = l
    BY <1>1, PartsMeet
  <1>3. b \in Seq(T) /\ Len(b) = n - 1
    BY <1>1, PartsMeet
  <1>4. \E m \in Seq(T) : c = Cat(b, m)
    <2>1. /\ n - 1 \in 0 .. Len(c) /\ n - 1 \in Nat /\ n - 1 <= n /\ n <= Len(l)
      BY <1>1, <1>2
    <2> DEFINE x == SubSeq(c, 1, n - 1)
               y == SubSeq(c, (n - 1) + 1, Len(c))
    <2>2. x \in Seq(T) /\ y \in Seq(T) /\ Len(x) = n - 1 /\ Cat(x, y) = c
      BY <1>2, <2>1, PartsMeet
    <2>3. x = b
      <3>1. \A j \in 1 .. n : c[j] = l[j]
        BY <1>1, SubSeqFacts
      <3> HIDE DEF c
      <3>2. \A j \in 1 .. (n - 1) : x[j] = c[j]
        BY <1>1, <1>2, <2>1, SubSeqFacts
      <3>3. \A j \in 1 .. (n - 1) : b[j] = l[j]
        BY <1>1, <2>1, SubSeqFacts
      <3> HIDE DEF x, b
      <3>4. ASSUME NEW j \in 1 .. Len(x) PROVE x[j] = b[j]
        <4>1. j \in 1 .. n /\ j \in 1 .. (n - 1)
          BY <1>1, <2>2
        <4>2. QED
          BY <3>1, <3>2, <3>3, <4>1
      <3>5. QED
        BY <1>3, <2>2, <3>4, SeqEqual
    <2>4. QED
      BY <2>2, <2>3
  <1>5. RemoveAt(l, n) = Cat(b, d)
    BY Zenon DEF RemoveAt, Cat
  <1>6. RemoveAt(q, Len(a) + n)
          = Cat(SubSeq(q, 1, (Len(a) + n) - 1), SubSeq(q, (Len(a) + n) + 1, Len(q)))
    BY Zenon DEF RemoveAt, Cat
  <1> HIDE DEF b, c, d
  <1>7. PICK m \in Seq(T) : c = Cat(b, m)
    BY <1>4
  <1>8. /\ q = Cat(Cat(a, c), Cat(d, t))
        /\ Cat(Cat(a, c), Cat(d, t)) = Cat(Cat(a, b), Cat(m, Cat(d, t)))
    <2>1. q = Cat(Cat(a, c), Cat(d, t))
      BY <1>2, Regroup
    <2>2. Cat(a, b) \in Seq(T) /\ Cat(d, t) \in Seq(T)
      BY <1>2, <1>3, CatFacts
    <2>3. Cat(a, c) = Cat(Cat(a, b), m)
      BY <1>3, <1>7, CatAssociative
    <2>4. Cat(Cat(Cat(a, b), m), Cat(d, t)) = Cat(Cat(a, b), Cat(m, Cat(d, t)))
      BY <2>2, CatAssociative
    <2>5. QED
      BY <2>1, <2>3, <2>4
  <1> HIDE DEF q
  <1>9. /\ Cat(a, b) \in Seq(T) /\ Cat(a, c) \in Seq(T) /\ Cat(d, t) \in Seq(T)
        /\ Cat(m, Cat(d, t)) \in Seq(T)
        /\ Len(Cat(a, b)) = (Len(a) + n) - 1 /\ Len(Cat(a, c)) = Len(a) + n
    <2>1. Cat(a, b) \in Seq(T) /\ Cat(a, c) \in Seq(T) /\ Cat(d, t) \in Seq(T)
      BY <1>2, <1>3, CatFacts
    <2>2. Len(Cat(a, b)) = Len(a) + Len(b) /\ Len(Cat(a, c)) = Len(a) + Len(c)
      BY <1>2, <1>3, CatFacts
    <2>3. QED
      BY <1>1, <1>2, <1>3, <2>1, <2>2, CatFacts
  <1>10. SubSeq(q, 1, (Len(a) + n) - 1) = Cat(a, b)
    BY <1>8, <1>9, CutWhereTheyMeet
  <1>11. SubSeq(q, (Len(a) + n) + 1, Len(q)) = Cat(d, t)
    <2>1. LET r == Cat(Cat(a, c), Cat(d, t))
          IN  SubSeq(r, Len(Cat(a, c)) + 1, Len(r)) = Cat(d, t)
      BY <1>9, CutWhereTheyMeet
    <2>2. QED
      BY <1>8, <1>9, <2>1
  <1>12. Cat(Cat(a, Cat(b, d)), t) = Cat(Cat(a, b), Cat(d, t))
    BY <1>2, <1>3, Regroup
  <1>13. QED
    BY <1>5, <1>6, <1>10, <1>11, <1>12, Zenon DEF q

(* The lines from 0 to n - 1 as one text. *)
TextOf(ls, n) == FlattenSeq([i \in 1 .. n |-> ls[i - 1]])

(* The first m entries of ls are sequences over T; k of them from a on are  *)
(* those of ms from b on.                                                  *)
AreLines(ls, m, T) == \A r \in 0 .. (m - 1) : ls[r] \in Seq(T)

SameLines(ls, a, ms, b, k) == \A i \in 0 .. (k - 1) : ls[a + i] = ms[b + i]

(* Each line goes behind those before it. *)
LEMMA TextGrows ==
    ASSUME NEW T, NEW m \in Nat, NEW ls, AreLines(ls, m, T)
    PROVE  /\ TextOf(ls, 0) = <<>>
           /\ \A n \in 0 .. m : TextOf(ls, n) \in Seq(T)
           /\ \A n \in 1 .. m : TextOf(ls, n) = Cat(TextOf(ls, n - 1), ls[n - 1])
  <1> DEFINE S == Seq(T)
             F == [k \in 1 .. m |-> [s \in S |-> Cat(s, ls[k - 1])]]
  <1>1. <<>> \in S
    OBVIOUS
  <1>2. \A k \in 1 .. m : ls[k - 1] \in S
    BY DEF AreLines
  <1>3. F \in [1 .. m -> [S -> S]]
    <2>1. \A k \in 1 .. m : \A s \in S : Cat(s, ls[k - 1]) \in S
      BY <1>2, CatFacts
    <2> HIDE DEF S
    <2>2. QED
      BY <2>1
  <1>4. \A k \in 1 .. m : \A s \in S : F[k][s] = Cat(s, ls[k - 1])
    OBVIOUS
  <1> HIDE DEF F, S
  <1>5. PICK g : Recursion(g, m, S, <<>>, F)
    BY <1>1, <1>3, RecursionExists
  <1>6. /\ g[0] = <<>> /\ \A n \in 0 .. m : g[n] \in S
        /\ \A n \in 1 .. m : g[n] = Cat(g[n - 1], ls[n - 1])
    <2>1. \A n \in 1 .. m : n - 1 \in 0 .. m
      OBVIOUS
    <2>2. QED
      BY <1>4, <1>5, <2>1 DEF Recursion
  <1>7. TextOf(ls, 0) = <<>>
    <2>1. [i \in 1 .. 0 |-> ls[i - 1]] = <<>>
      OBVIOUS
    <2>2. Len(<<>>) = 0
      OBVIOUS
    <2>3. QED
      BY <2>1, <2>2, Zenon DEF TextOf, FlattenSeq
  <1>8. ASSUME NEW n \in 1 .. m
        PROVE  TextOf(ls, n) = g[n]
    <2> DEFINE q == [i \in 1 .. n |-> ls[i - 1]]
               IsFlat(h) == h = [i \in 1 .. Len(q) |-> IF i = 1 THEN q[i] ELSE h[i - 1] \o q[i]]
               flat == CHOOSE h : IsFlat(h)
               f == [i \in 1 .. n |-> g[i]]
    <2>1. n \in Nat /\ n # 0 /\ n \in 1 .. n /\ 1 \in 1 .. m
      OBVIOUS
    <2>2. Len(q) = n /\ \A i \in 1 .. n : q[i] = ls[i - 1] /\ q[i] \in S
      <3>1. q \in Seq(S) /\ DOMAIN q = 1 .. n
        <4>1. \A i \in 1 .. n : ls[i - 1] \in S
          BY <1>2
        <4>2. q \in [1 .. n -> S]
          BY <4>1
        <4>3. QED
          BY <2>1, <4>2
      <3>2. Len(q) = n
        BY <2>1, <3>1
      <3>3. QED
        BY <1>2, <3>2
    <2>3. TextOf(ls, n) = flat[n]
      <3>1. FlattenSeq(q) = IF Len(q) = 0 THEN q ELSE flat[Len(q)]
        BY Zenon DEF FlattenSeq
      <3>2. TextOf(ls, n) = FlattenSeq(q)
        BY Zenon DEF TextOf
      <3> HIDE DEF flat, q
      <3>3. QED
        BY <2>1, <2>2, <3>1, <3>2
    <2> HIDE DEF q
    <2>4. \A i \in 1 .. n : f[i] = IF i = 1 THEN q[i] ELSE f[i - 1] \o q[i]
      <3>1. ASSUME NEW i \in 1 .. n, i = 1 PROVE f[i] = q[i]
        <4>1. g[1] = Cat(<<>>, ls[0]) /\ ls[0] \in S /\ q[1] = ls[0]
          <5>1. 1 - 1 = 0 /\ 1 \in 1 .. n
            OBVIOUS
          <5>2. QED
            BY <1>2, <1>6, <2>1, <2>2, <5>1
        <4>2. Cat(<<>>, ls[0]) = ls[0]
          BY <4>1, ConcatEmptySeq DEF Cat, S
        <4>3. QED
          BY <3>1, <4>1, <4>2
      <3>2. ASSUME NEW i \in 1 .. n, i # 1 PROVE f[i] = f[i - 1] \o q[i]
        <4>1. i - 1 \in 1 .. n /\ i \in 1 .. m
          BY <3>2
        <4>2. g[i] = Cat(g[i - 1], q[i])
          BY <1>6, <2>2, <4>1
        <4>3. QED
          BY <4>1, <4>2, Zenon DEF Cat
      <3>3. QED
        BY <3>1, <3>2
    <2>5. IsFlat(f)
      <3> HIDE DEF f
      <3>1. f = [i \in 1 .. n |-> f[i]]
        BY DEF f
      <3>2. QED
        BY <2>2, <2>4, <3>1
    <2>6. IsFlat(flat)
      BY <2>5
    <2> HIDE DEF flat
    <2> DEFINE G == [i \in 0 .. n |-> {h \in S : h = g[i]}]
               w == [i \in 0 .. n |-> IF i = 0 THEN g[0] ELSE flat[i]]
    <2>7. \A i \in 1 .. n : flat[i] = IF i = 1 THEN q[i] ELSE flat[i - 1] \o q[i]
      BY <2>2, <2>6
    <2>8. \A i \in 0 .. n : w[i] \in G[i]
      <3>1. w[0] \in G[0]
        <4>1. 0 \in 0 .. n /\ 0 \in 0 .. m
          BY <2>1
        <4>2. QED
          BY <1>6, <4>1
      <3>2. ASSUME NEW i \in 1 .. n, w[i - 1] \in G[i - 1] PROVE w[i] \in G[i]
        <4>1. i \in 0 .. n /\ i - 1 \in 0 .. n /\ i \in 0 .. m /\ i # 0
          OBVIOUS
        <4>2. CASE i = 1
          BY <1>6, <2>4, <2>7, <4>1, <4>2
        <4>3. CASE i # 1
          <5>1. i - 1 \in 1 .. n /\ i - 1 # 0
            BY <4>3
          <5>2. flat[i - 1] = g[i - 1]
            BY <3>2, <4>1, <5>1
          <5>3. flat[i] = flat[i - 1] \o q[i] /\ f[i] = f[i - 1] \o q[i]
            BY <2>4, <2>7, <4>3
          <5>4. flat[i] = g[i]
            BY <5>1, <5>2, <5>3, Zenon
          <5>5. QED
            BY <1>6, <4>1, <5>4
        <4>4. QED
          BY <4>2, <4>3
      <3> HIDE DEF w, G
      <3>3. QED
        BY <2>1, <3>1, <3>2, Reaches
    <2>9. n \in 0 .. n
      BY <2>1
    <2>10. flat[n] = g[n]
      BY <2>1, <2>8, <2>9
    <2>11. QED
      BY <2>3, <2>10
  <1>9. \A n \in 0 .. m : TextOf(ls, n) = g[n]
    BY <1>6, <1>7, <1>8
  <1>10. \A n \in 1 .. m : n - 1 \in 0 .. m /\ n \in 0 .. m
    OBVIOUS
  <1>11. QED
    BY <1>6, <1>9, <1>10 DEF S

(* What the k lines from a on add to those of ls before them is what the k  *)
(* from b on add to those of ms.                                           *)
SameText(ls, a, ms, b, k, T) ==
    \E t \in Seq(T) : /\ TextOf(ls, a + k) = Cat(TextOf(ls, a), t)
                      /\ TextOf(ms, b + k) = Cat(TextOf(ms, b), t)

(* Lines that are the same add the same text.                              *)
LEMMA SameTail ==
    ASSUME NEW T, NEW m \in Nat, NEW ls, NEW ms, NEW a \in Nat, NEW b \in Nat, NEW k \in Nat,
           a + k <= m, b + k <= m,
           AreLines(ls, m, T), AreLines(ms, m, T),
           SameLines(ls, a, ms, b, k)
    PROVE  SameText(ls, a, ms, b, k, T)
  <1> DEFINE Adds(i, t) == /\ TextOf(ls, a + i) = Cat(TextOf(ls, a), t)
                           /\ TextOf(ms, b + i) = Cat(TextOf(ms, b), t)
             Q == {i \in Nat : i <= k => \E t \in Seq(T) : Adds(i, t)}
  <1>1. /\ \A n \in 0 .. m : TextOf(ls, n) \in Seq(T) /\ TextOf(ms, n) \in Seq(T)
        /\ \A n \in 1 .. m : /\ TextOf(ls, n) = Cat(TextOf(ls, n - 1), ls[n - 1])
                             /\ TextOf(ms, n) = Cat(TextOf(ms, n - 1), ms[n - 1])
    <2>1. /\ \A n \in 0 .. m : TextOf(ls, n) \in Seq(T)
          /\ \A n \in 1 .. m : TextOf(ls, n) = Cat(TextOf(ls, n - 1), ls[n - 1])
      BY TextGrows
    <2>2. /\ \A n \in 0 .. m : TextOf(ms, n) \in Seq(T)
          /\ \A n \in 1 .. m : TextOf(ms, n) = Cat(TextOf(ms, n - 1), ms[n - 1])
      BY TextGrows
    <2>3. QED
      BY <2>1, <2>2
  <1>2. a \in 0 .. m /\ b \in 0 .. m
    OBVIOUS
  <1>3. 0 \in Q
    <2>1. \A s \in Seq(T) : Cat(s, <<>>) = s
      BY ConcatEmptySeq DEF Cat
    <2>2. <<>> \in Seq(T) /\ a + 0 = a /\ b + 0 = b
      OBVIOUS
    <2>3. Adds(0, <<>>)
      BY <1>1, <1>2, <2>1, <2>2
    <2>4. QED
      BY <2>2, <2>3
  <1>4. ASSUME NEW i \in Nat, i \in Q PROVE i + 1 \in Q
    <2>1. SUFFICES ASSUME i + 1 <= k PROVE \E t \in Seq(T) : Adds(i + 1, t)
      OBVIOUS
    <2>2. PICK t \in Seq(T) : Adds(i, t)
      BY <1>4, <2>1
    <2>3. /\ a + (i + 1) \in 1 .. m /\ (a + (i + 1)) - 1 = a + i /\ a + i \in 0 .. (m - 1)
          /\ b + (i + 1) \in 1 .. m /\ (b + (i + 1)) - 1 = b + i /\ i \in 0 .. (k - 1)
      BY <2>1
    <2> DEFINE l == ls[a + i]
    <2>4. l \in Seq(T) /\ ms[b + i] = l
      BY <2>3 DEF AreLines, SameLines
    <2>5. /\ TextOf(ls, a + (i + 1)) = Cat(Cat(TextOf(ls, a), t), l)
          /\ TextOf(ms, b + (i + 1)) = Cat(Cat(TextOf(ms, b), t), l)
      BY <1>1, <2>2, <2>3, <2>4
    <2> HIDE DEF l
    <2>6. Adds(i + 1, Cat(t, l))
      BY <1>1, <1>2, <2>4, <2>5, CatAssociative
    <2>7. QED
      BY <2>4, <2>6, CatFacts
  <1> HIDE DEF Q
  <1>5. k \in Q
    BY <1>3, <1>4, SetInduction
  <1>6. QED
    BY <1>5 DEF Q, SameText

(* The same lines before k are the same text. *)
LEMMA SameHead ==
    ASSUME NEW T, NEW m \in Nat, NEW ls, NEW ms, NEW k \in Nat, k <= m,
           AreLines(ls, m, T), AreLines(ms, m, T),
           SameLines(ls, 0, ms, 0, k)
    PROVE  TextOf(ls, k) = TextOf(ms, k)
  <1>1. 0 \in Nat /\ 0 + k <= m /\ 0 + k = k
    OBVIOUS
  <1>2. SameText(ls, 0, ms, 0, k, T)
    BY <1>1, SameTail
  <1>3. PICK t \in Seq(T) : /\ TextOf(ls, 0 + k) = Cat(TextOf(ls, 0), t)
                            /\ TextOf(ms, 0 + k) = Cat(TextOf(ms, 0), t)
    BY <1>2, Zenon DEF SameText
  <1>4. TextOf(ls, 0) = <<>>
    BY TextGrows
  <1>5. TextOf(ms, 0) = <<>>
    BY TextGrows
  <1>6. QED
    BY <1>1, <1>3, <1>4, <1>5
=============================================================================
