------------------------------ MODULE ListFacts ------------------------------
(***************************************************************************)
(* Induction, folds, and what the operators of Lists do.                   *)
(***************************************************************************)
EXTENDS Lists, WellFoundedInduction, TLAPS

\* A set of natural numbers that is not empty has a least element.
LEMMA Least ==
  ASSUME NEW T \in SUBSET Nat, T # {}
  PROVE  \E x \in T : \A y \in T : x <= y
  <1> DEFINE R == OpToRel(<, Nat)
  <1>1. IsWellFoundedOn(R, Nat)
    BY NatLessThanWellFounded, Zenon
  <1>2. PICK x \in T : \A y \in T : ~(<<y, x>> \in R)
    <2> HIDE DEF R
    <2> QED
      BY <1>1, WFMin, Zenon
  <1>3. \A y \in T : ~(y < x)
    BY <1>2, Zenon DEF OpToRel
  <1> QED
    BY <1>3

\* Induction up to n, on a set.
LEMMA Induction ==
  ASSUME NEW n \in Nat, NEW P, 0 \in P, \A k \in 0..(n - 1) : k \in P => k + 1 \in P
  PROVE  \A k \in 0..n : k \in P
  <1> DEFINE T == {k \in Nat : k <= n /\ k \notin P}
  <1> SUFFICES ASSUME T # {} PROVE FALSE
    OBVIOUS
  <1>1. PICK x \in T : \A y \in T : x <= y
    BY Least, Zenon
  <1>2. x \in Nat /\ x <= n /\ x \notin P /\ x # 0
    BY Zenon
  <1>3. x - 1 \in 0..(n - 1) /\ x - 1 \notin T /\ x - 1 \in Nat
    BY <1>1, <1>2
  <1>4. x - 1 \in P
    BY <1>2, <1>3
  <1>5. (x - 1) + 1 \in P
    BY <1>3, <1>4, Zenon
  <1> QED
    BY <1>2, <1>5

\* Max is the greatest element.
LEMMA MaxIs ==
  ASSUME NEW S \in SUBSET Nat, NEW m \in S, \A k \in S : k <= m
  PROVE  Max(S) = m
  <1>1. \A y \in S : m >= y
    BY Zenon
  <1>2. Max(S) \in S /\ \A y \in S : Max(S) >= y
    BY <1>1, Zenon DEF Max
  <1>3. Max(S) >= m /\ m >= Max(S)
    BY <1>1, <1>2, Zenon
  <1>4. Max(S) \in Nat /\ m \in Nat
    BY <1>2, Zenon
  <1> HIDE DEF Max
  <1> QED
    BY <1>3, <1>4

\* A set of numbers up to n has a greatest element.
LEMMA MaxIn ==
  ASSUME NEW n \in Nat, NEW S \in SUBSET (0..n), S # {}
  PROVE  Max(S) \in S /\ \A y \in S : y <= Max(S)
  <1> DEFINE B == {m \in Nat : \A y \in S : y <= m}
  <1>1. n \in B /\ S \in SUBSET Nat
    OBVIOUS
  <1>2. PICK m \in B : \A x \in B : m <= x
    BY <1>1, Least, Zenon
  <1>3. m \in S
    <2> SUFFICES ASSUME m \notin S PROVE FALSE
      BY Zenon
    <2>1. \A y \in S : y <= m - 1 /\ y >= 0
      BY <1>1
    <2>2. m - 1 \in Nat
      <3>1. PICK y : y \in S
        BY Zenon
      <3>2. y <= m - 1 /\ y >= 0 /\ y \in Nat /\ m \in Nat
        BY <1>1, <2>1, <3>1, Zenon
      <3> QED
        BY <3>2
    <2>3. m - 1 \in B
      BY <2>1, <2>2, Zenon
    <2>4. m <= m - 1 /\ m \in Nat
      BY <1>2, <2>3, Zenon
    <2> QED
      BY <2>4
  <1>4. \A y \in S : y <= m
    BY Zenon
  <1>5. Max(S) = m
    BY <1>1, <1>3, <1>4, MaxIs, Zenon
  <1> QED
    BY <1>3, <1>4, <1>5, Zenon

\* f is what FoldLeft iterates; H[<<k, a>>] is the operation on a and the k-th
\* element.
Iterates(f, n, base, H) ==
    f = [k \in 0..n |-> IF k = 0 THEN base ELSE H[<<k, f[k - 1]>>]]

\* A fold is defined: D[k] is where the value after k elements lies.
LEMMA FoldExists ==
  ASSUME NEW n \in Nat, NEW D, NEW H, NEW base \in D[0],
         \A k \in 1..n : \A a \in D[k - 1] : H[<<k, a>>] \in D[k]
  PROVE  \E f : Iterates(f, n, base, H) /\ \A k \in 0..n : f[k] \in D[k]
  <1> DEFINE Good(m, f) == Iterates(f, m, base, H) /\ \A k \in 0..m : f[k] \in D[k]
             P == {m \in Nat : \E f : Good(m, f)}
  <1>1. 0 \in P
    <2> DEFINE f == [k \in 0..0 |-> base]
    <2>1. \A k \in 0..0 : k = 0
      OBVIOUS
    <2>2. f = [k \in 0..0 |-> IF k = 0 THEN base ELSE H[<<k, f[k - 1]>>]]
      BY <2>1, Zenon
    <2>3. \A k \in 0..0 : f[k] \in D[k]
      BY <2>1, Zenon
    <2> HIDE DEF f
    <2>4. Good(0, f)
      BY <2>2, <2>3, Zenon DEF Iterates
    <2> HIDE DEF Good
    <2> QED
      BY <2>4
  <1>2. ASSUME NEW m \in 0..(n - 1), m \in P PROVE m + 1 \in P
    <2> DEFINE N == 0..(m + 1)
    <2>1. PICK f : Good(m, f)
      BY <1>2, Zenon
    <2> DEFINE g == [k \in N |-> IF k = m + 1 THEN H[<<m + 1, f[m]>>] ELSE f[k]]
    <2>2. /\ m \in Nat /\ m + 1 \in Nat /\ m + 1 \in 1..n /\ (m + 1) - 1 = m
          /\ m + 1 \in N /\ m + 1 # 0 /\ m \in N /\ m # m + 1 /\ m \in 0..m
      OBVIOUS
    <2>3. \A k \in N : k = m + 1 \/ (k # m + 1 /\ k \in 0..m /\ (k # 0 => k - 1 \in N /\ k - 1 # m + 1))
      BY <2>2
    <2>4. f[m] \in D[m]
      BY <2>1, <2>2, Zenon
    <2>5. H[<<m + 1, f[m]>>] \in D[m + 1]
      BY <2>2, <2>4, Zenon
    <2>6. g[m] = f[m] /\ \A k \in 0..m : k # 0 => g[k - 1] = f[k - 1]
      <3>1. \A k \in 0..m : k # 0 => k - 1 \in N /\ k - 1 # m + 1
        BY <2>2
      <3> QED
        BY <2>2, <3>1, Zenon
    <2>7. \A k \in 0..m : f[k] = IF k = 0 THEN base ELSE H[<<k, f[k - 1]>>]
      BY <2>1, Zenon DEF Iterates
    <2>8. \A k \in N : (IF k = m + 1 THEN H[<<m + 1, f[m]>>] ELSE f[k]) = IF k = 0 THEN base ELSE H[<<k, g[k - 1]>>]
      BY <2>2, <2>3, <2>6, <2>7, Zenon
    <2>9. g = [k \in N |-> IF k = 0 THEN base ELSE H[<<k, g[k - 1]>>]]
      <3> DEFINE u(k) == IF k = m + 1 THEN H[<<m + 1, f[m]>>] ELSE f[k]
                 v(k) == IF k = 0 THEN base ELSE H[<<k, g[k - 1]>>]
      <3>1. \A k \in N : u(k) = v(k)
        BY <2>8, Zenon
      <3>2. g = [k \in N |-> u(k)]
        BY Zenon
      <3> HIDE DEF u, v, g, N
      <3>3. [k \in N |-> u(k)] = [k \in N |-> v(k)]
        BY <3>1, Zenon
      <3> QED
        BY <3>2, <3>3, Zenon DEF v
    <2>10. \A k \in N : g[k] \in D[k]
      BY <2>1, <2>3, <2>5, Zenon
    <2>11. Good(m + 1, g)
      <3> HIDE DEF g
      <3> QED
        BY <2>9, <2>10, Zenon DEF Iterates
    <2> HIDE DEF Good, g
    <2> QED
      BY <2>2, <2>11, Zenon
  <1> HIDE DEF P
  <1>3. \A k \in 0..n : k \in P
    BY <1>1, <1>2, Induction, Zenon
  <1>4. n \in P
    BY <1>3
  <1> QED
    BY <1>4, Zenon DEF P

\* What a step of a fold keeps holds of its result.
LEMMA FoldStays ==
  ASSUME NEW n \in Nat, NEW D, NEW F, F[0] \in D[0],
         \A k \in 1..n : F[k - 1] \in D[k - 1] => F[k] \in D[k]
  PROVE  F[n] \in D[n]
  <1> DEFINE P == {k \in Nat : F[k] \in D[k]}
  <1>1. 0 \in P
    OBVIOUS
  <1>2. ASSUME NEW k \in 0..(n - 1), k \in P PROVE k + 1 \in P
    <2>1. k + 1 \in 1..n /\ (k + 1) - 1 = k /\ k + 1 \in Nat
      OBVIOUS
    <2>2. F[k] \in D[k]
      BY <1>2, Zenon
    <2> QED
      BY <2>1, <2>2, Zenon
  <1> HIDE DEF P
  <1>3. \A k \in 0..n : k \in P
    BY <1>1, <1>2, Induction, Zenon
  <1>4. n \in P
    BY <1>3
  <1> QED
    BY <1>4, Zenon DEF P

\* The elements of a list after an insertion.
LEMMA InsertIs ==
  ASSUME NEW S, NEW s \in Seq(S), NEW e \in S, NEW p \in 0..Len(s)
  PROVE  /\ InsertedAt(s, p + 1, e) \in Seq(S)
         /\ Len(InsertedAt(s, p + 1, e)) = Len(s) + 1
         /\ \A i \in 1..(Len(s) + 1) :
               InsertedAt(s, p + 1, e)[i] = IF i <= p THEN s[i] ELSE IF i = p + 1 THEN e ELSE s[i - 1]
  <1> DEFINE A == SubSeq(s, 1, p)
             B == SubSeq(s, p + 1, Len(s))
             C == A \o <<e>>
  <1>1. InsertedAt(s, p + 1, e) = C \o B
    <2>1. (p + 1) - 1 = p
      OBVIOUS
    <2> QED
      BY <2>1, Zenon DEF InsertedAt
  <1>2. A \in Seq(S) /\ Len(A) = p /\ \A i \in 1..p : A[i] = s[i]
    OBVIOUS
  <1>3. B \in Seq(S) /\ Len(B) = Len(s) - p /\ \A i \in 1..(Len(s) - p) : B[i] = s[p + i]
    OBVIOUS
  <1> HIDE DEF A, B
  <1>4. C \in Seq(S) /\ Len(C) = p + 1 /\ \A i \in 1..(p + 1) : C[i] = IF i <= p THEN s[i] ELSE e
    BY <1>2
  <1> HIDE DEF C
  <1>5. C \o B \in Seq(S) /\ Len(C \o B) = Len(s) + 1
    BY <1>3, <1>4
  <1>6. ASSUME NEW i \in 1..(Len(s) + 1)
        PROVE  (C \o B)[i] = IF i <= p THEN s[i] ELSE IF i = p + 1 THEN e ELSE s[i - 1]
    <2>1. CASE i <= p + 1
      <3>1. i \in 1..(p + 1) /\ (C \o B)[i] = C[i]
        BY <1>3, <1>4, <2>1
      <3>2. i <= p \/ i = p + 1
        BY <2>1
      <3> QED
        BY <1>4, <3>1, <3>2, Zenon
    <2>2. CASE ~(i <= p + 1)
      <3>1. (C \o B)[i] = B[i - (p + 1)] /\ i - (p + 1) \in 1..(Len(s) - p)
        BY <1>3, <1>4, <2>2
      <3>2. B[i - (p + 1)] = s[p + (i - (p + 1))] /\ p + (i - (p + 1)) = i - 1
        BY <1>3, <3>1
      <3>3. ~(i <= p) /\ i # p + 1
        BY <2>2
      <3> QED
        BY <3>1, <3>2, <3>3, Zenon
    <2> QED
      BY <2>1, <2>2, Zenon
  <1> DEFINE I == InsertedAt(s, p + 1, e)
             D == C \o B
  <1>7. I = D
    BY <1>1, Zenon
  <1>8. /\ D \in Seq(S) /\ Len(D) = Len(s) + 1
        /\ \A i \in 1..(Len(s) + 1) : D[i] = IF i <= p THEN s[i] ELSE IF i = p + 1 THEN e ELSE s[i - 1]
    BY <1>5, <1>6, Zenon
  <1> HIDE DEF D, I
  <1>9. /\ I \in Seq(S) /\ Len(I) = Len(s) + 1
        /\ \A i \in 1..(Len(s) + 1) : I[i] = IF i <= p THEN s[i] ELSE IF i = p + 1 THEN e ELSE s[i - 1]
    BY <1>7, <1>8, Zenon
  <1> QED
    BY <1>9, Zenon DEF I

\* The elements of a list after a removal.
LEMMA RemoveIs ==
  ASSUME NEW S, NEW s \in Seq(S), NEW p \in 1..Len(s)
  PROVE  /\ RemovedAt(s, p) \in Seq(S)
         /\ Len(RemovedAt(s, p)) = Len(s) - 1
         /\ \A i \in 1..(Len(s) - 1) : RemovedAt(s, p)[i] = s[IF i < p THEN i ELSE i + 1]
  <1> DEFINE A == SubSeq(s, 1, p - 1)
             B == SubSeq(s, p + 1, Len(s))
  <1>1. RemovedAt(s, p) = A \o B
    BY Zenon DEF RemovedAt
  <1>2. A \in Seq(S) /\ Len(A) = p - 1 /\ \A i \in 1..(p - 1) : A[i] = s[i]
    OBVIOUS
  <1>3. B \in Seq(S) /\ Len(B) = Len(s) - p /\ \A i \in 1..(Len(s) - p) : B[i] = s[p + i]
    OBVIOUS
  <1> HIDE DEF A, B
  <1>4. A \o B \in Seq(S) /\ Len(A \o B) = Len(s) - 1
    <2>1. A \o B \in Seq(S) /\ Len(A \o B) = Len(A) + Len(B)
      <3>1. A \in Seq(S) /\ B \in Seq(S)
        BY <1>2, <1>3, Zenon
      <3> QED
        BY <3>1
    <2>2. (p - 1) + (Len(s) - p) = Len(s) - 1
      OBVIOUS
    <2> QED
      BY <1>2, <1>3, <2>1, <2>2, Zenon
  <1>5. ASSUME NEW i \in 1..(Len(s) - 1)
        PROVE  (A \o B)[i] = s[IF i < p THEN i ELSE i + 1]
    <2>1. CASE i < p
      <3>1. i \in 1..(p - 1) /\ (A \o B)[i] = A[i]
        BY <1>2, <1>3, <2>1
      <3> QED
        BY <1>2, <2>1, <3>1, Zenon
    <2>2. CASE ~(i < p)
      <3>1. (A \o B)[i] = B[i - (p - 1)] /\ i - (p - 1) \in 1..(Len(s) - p)
        BY <1>2, <1>3, <2>2
      <3>2. B[i - (p - 1)] = s[p + (i - (p - 1))] /\ p + (i - (p - 1)) = i + 1
        BY <1>3, <3>1
      <3> QED
        BY <2>2, <3>1, <3>2, Zenon
    <2> QED
      BY <2>1, <2>2, Zenon
  <1> QED
    BY <1>1, <1>4, <1>5, Zenon

=============================================================================
