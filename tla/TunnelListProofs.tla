---------------------------- MODULE TunnelListProofs ----------------------------
(***************************************************************************)
(* Proofs about TunnelList, for all names with different tokens, all       *)
(* favourites and lists of any length: the comparator is a strict total    *)
(* order, binary search finds a key or the place where it belongs,         *)
(* insertion, removal and re-sorting keep the list in order.               *)
(***************************************************************************)
EXTENDS TunnelList, ListFacts

\* R orders D: no element precedes itself, and of two elements one precedes.
StrictTotal(R, D) ==
    /\ \A x \in D : <<x, x>> \notin R
    /\ \A x, y \in D : x = y \/ <<x, y>> \in R \/ <<y, x>> \in R
    /\ \A x, y, z \in D : <<x, y>> \in R /\ <<y, z>> \in R => <<x, z>> \in R

\* The lexicographic order of sequences: at i the first difference.
LexAt(R, s, t, i) ==
    /\ i \in 1..Len(t)
    /\ i <= Len(s) + 1
    /\ \A k \in 1..(i - 1) : s[k] = t[k]
    /\ i = Len(s) + 1 \/ <<s[i], t[i]>> \in R

Lex(R, s, t) == \E i \in 1..Len(t) : LexAt(R, s, t, i)

\* No sequence is before itself.
LEMMA LexIrreflexive ==
  ASSUME NEW D, NEW R, StrictTotal(R, D), NEW s \in Seq(D)
  PROVE  ~Lex(R, s, s)
  <1> SUFFICES ASSUME NEW i \in 1..Len(s), LexAt(R, s, s, i) PROVE FALSE
    BY Zenon DEF Lex
  <1>1. i # Len(s) + 1 /\ s[i] \in D /\ <<s[i], s[i]>> \in R
    BY DEF LexAt
  <1> QED
    BY <1>1, Zenon DEF StrictTotal

\* The lexicographic order is transitive.
LEMMA LexTransitive ==
  ASSUME NEW D, NEW R, StrictTotal(R, D), NEW s \in Seq(D), NEW t \in Seq(D), NEW u \in Seq(D),
         Lex(R, s, t), Lex(R, t, u)
  PROVE  Lex(R, s, u)
  <1>1. PICK i \in 1..Len(t) : LexAt(R, s, t, i)
    BY Zenon DEF Lex
  <1>2. PICK j \in 1..Len(u) : LexAt(R, t, u, j)
    BY Zenon DEF Lex
  <1>3. CASE i < j
    <2>1. i \in 1..Len(u) /\ i <= Len(s) + 1 /\ t[i] = u[i]
      BY <1>1, <1>2, <1>3 DEF LexAt
    <2>2. \A k \in 1..(i - 1) : s[k] = u[k]
      BY <1>1, <1>2, <1>3 DEF LexAt
    <2>3. i = Len(s) + 1 \/ <<s[i], u[i]>> \in R
      BY <1>1, <2>1, Zenon DEF LexAt
    <2> QED
      BY <2>1, <2>2, <2>3, Zenon DEF Lex, LexAt
  <1>4. CASE j < i
    <2>1. j <= Len(s) /\ j <= Len(t) /\ s[j] = t[j]
      BY <1>1, <1>2, <1>4 DEF LexAt
    <2>2. \A k \in 1..(j - 1) : s[k] = u[k]
      BY <1>1, <1>2, <1>4 DEF LexAt
    <2>3. <<s[j], u[j]>> \in R
      BY <1>2, <2>1 DEF LexAt
    <2>4. j \in 1..Len(u) /\ j <= Len(s) + 1
      BY <2>1
    <2> QED
      BY <2>2, <2>3, <2>4, Zenon DEF Lex, LexAt
  <1>5. CASE i = j
    <2>1. \A k \in 1..(i - 1) : s[k] = u[k]
      BY <1>1, <1>2, <1>5, Zenon DEF LexAt
    <2>2. <<t[i], u[i]>> \in R /\ t[i] \in D /\ u[i] \in D
      BY <1>1, <1>2, <1>5 DEF LexAt
    <2>3. i = Len(s) + 1 \/ <<s[i], u[i]>> \in R
      <3>1. CASE i = Len(s) + 1
        BY <3>1, Zenon
      <3>2. CASE i # Len(s) + 1
        <4>1. <<s[i], t[i]>> \in R /\ s[i] \in D
          BY <1>1, <3>2 DEF LexAt
        <4> QED
          BY <2>2, <4>1, Zenon DEF StrictTotal
      <3> QED
        BY <3>1, <3>2, Zenon
    <2>4. i \in 1..Len(u) /\ i <= Len(s) + 1
      BY <1>1, <1>2, <1>5, Zenon DEF LexAt
    <2> QED
      BY <2>1, <2>3, <2>4, Zenon DEF Lex, LexAt
  <1> QED
    BY <1>3, <1>4, <1>5

\* Of two different sequences one is before the other.
LEMMA LexTotal ==
  ASSUME NEW D, NEW R, StrictTotal(R, D), NEW s \in Seq(D), NEW t \in Seq(D), s # t
  PROVE  Lex(R, s, t) \/ Lex(R, t, s)
  <1> DEFINE Differ == {i \in Nat : i >= 1 /\ (i > Len(s) \/ i > Len(t) \/ s[i] # t[i])
                                    /\ (i <= Len(s) \/ i <= Len(t))}
  <1>1. Differ # {}
    <2> SUFFICES ASSUME Differ = {} PROVE FALSE
      BY Zenon
    <2>1. Len(s) = Len(t)
      <3>1. CASE Len(s) < Len(t)
        <4>1. Len(t) \in Differ
          BY <3>1
        <4> QED BY <4>1, Zenon
      <3>2. CASE Len(t) < Len(s)
        <4>1. Len(s) \in Differ
          BY <3>2
        <4> QED BY <4>1, Zenon
      <3> QED BY <3>1, <3>2
    <2>2. \A i \in 1..Len(s) : s[i] = t[i]
      <3> TAKE i \in 1..Len(s)
      <3>1. i \notin Differ
        BY Zenon
      <3> QED BY <2>1, <3>1
    <2> QED
      BY <2>1, <2>2
  <1>2. PICK d \in Differ : \A y \in Differ : d <= y
    BY <1>1, Least, Zenon
  <1>3. /\ d \in Nat /\ d >= 1
        /\ d > Len(s) \/ d > Len(t) \/ s[d] # t[d]
        /\ d <= Len(s) \/ d <= Len(t)
    BY Zenon
  <1>4. \A k \in 1..(d - 1) : k <= Len(s) /\ k <= Len(t) /\ s[k] = t[k]
    <2> SUFFICES ASSUME NEW k \in 1..(d - 1) PROVE k <= Len(s) /\ k <= Len(t) /\ s[k] = t[k]
      BY Zenon
    <2>1. k \in Nat /\ k >= 1 /\ k < d /\ k \notin Differ
      BY <1>2, <1>3
    <2>2. (k <= Len(s) \/ k <= Len(t)) => k <= Len(s) /\ k <= Len(t) /\ s[k] = t[k]
      BY <2>1
    <2>3. k <= Len(s) \/ k <= Len(t)
      BY <1>3, <2>1
    <2> QED
      BY <2>2, <2>3, Zenon
  <1> HIDE DEF Differ
  <1>5. CASE d > Len(s)
    <2>1. d = Len(s) + 1 /\ d \in 1..Len(t) /\ d <= Len(s) + 1
      BY <1>3, <1>4, <1>5
    <2>2. \A k \in 1..(d - 1) : s[k] = t[k]
      BY <1>4, Zenon
    <2> QED
      BY <2>1, <2>2, Zenon DEF Lex, LexAt
  <1>6. CASE d > Len(t)
    <2>1. d = Len(t) + 1 /\ d \in 1..Len(s) /\ d <= Len(t) + 1
      BY <1>3, <1>4, <1>6
    <2>2. \A k \in 1..(d - 1) : s[k] = t[k]
      BY <1>4, Zenon
    <2> QED
      BY <2>1, <2>2, Zenon DEF Lex, LexAt
  <1>7. CASE d <= Len(s) /\ d <= Len(t)
    <2>1. s[d] # t[d] /\ s[d] \in D /\ t[d] \in D
      BY <1>3, <1>7
    <2>2. <<s[d], t[d]>> \in R \/ <<t[d], s[d]>> \in R
      BY <2>1, Zenon DEF StrictTotal
    <2>3. d \in 1..Len(s) /\ d \in 1..Len(t) /\ d <= Len(s) + 1 /\ d <= Len(t) + 1
      BY <1>3, <1>7
    <2> QED
      BY <1>4, <2>2, <2>3, Zenon DEF Lex, LexAt
  <1> QED
    BY <1>3, <1>5, <1>6, <1>7

\* Min is the least element.
LEMMA MinIs ==
  ASSUME NEW S \in SUBSET Nat, S # {}
  PROVE  Min(S) \in S /\ \A k \in S : Min(S) <= k
  <1>1. \E x \in S : \A y \in S : x <= y
    BY Least, Zenon
  <1> QED
    BY <1>1, Zenon DEF Min

NatLess == {p \in Nat \X Nat : p[1] < p[2]}

\* The numbers are in order.
LEMMA NatLessTotal == StrictTotal(NatLess, Nat)
  <1>1. \A x, y \in Nat : <<x, y>> \in NatLess <=> x < y
    BY Zenon DEF NatLess
  <1> QED
    BY <1>1 DEF StrictTotal

\* String.compareTo is the lexicographic order of the characters.
LEMMA StringLexical ==
  ASSUME NEW s \in Seq(Nat), NEW t \in Seq(Nat)
  PROVE  StringLess(s, t) <=> Lex(NatLess, s, t)
  <1>1. ASSUME NEW i \in 1..Len(t), i <= Len(s) + 1
        PROVE  (i = Len(s) + 1 \/ s[i] < t[i]) <=> (i = Len(s) + 1 \/ <<s[i], t[i]>> \in NatLess)
    BY <1>1 DEF NatLess
  <1> QED
    BY <1>1, Zenon DEF StringLess, Lex, LexAt

\* Folding the digits of a run gives a number.
LEMMA ValueTyped ==
  ASSUME NEW d \in Seq(Nat)
  PROVE  ValueOf(d) \in Nat
  <1> DEFINE n == Len(d)
             D == [k \in 0..n |-> Nat]
             H == [x \in (1..n) \X Nat |-> 10 * x[2] + d[x[1]]]
             Is(g) == g = [k \in 0..n |-> IF k = 0 THEN 0 ELSE 10 * g[k - 1] + d[k]]
             F == CHOOSE g : Is(g)
  <1>1. n \in Nat /\ 0 \in 0..n /\ n \in 0..n /\ \A k \in 1..n : k \in 0..n /\ k - 1 \in 0..n /\ k # 0 /\ d[k] \in Nat
    OBVIOUS
  <1>2. \A k \in 1..n, a \in Nat : 10 * a + d[k] \in Nat
    BY <1>1
  <1>3. PICK f : Iterates(f, n, 0, H) /\ \A k \in 0..n : f[k] \in D[k]
    <2>1. 0 \in D[0] /\ \A k \in 1..n : \A a \in D[k - 1] : H[<<k, a>>] \in D[k]
      BY <1>1, <1>2, Zenon
    <2> HIDE DEF D, H, n
    <2> QED
      BY <1>1, <2>1, FoldExists, Zenon
  <1>4. Is(f)
    <2>1. \A k \in 0..n : k = 0 \/ (k # 0 /\ H[<<k, f[k - 1]>>] = 10 * f[k - 1] + d[k])
      <3>1. \A k \in 0..n : k = 0 \/ (k # 0 /\ k \in 1..n)
        BY <1>1
      <3> QED
        BY <1>1, <1>3, <3>1, Zenon
    <2> HIDE DEF H, n, D
    <2> QED
      BY <1>3, <2>1, Zenon DEF Iterates
  <1>5. Is(F)
    <2> HIDE DEF Is
    <2> QED
      BY <1>4, Zenon
  <1>6. ValueOf(d) = F[n]
    BY Zenon DEF ValueOf, FoldLeft
  <1> HIDE DEF F, n
  <1>7. F[0] \in D[0] /\ \A k \in 1..n : F[k - 1] \in D[k - 1] => F[k] \in D[k]
    <2>1. F[0] = 0 /\ \A k \in 1..n : F[k] = 10 * F[k - 1] + d[k]
      BY <1>1, <1>5, Zenon
    <2>2. \A k \in 0..n : D[k] = Nat
      BY Zenon
    <2> HIDE DEF D, Is
    <2>3. F[0] \in D[0]
      BY <1>1, <2>1, <2>2
    <2>4. ASSUME NEW k \in 1..n, F[k - 1] \in D[k - 1] PROVE F[k] \in D[k]
      <3>1. F[k - 1] \in Nat /\ D[k] = Nat
        BY <1>1, <2>2, <2>4, Zenon
      <3> QED
        BY <1>2, <2>1, <3>1, Zenon
    <2> QED
      BY <2>3, <2>4, Zenon
  <1>8. F[n] \in D[n]
    <2> HIDE DEF D
    <2> QED
      BY <1>1, <1>7, FoldStays, Zenon
  <1> QED
    BY <1>1, <1>6, <1>8, Zenon

\* The tokens of names, and their order.
Tok == {x \in [number : BOOLEAN, value : Nat, string : Seq(Nat)] :
            IF x.number THEN x.string = <<>> ELSE x.value = 0}

TokenLess(x, y) ==
    \/ x.number /\ ~y.number
    \/ x.number /\ y.number /\ x.value < y.value
    \/ ~x.number /\ ~y.number /\ StringLess(x.string, y.string)

TokLess == {p \in Tok \X Tok : TokenLess(p[1], p[2])}

\* The relation, by its elements.
LEMMA TokLessIs == \A x, y \in Tok : <<x, y>> \in TokLess <=> TokenLess(x, y)
  BY Zenon DEF TokLess

\* NaturalSortString makes a token of every run.
LEMMA TokenTyped ==
  ASSUME NEW run \in Run
  PROVE  Token(run) \in Tok
  <1>1. run.chars \in Seq(Nat) /\ run.number \in BOOLEAN
    BY Zenon DEF Run
  <1>2. ValueOf(run.chars) \in Nat
    BY <1>1, ValueTyped, Zenon
  <1>3. <<>> \in Seq(Nat) /\ 0 \in Nat
    OBVIOUS
  <1> HIDE DEF ValueOf
  <1>4. CASE run.number /\ ValueOf(run.chars) <= IntMax
    <2>1. Token(run) = [number |-> TRUE, value |-> ValueOf(run.chars), string |-> <<>>]
      BY <1>4, Zenon DEF Token
    <2> QED
      BY <1>2, <1>3, <2>1 DEF Tok
  <1>5. CASE ~(run.number /\ ValueOf(run.chars) <= IntMax)
    <2>1. Token(run) = [number |-> FALSE, value |-> 0, string |-> run.chars]
      BY <1>5, Zenon DEF Token
    <2> QED
      BY <1>1, <1>3, <2>1 DEF Tok
  <1> QED
    BY <1>4, <1>5, Zenon

\* The fields of a token.
LEMMA TokenFields ==
  ASSUME NEW x \in Tok
  PROVE  /\ x.number \in BOOLEAN /\ x.value \in Nat /\ x.string \in Seq(Nat)
         /\ x.number => x.string = <<>>
         /\ ~x.number => x.value = 0
  BY Zenon DEF Tok

\* A token is given by its fields.
LEMMA TokenEqual ==
  ASSUME NEW x \in Tok, NEW y \in Tok,
         x.number = y.number, x.value = y.value, x.string = y.string
  PROVE  x = y
  BY DEF Tok

\* No text is before itself, and so on: the order of strings is total.
LEMMA StringTotal ==
  /\ \A s \in Seq(Nat) : ~StringLess(s, s)
  /\ \A s, t \in Seq(Nat) : s = t \/ StringLess(s, t) \/ StringLess(t, s)
  /\ \A s, t, u \in Seq(Nat) : StringLess(s, t) /\ StringLess(t, u) => StringLess(s, u)
  <1>1. \A s, t \in Seq(Nat) : StringLess(s, t) <=> Lex(NatLess, s, t)
    BY StringLexical, Zenon
  <1>2. \A s \in Seq(Nat) : ~Lex(NatLess, s, s)
    BY NatLessTotal, LexIrreflexive, Zenon
  <1>3. \A s, t \in Seq(Nat) : s = t \/ Lex(NatLess, s, t) \/ Lex(NatLess, t, s)
    BY NatLessTotal, LexTotal, Zenon
  <1>4. \A s, t, u \in Seq(Nat) : Lex(NatLess, s, t) /\ Lex(NatLess, t, u) => Lex(NatLess, s, u)
    BY NatLessTotal, LexTransitive, Zenon
  <1> QED
    BY <1>1, <1>2, <1>3, <1>4, Zenon

\* The tokens are in order: numbers by value, then the text.
LEMMA TokenTotal == StrictTotal(TokLess, Tok)
  <1>1. \A x \in Tok : ~TokenLess(x, x)
    <2> SUFFICES ASSUME NEW x \in Tok, TokenLess(x, x) PROVE FALSE
      BY Zenon
    <2>1. x.number \in BOOLEAN /\ x.value \in Nat /\ x.string \in Seq(Nat)
      BY TokenFields, Zenon
    <2>2. ~StringLess(x.string, x.string)
      BY <2>1, StringTotal, Zenon
    <2>3. ~(x.value < x.value)
      BY <2>1
    <2> QED
      BY <2>2, <2>3, Zenon DEF TokenLess
  <1>2. \A x, y \in Tok : x = y \/ TokenLess(x, y) \/ TokenLess(y, x)
    <2> SUFFICES ASSUME NEW x \in Tok, NEW y \in Tok PROVE x = y \/ TokenLess(x, y) \/ TokenLess(y, x)
      BY Zenon
    <2>1. /\ x.number \in BOOLEAN /\ x.value \in Nat /\ x.string \in Seq(Nat)
          /\ x.number => x.string = <<>>
          /\ ~x.number => x.value = 0
      BY TokenFields, Zenon
    <2>2. /\ y.number \in BOOLEAN /\ y.value \in Nat /\ y.string \in Seq(Nat)
          /\ y.number => y.string = <<>>
          /\ ~y.number => y.value = 0
      BY TokenFields, Zenon
    <2>3. x.value = y.value \/ x.value < y.value \/ y.value < x.value
      BY <2>1, <2>2
    <2>4. x.string = y.string \/ StringLess(x.string, y.string) \/ StringLess(y.string, x.string)
      BY <2>1, <2>2, StringTotal, Zenon
    <2>5. CASE x.number /\ y.number
      <3>1. x.number = y.number /\ x.string = y.string
        BY <2>1, <2>2, <2>5, Zenon
      <3> QED
        BY <2>3, <2>5, <3>1, TokenEqual, Zenon DEF TokenLess
    <2>6. CASE ~x.number /\ ~y.number
      <3>1. x.number = y.number /\ x.value = y.value
        BY <2>1, <2>2, <2>6, Zenon
      <3> QED
        BY <2>4, <2>6, <3>1, TokenEqual, Zenon DEF TokenLess
    <2> QED
      BY <2>5, <2>6, Zenon DEF TokenLess
  <1>3. \A x, y, z \in Tok : TokenLess(x, y) /\ TokenLess(y, z) => TokenLess(x, z)
    <2> SUFFICES ASSUME NEW x \in Tok, NEW y \in Tok, NEW z \in Tok, TokenLess(x, y), TokenLess(y, z)
                 PROVE  TokenLess(x, z)
      BY Zenon
    <2>1. /\ x.value \in Nat /\ x.string \in Seq(Nat)
          /\ y.value \in Nat /\ y.string \in Seq(Nat)
          /\ z.value \in Nat /\ z.string \in Seq(Nat)
      BY TokenFields, Zenon
    <2>2. x.value < y.value /\ y.value < z.value => x.value < z.value
      BY <2>1
    <2>3. StringLess(x.string, y.string) /\ StringLess(y.string, z.string) => StringLess(x.string, z.string)
      BY <2>1, StringTotal, Zenon
    <2> QED
      BY <2>2, <2>3, Zenon DEF TokenLess
  <1> QED
    BY <1>1, <1>2, <1>3, TokLessIs, Zenon DEF StrictTotal

\* NaturalSortToken.compareTo realises that order.
LEMMA CompareTokens ==
  ASSUME NEW x \in Tok, NEW y \in Tok
  PROVE  /\ <<x, y>> \in TokLess => compareTo(x, y) = -1
         /\ <<y, x>> \in TokLess => compareTo(x, y) = 1
         /\ x = y => compareTo(x, y) = 0
         /\ compareTo(x, y) # 0 => x # y
         /\ compareTo(x, y) = -1 => <<x, y>> \in TokLess
  <1>1. /\ ~(TokenLess(x, y) /\ TokenLess(y, x))
        /\ x = y \/ TokenLess(x, y) \/ TokenLess(y, x)
        /\ x = y => ~TokenLess(x, y)
    BY TokenTotal, TokLessIs, Zenon DEF StrictTotal
  <1>2. x.value \in Nat /\ y.value \in Nat /\ x.string \in Seq(Nat) /\ y.string \in Seq(Nat)
    BY TokenFields, Zenon
  <1>3. ~(x.value < y.value /\ y.value < x.value) /\ (x.value > y.value <=> y.value < x.value)
    BY <1>2
  <1>4. ~(StringLess(x.string, y.string) /\ StringLess(y.string, x.string))
    BY <1>2, StringTotal, Zenon
  <1>5. CASE TokenLess(x, y)
    <2>1. compareTo(x, y) = -1
      <3> HIDE DEF StringLess
      <3> QED
        BY <1>3, <1>4, <1>5, Zenon DEF compareTo, TokenLess
    <2> QED
      BY <1>1, <1>5, <2>1, TokLessIs, Zenon
  <1>6. CASE TokenLess(y, x)
    <2>1. compareTo(x, y) = 1
      <3> HIDE DEF StringLess
      <3> QED
        BY <1>3, <1>4, <1>6, Zenon DEF compareTo, TokenLess
    <2> QED
      BY <1>1, <1>6, <2>1, TokLessIs
  <1>7. CASE x = y
    <2>1. ~(x.value < x.value) /\ ~(x.value > x.value) /\ ~StringLess(x.string, x.string)
      BY <1>2, StringTotal
    <2>2. compareTo(x, y) = 0
      BY <1>7, <2>1, Zenon DEF compareTo
    <2> QED
      BY <1>1, <1>7, <2>2, TokLessIs
  <1> QED
    BY <1>1, <1>5, <1>6, <1>7, Zenon

\* The tokens of a name, one for every run.
LEMMA TokensTyped ==
  ASSUME NEW a \in Seq(Run)
  PROVE  tokens(a) \in Seq(Tok) /\ Len(tokens(a)) = Len(a)
         /\ \A i \in 1..Len(a) : tokens(a)[i] = Token(a[i])
  <1>1. \A i \in 1..Len(a) : Token(a[i]) \in Tok
    BY TokenTyped
  <1> HIDE DEF Token, Tok
  <1> QED
    BY <1>1 DEF tokens

\* The loop of TunnelComparator.compare ends at the first difference of the
\* tokens, and answers 1 also when there is none.
LEMMA NaturalOrderIs ==
  ASSUME NEW a \in Seq(Run), NEW b \in Seq(Run)
  PROVE  naturalOrder(a, b) = IF Lex(TokLess, tokens(a), tokens(b)) THEN -1 ELSE 1
  <1> DEFINE na == tokens(a)
             nb == tokens(b)
             ends == {i \in 1..Len(nb) : i > Len(na) \/ (i <= Len(na) /\ compareTo(na[i], nb[i]) # 0)}
             m == Min(ends)
  <1>1. na \in Seq(Tok) /\ nb \in Seq(Tok)
    BY TokensTyped, Zenon
  <1>2. naturalOrder(a, b) = IF ends = {} THEN 1 ELSE IF m > Len(na) THEN -1 ELSE compareTo(na[m], nb[m])
    BY Zenon DEF naturalOrder
  <1> HIDE DEF na, nb
  <1>3. \A i \in 1..Len(na) : na[i] \in Tok
    BY <1>1
  <1>4. \A i \in 1..Len(nb) : nb[i] \in Tok
    BY <1>1
  <1>5. Len(na) \in Nat /\ Len(nb) \in Nat
    BY <1>1
  <1>6. ASSUME NEW i \in 1..Len(nb), i \notin ends
        PROVE  i \in 1..Len(na) /\ na[i] = nb[i]
    <2>1. i \in 1..Len(na) /\ compareTo(na[i], nb[i]) = 0
      BY <1>5, <1>6
    <2>2. na[i] \in Tok /\ nb[i] \in Tok
      BY <1>3, <1>4, <2>1, Zenon
    <2>3. <<na[i], nb[i]>> \notin TokLess /\ <<nb[i], na[i]>> \notin TokLess
      BY <2>1, <2>2, CompareTokens
    <2> QED
      BY <2>1, <2>2, <2>3, TokenTotal, Zenon DEF StrictTotal
  <1>7. CASE ends = {}
    <2>1. \A i \in 1..Len(nb) : i \in 1..Len(na) /\ na[i] = nb[i]
      BY <1>6, <1>7, Zenon
    <2>2. ~Lex(TokLess, na, nb)
      <3> SUFFICES ASSUME NEW i \in 1..Len(nb), LexAt(TokLess, na, nb, i) PROVE FALSE
        BY Zenon DEF Lex
      <3>1. i \in 1..Len(na) /\ na[i] = nb[i] /\ na[i] \in Tok
        BY <1>3, <2>1, Zenon
      <3>2. i # Len(na) + 1
        BY <1>5, <3>1
      <3>3. <<na[i], na[i]>> \in TokLess
        BY <3>1, <3>2, Zenon DEF LexAt
      <3> QED
        BY <3>1, <3>3, TokenTotal, Zenon DEF StrictTotal
    <2> QED
      BY <1>2, <1>7, <2>2, Zenon DEF na, nb
  <1>8. CASE ends # {}
    <2>1. ends \in SUBSET Nat
      BY <1>5
    <2>2. m \in ends /\ \A k \in ends : m <= k
      <3> HIDE DEF ends
      <3> QED
        BY <1>8, <2>1, MinIs, Zenon
    <2>3. m \in 1..Len(nb)
      BY <2>2, Zenon
    <2>4. ASSUME NEW k \in 1..(m - 1) PROVE k \in 1..Len(na) /\ na[k] = nb[k]
      <3>1. k \in 1..Len(nb) /\ ~(m <= k)
        BY <1>5, <2>3
      <3>2. k \notin ends
        BY <2>2, <3>1, Zenon
      <3> QED
        BY <1>6, <3>1, <3>2, Zenon
    <2>5. m <= Len(na) + 1
      <3>1. CASE m = 1
        BY <1>5, <3>1
      <3>2. CASE m # 1
        <4>1. m - 1 \in 1..(m - 1)
          BY <2>3, <3>2, <1>5
        <4>2. m - 1 \in 1..Len(na)
          BY <2>4, <4>1, Zenon
        <4> QED
          BY <1>5, <2>3, <4>2
      <3> QED
        BY <3>1, <3>2, Zenon
    <2>6. CASE m > Len(na)
      <3>1. m = Len(na) + 1
        BY <1>5, <2>3, <2>5, <2>6
      <3>2. LexAt(TokLess, na, nb, m)
        BY <2>3, <2>4, <2>5, <3>1, Zenon DEF LexAt
      <3>3. Lex(TokLess, na, nb)
        BY <2>3, <3>2, Zenon DEF Lex
      <3> QED
        BY <1>2, <1>8, <2>6, <3>3, Zenon DEF na, nb
    <2>7. CASE ~(m > Len(na))
      <3>1. m \in 1..Len(na) /\ m # Len(na) + 1
        BY <1>5, <2>3, <2>7
      <3>2. na[m] \in Tok /\ nb[m] \in Tok /\ compareTo(na[m], nb[m]) # 0
        BY <1>3, <1>4, <2>2, <2>3, <2>7, <3>1, Zenon
      <3>3. na[m] # nb[m]
        BY <3>2, CompareTokens, Zenon
      <3>4. naturalOrder(a, b) = compareTo(na[m], nb[m])
        BY <1>2, <1>8, <2>7, Zenon
      <3> HIDE DEF m, ends
      <3>5. CASE <<na[m], nb[m]>> \in TokLess
        <4>1. compareTo(na[m], nb[m]) = -1
          BY <3>2, <3>5, CompareTokens, Zenon
        <4>2. LexAt(TokLess, na, nb, m)
          BY <2>3, <2>4, <2>5, <3>5, Zenon DEF LexAt
        <4>3. Lex(TokLess, na, nb)
          BY <2>3, <4>2, Zenon DEF Lex
        <4> QED
          BY <3>4, <4>1, <4>3, Zenon DEF na, nb
      <3>6. CASE <<nb[m], na[m]>> \in TokLess
        <4>1. compareTo(na[m], nb[m]) = 1
          BY <3>2, <3>6, CompareTokens, Zenon
        <4>2. ~Lex(TokLess, na, nb)
          <5> SUFFICES ASSUME NEW j \in 1..Len(nb), LexAt(TokLess, na, nb, j) PROVE FALSE
            BY Zenon DEF Lex
          <5>1. CASE j < m
            <6>1. j \in 1..(m - 1)
              BY <1>5, <2>3, <5>1
            <6>2. j \in 1..Len(na) /\ na[j] = nb[j] /\ na[j] \in Tok
              BY <1>3, <2>4, <6>1, Zenon
            <6>3. j # Len(na) + 1
              BY <1>5, <6>2
            <6>4. <<na[j], na[j]>> \in TokLess
              BY <6>2, <6>3, Zenon DEF LexAt
            <6> QED
              BY <6>2, <6>4, TokenTotal, Zenon DEF StrictTotal
          <5>2. CASE j > m
            <6>1. m \in 1..(j - 1)
              BY <1>5, <2>3, <5>2
            <6> QED
              BY <3>3, <6>1, Zenon DEF LexAt
          <5>3. CASE j = m
            <6>1. <<na[m], nb[m]>> \in TokLess
              BY <3>1, <5>3, Zenon DEF LexAt
            <6>2. <<na[m], na[m]>> \in TokLess
              BY <3>2, <3>6, <6>1, TokenTotal, Zenon DEF StrictTotal
            <6> QED
              BY <3>2, <6>2, TokenTotal, Zenon DEF StrictTotal
          <5> QED
            BY <1>5, <2>3, <5>1, <5>2, <5>3
        <4> QED
          BY <3>4, <4>1, <4>2, Zenon DEF na, nb
      <3> QED
        BY <3>2, <3>3, <3>5, <3>6, TokenTotal, Zenon DEF StrictTotal
    <2> QED
      BY <2>6, <2>7, Zenon
  <1> QED
    BY <1>7, <1>8, Zenon

\* The order the comparator realises.
Precedes(a, b, favs) ==
    \/ a \in favs /\ b \notin favs
    \/ (a \in favs <=> b \in favs) /\ Lex(TokLess, tokens(a), tokens(b))

\* Names with different tokens are in order, the favourites first.
LEMMA PrecedesTotal ==
  ASSUME DistinctTokens, NEW favs
  PROVE  /\ \A a \in Names : ~Precedes(a, a, favs)
         /\ \A a, b \in Names : a = b \/ Precedes(a, b, favs) \/ Precedes(b, a, favs)
         /\ \A a, b, c \in Names : Precedes(a, b, favs) /\ Precedes(b, c, favs) => Precedes(a, c, favs)
  <1>1. \A a \in Names : a \in Seq(Run)
    BY TunnelListAssumption, Zenon
  <1>2. \A a \in Names : tokens(a) \in Seq(Tok)
    BY <1>1, TokensTyped, Zenon
  <1>3. \A a \in Names : ~Lex(TokLess, tokens(a), tokens(a))
    BY <1>2, TokenTotal, LexIrreflexive, Zenon
  <1>4. \A a, b \in Names : tokens(a) = tokens(b) \/ Lex(TokLess, tokens(a), tokens(b)) \/ Lex(TokLess, tokens(b), tokens(a))
    BY <1>2, TokenTotal, LexTotal, Zenon
  <1>5. \A a, b, c \in Names : Lex(TokLess, tokens(a), tokens(b)) /\ Lex(TokLess, tokens(b), tokens(c))
                                 => Lex(TokLess, tokens(a), tokens(c))
    BY <1>2, TokenTotal, LexTransitive, Zenon
  <1>6. \A a, b \in Names : a = b \/ Lex(TokLess, tokens(a), tokens(b)) \/ Lex(TokLess, tokens(b), tokens(a))
    BY <1>4, Zenon DEF DistinctTokens
  <1>7. \A a \in Names : ~Precedes(a, a, favs)
    BY <1>3, Zenon DEF Precedes
  <1>8. \A a, b \in Names : a = b \/ Precedes(a, b, favs) \/ Precedes(b, a, favs)
    BY <1>6, Zenon DEF Precedes
  <1>9. \A a, b, c \in Names : Precedes(a, b, favs) /\ Precedes(b, c, favs) => Precedes(a, c, favs)
    BY <1>5, Zenon DEF Precedes
  <1> QED
    BY <1>7, <1>8, <1>9, Zenon

\* TunnelComparator.compare realises that order.
LEMMA CompareIs ==
  ASSUME DistinctTokens, NEW favs, NEW a \in Names, NEW b \in Names
  PROVE  /\ a = b => compare(a, b, favs) = 0
         /\ Precedes(a, b, favs) => compare(a, b, favs) = -1
         /\ Precedes(b, a, favs) => compare(a, b, favs) = 1
  <1>1. a \in Seq(Run) /\ b \in Seq(Run)
    BY TunnelListAssumption, Zenon
  <1>2. naturalOrder(a, b) = IF Lex(TokLess, tokens(a), tokens(b)) THEN -1 ELSE 1
    BY <1>1, NaturalOrderIs, Zenon
  <1>3. a = b => ~Precedes(a, b, favs) /\ ~Precedes(b, a, favs)
    BY PrecedesTotal, Zenon
  <1>4. ~(Precedes(a, b, favs) /\ Precedes(b, a, favs))
    BY PrecedesTotal, Zenon
  <1>5. CASE a = b
    BY <1>3, <1>5, Zenon DEF compare
  <1>6. CASE a # b
    <2>1. compare(a, b, favs) = IF a \in favs /\ b \notin favs THEN -1
                                ELSE IF a \notin favs /\ b \in favs THEN 1
                                ELSE IF Lex(TokLess, tokens(a), tokens(b)) THEN -1 ELSE 1
      <3> HIDE DEF naturalOrder, Lex, tokens, TokLess
      <3> QED
        BY <1>2, <1>6, Zenon DEF compare
    <2>2. Precedes(a, b, favs) => compare(a, b, favs) = -1
      BY <2>1, Zenon DEF Precedes
    <2>3. Precedes(b, a, favs) => compare(a, b, favs) = 1
      BY <1>4, <2>1, Zenon DEF Precedes
    <2> QED
      BY <1>6, <2>2, <2>3, Zenon
  <1> QED
    BY <1>5, <1>6, Zenon

\* One call of the binary search in a list of n keys, cmp[i] being the result of
\* the comparison of the key at i with the one that is searched.
Ranges(n) == (0..n) \X (-1..(n - 1))
Half(r) == (r[1] + r[2]) \div 2
Step(f, cmp, r) ==
    IF r[1] > r[2] THEN -(r[1] + 1)
    ELSE IF cmp[Half(r)] < 0 THEN f[<<Half(r) + 1, r[2]>>]
    ELSE IF cmp[Half(r)] > 0 THEN f[<<r[1], Half(r) - 1>>]
    ELSE Half(r)
Size(r) == r[2] - r[1] + 1

\* The two halves of a range of the search are ranges, and smaller.
LEMMA RangeFacts ==
  ASSUME NEW n \in Nat, NEW r \in Ranges(n)
  PROVE  /\ r[1] \in 0..n /\ r[2] \in -1..(n - 1) /\ r = <<r[1], r[2]>>
         /\ Size(r) \in Int /\ Size(r) <= n
         /\ r[1] <= r[2] <=> Size(r) > 0
         /\ r[1] <= r[2] => /\ Half(r) \in 0..(n - 1) /\ r[1] <= Half(r) /\ Half(r) <= r[2]
                            /\ <<Half(r) + 1, r[2]>> \in Ranges(n)
                            /\ Size(<<Half(r) + 1, r[2]>>) < Size(r)
                            /\ <<r[1], Half(r) - 1>> \in Ranges(n)
                            /\ Size(<<r[1], Half(r) - 1>>) < Size(r)
  <1>1. r[1] \in 0..n /\ r[2] \in -1..(n - 1) /\ r = <<r[1], r[2]>>
    BY DEF Ranges
  <1>2. Size(r) \in Int /\ Size(r) <= n /\ (r[1] <= r[2] <=> Size(r) > 0)
    BY <1>1 DEF Size
  <1>3. ASSUME r[1] <= r[2]
        PROVE  Half(r) \in 0..(n - 1) /\ r[1] <= Half(r) /\ Half(r) <= r[2]
    BY <1>1, <1>3 DEF Half
  <1>4. ASSUME r[1] <= r[2]
        PROVE  /\ <<Half(r) + 1, r[2]>> \in Ranges(n)
               /\ Size(<<Half(r) + 1, r[2]>>) < Size(r)
    <2> HIDE DEF Half
    <2> QED
      BY <1>1, <1>3, <1>4 DEF Ranges, Size
  <1>5. ASSUME r[1] <= r[2]
        PROVE  /\ <<r[1], Half(r) - 1>> \in Ranges(n)
               /\ Size(<<r[1], Half(r) - 1>>) < Size(r)
    <2> HIDE DEF Half
    <2> QED
      BY <1>1, <1>3, <1>5 DEF Ranges, Size
  <1> QED
    BY <1>1, <1>2, <1>3, <1>4, <1>5, Zenon

\* A range is empty or not.
LEMMA RangeSize ==
  ASSUME NEW n \in Nat, NEW r \in Ranges(n)
  PROVE  /\ r[1] \in Int /\ r[2] \in Int /\ r[1] \in 0..n /\ r[2] \in -1..(n - 1)
         /\ Size(r) \in Int
         /\ r[1] > r[2] \/ r[1] <= r[2]
         /\ Size(r) <= 0 => r[1] > r[2]
  <1>1. r[1] \in 0..n /\ r[2] \in -1..(n - 1)
    BY Zenon DEF Ranges
  <1>2. r[1] \in Int /\ r[2] \in Int /\ (r[1] > r[2] \/ r[1] <= r[2])
    BY <1>1
  <1>3. Size(r) \in Int /\ (Size(r) <= 0 => r[1] > r[2])
    BY <1>2 DEF Size
  <1> QED
    BY <1>1, <1>2, <1>3, Zenon

\* Two functions that agree on the smaller ranges make the same step.
LEMMA StepAgrees ==
  ASSUME NEW n \in Nat, NEW r \in Ranges(n), NEW f, NEW g, NEW cmp,
         \A x \in Ranges(n) : Size(x) < Size(r) => f[x] = g[x]
  PROVE  Step(f, cmp, r) = Step(g, cmp, r)
  <1>1. CASE r[1] > r[2]
    BY <1>1, Zenon DEF Step
  <1>2. CASE ~(r[1] > r[2])
    <2>1. r[1] <= r[2]
      BY <1>2, RangeSize, Zenon
    <2>2. /\ f[<<Half(r) + 1, r[2]>>] = g[<<Half(r) + 1, r[2]>>]
          /\ f[<<r[1], Half(r) - 1>>] = g[<<r[1], Half(r) - 1>>]
      BY <2>1, RangeFacts, Zenon
    <2> QED
      BY <2>2, Zenon DEF Step
  <1> QED
    BY <1>1, <1>2, Zenon

\* The recursion of the search is defined.
LEMMA SearchExists ==
  ASSUME NEW n \in Nat, NEW cmp
  PROVE  \E f : f = [r \in Ranges(n) |-> Step(f, cmp, r)]
  <1> DEFINE Upto(f, k) == /\ f = [r \in Ranges(n) |-> f[r]]
                           /\ \A r \in Ranges(n) : Size(r) <= k => f[r] = Step(f, cmp, r)
             P == {k \in Nat : \E f : Upto(f, k)}
  <1>1. 0 \in P
    <2> DEFINE f == [r \in Ranges(n) |-> -(r[1] + 1)]
    <2>1. ASSUME NEW r \in Ranges(n), Size(r) <= 0 PROVE f[r] = Step(f, cmp, r)
      <3>1. r[1] > r[2]
        BY <2>1, RangeSize, Zenon
      <3> QED
        BY <3>1, Zenon DEF Step
    <2>2. f = [r \in Ranges(n) |-> f[r]]
      BY Zenon
    <2> QED
      BY <2>1, <2>2, Zenon
  <1>2. ASSUME NEW k \in 0..(n - 1), k \in P PROVE k + 1 \in P
    <2>1. PICK f : Upto(f, k)
      BY <1>2, Zenon
    <2> DEFINE g == [r \in Ranges(n) |-> IF Size(r) <= k THEN f[r] ELSE Step(f, cmp, r)]
    <2>2. ASSUME NEW r \in Ranges(n), Size(r) <= k + 1 PROVE g[r] = Step(g, cmp, r)
      <3>1. ASSUME NEW x \in Ranges(n), Size(x) < Size(r) PROVE f[x] = g[x]
        <4>1. Size(x) \in Int /\ Size(r) \in Int /\ k \in Int
          BY RangeSize
        <4>2. Size(x) <= k
          BY <2>2, <3>1, <4>1
        <4> QED
          BY <4>2, Zenon
      <3>2. Step(f, cmp, r) = Step(g, cmp, r)
        <4> HIDE DEF g
        <4> QED
          BY <3>1, StepAgrees
      <3>3. g[r] = Step(f, cmp, r)
        BY <2>1, Zenon
      <3> QED
        BY <3>2, <3>3, Zenon
    <2>3. g = [r \in Ranges(n) |-> g[r]]
      BY Zenon
    <2>4. k + 1 \in Nat
      OBVIOUS
    <2>5. Upto(g, k + 1)
      BY <2>2, <2>3, Zenon
    <2> HIDE DEF Upto, g
    <2> QED
      BY <2>4, <2>5, Zenon
  <1>3. \A k \in 0..n : k \in P
    <2> HIDE DEF P
    <2> QED
      BY <1>1, <1>2, Induction, Zenon
  <1>4. n \in 0..n
    OBVIOUS
  <1>5. PICK f : Upto(f, n)
    BY <1>3, <1>4, Zenon
  <1>6. \A r \in Ranges(n) : f[r] = Step(f, cmp, r)
    BY <1>5, RangeFacts, Zenon
  <1>7. f = [r \in Ranges(n) |-> Step(f, cmp, r)]
    <2>1. f = [r \in Ranges(n) |-> f[r]]
      BY <1>5, Zenon
    <2>2. [r \in Ranges(n) |-> f[r]] = [r \in Ranges(n) |-> Step(f, cmp, r)]
      BY <1>6, Zenon
    <2> QED
      BY <2>1, <2>2, Zenon
  <1> QED
    BY <1>7, Zenon

\* The result of the search: the place of the key, or where it would be inserted.
Found(n, cmp, x) ==
    \/ x \in 0..(n - 1) /\ cmp[x] = 0
    \/ \E p \in 0..n :
          /\ x = -(p + 1)
          /\ \A i \in 0..(p - 1) : cmp[i] < 0
          /\ \A i \in p..(n - 1) : cmp[i] > 0

\* Collections.binarySearch over comparisons that never decrease along the list.
LEMMA SearchFinds ==
  ASSUME NEW n \in Nat, NEW cmp \in [0..(n - 1) -> Int],
         \A i, k \in 0..(n - 1) : i < k /\ cmp[k] <= 0 => cmp[i] < 0,
         \A i, k \in 0..(n - 1) : i < k /\ cmp[i] >= 0 => cmp[k] > 0,
         NEW f, f = [r \in Ranges(n) |-> Step(f, cmp, r)]
  PROVE  Found(n, cmp, f[<<0, n - 1>>])
  <1> DEFINE Open(r) == /\ r[1] <= r[2] + 1
                        /\ \A i \in 0..(r[1] - 1) : cmp[i] < 0
                        /\ \A i \in (r[2] + 1)..(n - 1) : cmp[i] > 0
             P == {k \in Nat : \A r \in Ranges(n) : Open(r) /\ Size(r) <= k => Found(n, cmp, f[r])}
  <1>1. ASSUME NEW r \in Ranges(n), Open(r), r[1] > r[2] PROVE Found(n, cmp, f[r])
    <2>1. r[1] \in 0..n /\ r[1] \in Int /\ r[2] \in Int /\ r[1] <= r[2] + 1 /\ r[1] > r[2]
      BY <1>1, RangeSize, Zenon
    <2>2. r[1] = r[2] + 1
      BY <2>1
    <2>3. f[r] = -(r[1] + 1)
      BY <1>1, Zenon DEF Step
    <2> QED
      BY <1>1, <2>1, <2>2, <2>3, Zenon DEF Found
  <1>2. 0 \in P
    <2> SUFFICES ASSUME NEW r \in Ranges(n), Open(r), Size(r) <= 0 PROVE Found(n, cmp, f[r])
      BY Zenon
    <2>1. r[1] > r[2]
      BY RangeSize, Zenon
    <2> QED
      BY <1>1, <2>1, Zenon
  <1>3. ASSUME NEW k \in 0..(n - 1), k \in P PROVE k + 1 \in P
    <2>1. k + 1 \in Nat
      OBVIOUS
    <2> SUFFICES ASSUME NEW r \in Ranges(n), Open(r), Size(r) <= k + 1 PROVE Found(n, cmp, f[r])
      BY <2>1, Zenon
    <2>2. CASE r[1] > r[2]
      BY <1>1, <2>2, Zenon
    <2>3. CASE ~(r[1] > r[2])
      <3> DEFINE m == Half(r)
      <3>1. r[1] \in 0..n /\ r[2] \in -1..(n - 1) /\ r[1] <= r[2] /\ Size(r) \in Int
        BY <2>3, RangeSize, Zenon
      <3>2. /\ m \in 0..(n - 1) /\ r[1] <= m /\ m <= r[2]
            /\ <<m + 1, r[2]>> \in Ranges(n) /\ Size(<<m + 1, r[2]>>) < Size(r)
            /\ <<r[1], m - 1>> \in Ranges(n) /\ Size(<<r[1], m - 1>>) < Size(r)
        BY <3>1, RangeFacts, Zenon
      <3>3. Size(<<m + 1, r[2]>>) <= k /\ Size(<<r[1], m - 1>>) <= k
        <4>1. Size(<<m + 1, r[2]>>) \in Int /\ Size(<<r[1], m - 1>>) \in Int
          BY <3>2, RangeSize, Zenon
        <4>2. k \in Int
          OBVIOUS
        <4>3. \A a, b, c \in Int : a < b /\ b <= c + 1 => a <= c
          OBVIOUS
        <4> HIDE DEF m
        <4> QED
          BY <3>1, <3>2, <4>1, <4>2, <4>3, Zenon
      <3>4. f[r] = IF cmp[m] < 0 THEN f[<<m + 1, r[2]>>]
                   ELSE IF cmp[m] > 0 THEN f[<<r[1], m - 1>>] ELSE m
        BY <2>3, Zenon DEF Step
      <3>5. cmp[m] \in Int
        BY <3>2, Zenon
      <3> HIDE DEF m
      <3>6. CASE cmp[m] < 0
        <4>1. \A i \in 0..m : cmp[i] < 0
          BY <3>2, <3>5, <3>6
        <4>2. Open(<<m + 1, r[2]>>)
          <5>1. m + 1 <= r[2] + 1 /\ (m + 1) - 1 = m
            BY <3>1, <3>2
          <5> QED
            BY <4>1, <5>1, Zenon
        <4>3. Found(n, cmp, f[<<m + 1, r[2]>>])
          BY <1>3, <3>2, <3>3, <4>2, Zenon
        <4> QED
          BY <3>4, <3>6, <4>3, Zenon
      <3>7. CASE cmp[m] > 0
        <4>1. \A i \in m..(n - 1) : cmp[i] > 0
          BY <3>2, <3>5, <3>7
        <4>2. Open(<<r[1], m - 1>>)
          <5>1. r[1] <= m /\ (m - 1) + 1 = m
            BY <3>1, <3>2
          <5> QED
            BY <4>1, <5>1, Zenon
        <4>3. Found(n, cmp, f[<<r[1], m - 1>>])
          BY <1>3, <3>2, <3>3, <4>2, Zenon
        <4>4. ~(cmp[m] < 0)
          BY <3>5, <3>7
        <4> QED
          BY <3>4, <3>7, <4>3, <4>4, Zenon
      <3>8. CASE ~(cmp[m] < 0) /\ ~(cmp[m] > 0)
        <4>1. cmp[m] = 0
          BY <3>5, <3>8
        <4> QED
          BY <3>2, <3>4, <3>8, <4>1, Zenon DEF Found
      <3> QED
        BY <3>6, <3>7, <3>8, Zenon
    <2> QED
      BY <2>2, <2>3, Zenon
  <1>4. \A k \in 0..n : k \in P
    <2> HIDE DEF P
    <2> QED
      BY <1>2, <1>3, Induction, Zenon
  <1>5. n \in P
    <2> HIDE DEF P
    <2> QED
      BY <1>4
  <1>6. <<0, n - 1>> \in Ranges(n) /\ Size(<<0, n - 1>>) <= n
    BY DEF Ranges, Size
  <1>7. Open(<<0, n - 1>>)
    <2>1. 0 <= (n - 1) + 1 /\ 0..(0 - 1) = {} /\ ((n - 1) + 1)..(n - 1) = {}
      OBVIOUS
    <2> QED
      BY <2>1, Zenon
  <1> QED
    BY <1>5, <1>6, <1>7, Zenon

\* The keys are in the order of the comparator; there are no two equal ones.
SortedKeys(keys, favs) ==
    \A i, k \in 1..Len(keys) : i < k => Precedes(keys[i], keys[k], favs)

\* x is the index of the key, or -(p + 1) for the place p where it belongs.
Located(keys, key, favs, x) ==
    \/ x \in 0..(Len(keys) - 1) /\ keys[x + 1] = key
    \/ \E p \in 0..Len(keys) :
          /\ x = -(p + 1)
          /\ \A i \in 1..p : Precedes(keys[i], key, favs)
          /\ \A i \in (p + 1)..Len(keys) : Precedes(key, keys[i], favs)

\* getInsertionPoint: the index of the key in a sorted list, or its place.
LEMMA BinarySearchIs ==
  ASSUME DistinctTokens, NEW favs, NEW keys \in Seq(Names), NEW key \in Names, SortedKeys(keys, favs)
  PROVE  Located(keys, key, favs, binarySearch(keys, key, favs))
  <1> DEFINE n == Len(keys)
             cmp == [i \in 0..(n - 1) |-> compare(keys[i + 1], key, favs)]
  <1>1. n \in Nat
    OBVIOUS
  <1>2. ASSUME NEW i \in 0..(n - 1)
        PROVE  /\ i \in Int /\ i + 1 \in 1..Len(keys) /\ keys[i + 1] \in Names
               /\ cmp[i] = compare(keys[i + 1], key, favs)
    OBVIOUS
  <1> HIDE DEF n, cmp
  <1>a. \A a \in Names : ~Precedes(a, a, favs)
    BY PrecedesTotal, Zenon
  <1>b. \A a, b \in Names : a = b \/ Precedes(a, b, favs) \/ Precedes(b, a, favs)
    BY PrecedesTotal, Zenon
  <1>c. \A a, b, c \in Names : Precedes(a, b, favs) /\ Precedes(b, c, favs) => Precedes(a, c, favs)
    BY PrecedesTotal, Zenon
  <1>3. ASSUME NEW i \in 0..(n - 1)
        PROVE  \/ cmp[i] = 0 /\ keys[i + 1] = key
               \/ cmp[i] = -1 /\ Precedes(keys[i + 1], key, favs)
               \/ cmp[i] = 1 /\ Precedes(key, keys[i + 1], favs)
    <2>1. keys[i + 1] \in Names /\ cmp[i] = compare(keys[i + 1], key, favs)
      BY <1>2, Zenon
    <2>2. keys[i + 1] = key \/ Precedes(keys[i + 1], key, favs) \/ Precedes(key, keys[i + 1], favs)
      BY <1>b, <2>1, Zenon
    <2>3. /\ keys[i + 1] = key => cmp[i] = 0
          /\ Precedes(keys[i + 1], key, favs) => cmp[i] = -1
          /\ Precedes(key, keys[i + 1], favs) => cmp[i] = 1
      BY <2>1, CompareIs, Zenon
    <2> QED
      BY <2>2, <2>3, Zenon
  <1>4. \A i \in 0..(n - 1) : /\ cmp[i] \in {-1, 0, 1}
                              /\ cmp[i] < 0 <=> cmp[i] = -1
                              /\ cmp[i] > 0 <=> cmp[i] = 1
                              /\ cmp[i] <= 0 <=> cmp[i] # 1
                              /\ cmp[i] >= 0 <=> cmp[i] # -1
    BY <1>3
  <1>5. cmp \in [0..(n - 1) -> Int]
    <2>1. \A i \in 0..(n - 1) : cmp[i] \in Int
      BY <1>4
    <2>2. cmp = [i \in 0..(n - 1) |-> cmp[i]]
      BY Zenon DEF cmp
    <2> QED
      BY <2>1, <2>2, Zenon
  <1>6. ASSUME NEW i \in 0..(n - 1), NEW k \in 0..(n - 1), i < k
        PROVE  (cmp[k] <= 0 => cmp[i] < 0) /\ (cmp[i] >= 0 => cmp[k] > 0)
    <2>1. i + 1 < k + 1
      BY <1>2, <1>6
    <2>2. /\ i + 1 \in 1..Len(keys) /\ k + 1 \in 1..Len(keys)
          /\ keys[i + 1] \in Names /\ keys[k + 1] \in Names
      BY <1>2, Zenon
    <2>3. Precedes(keys[i + 1], keys[k + 1], favs)
      BY <2>1, <2>2, Zenon DEF SortedKeys
    <2>4. -1 # 1 /\ -1 # 0 /\ 0 # 1
      OBVIOUS
    <2>5. ASSUME cmp[k] # 1 PROVE cmp[i] = -1
      <3>1. Precedes(keys[i + 1], key, favs)
        BY <1>c, <1>3, <2>2, <2>3, <2>5, Zenon
      <3>2. keys[i + 1] # key /\ ~Precedes(key, keys[i + 1], favs)
        BY <1>a, <1>c, <2>2, <3>1, Zenon
      <3> QED
        BY <1>3, <3>2, Zenon
    <2>6. ASSUME cmp[i] # -1 PROVE cmp[k] = 1
      <3>1. Precedes(key, keys[k + 1], favs)
        <4>1. keys[i + 1] = key \/ Precedes(key, keys[i + 1], favs)
          BY <1>3, <2>6, Zenon
        <4> QED
          BY <1>c, <2>2, <2>3, <4>1, Zenon
      <3>2. keys[k + 1] # key /\ ~Precedes(keys[k + 1], key, favs)
        BY <1>a, <1>c, <2>2, <3>1, Zenon
      <3> QED
        BY <1>3, <3>2, Zenon
    <2> QED
      BY <1>4, <2>5, <2>6, Zenon
  <1> DEFINE Is(g) == g = [range \in (0..Len(keys)) \X (-1..(Len(keys) - 1)) |->
                 IF range[1] > range[2] THEN -(range[1] + 1)
                 ELSE IF compare(keys[(range[1] + range[2]) \div 2 + 1], key, favs) < 0
                      THEN g[<<(range[1] + range[2]) \div 2 + 1, range[2]>>]
                 ELSE IF compare(keys[(range[1] + range[2]) \div 2 + 1], key, favs) > 0
                      THEN g[<<range[1], (range[1] + range[2]) \div 2 - 1>>]
                 ELSE (range[1] + range[2]) \div 2]
  <1>7. ASSUME NEW g PROVE Is(g) <=> g = [r \in Ranges(n) |-> Step(g, cmp, r)]
    <2>1. ASSUME NEW r \in Ranges(n)
          PROVE  Step(g, cmp, r) =
                 IF r[1] > r[2] THEN -(r[1] + 1)
                 ELSE IF compare(keys[(r[1] + r[2]) \div 2 + 1], key, favs) < 0
                      THEN g[<<(r[1] + r[2]) \div 2 + 1, r[2]>>]
                 ELSE IF compare(keys[(r[1] + r[2]) \div 2 + 1], key, favs) > 0
                      THEN g[<<r[1], (r[1] + r[2]) \div 2 - 1>>]
                 ELSE (r[1] + r[2]) \div 2
      <3>1. CASE r[1] > r[2]
        BY <3>1, Zenon DEF Step
      <3>2. CASE ~(r[1] > r[2])
        <4>1. r[1] <= r[2]
          BY <1>1, <3>2, RangeSize, Zenon
        <4>2. Half(r) \in 0..(n - 1)
          BY <1>1, <4>1, RangeFacts, Zenon
        <4>3. cmp[Half(r)] = compare(keys[Half(r) + 1], key, favs)
          BY <1>2, <4>2, Zenon
        <4> QED
          BY <4>3, Zenon DEF Step, Half
      <3> QED
        BY <3>1, <3>2, Zenon
    <2> QED
      BY <2>1, Zenon DEF n, Ranges
  <1>8. binarySearch(keys, key, favs) = (CHOOSE g : Is(g))[<<0, Len(keys) - 1>>]
    BY Zenon DEF binarySearch
  <1> DEFINE F == CHOOSE g : Is(g)
  <1>9. \E g : Is(g)
    <2>1. PICK g : g = [r \in Ranges(n) |-> Step(g, cmp, r)]
      BY <1>1, SearchExists, Zenon
    <2> HIDE DEF Is
    <2> QED
      BY <1>7, <2>1, Zenon
  <1>10. Is(F)
    <2> HIDE DEF Is
    <2> QED
      BY <1>9, Zenon
  <1> HIDE DEF F, Is
  <1>11. F = [r \in Ranges(n) |-> Step(F, cmp, r)]
    BY <1>7, <1>10, Zenon
  <1>12. Found(n, cmp, F[<<0, n - 1>>])
    <2>1. \A i, k \in 0..(n - 1) : i < k /\ cmp[k] <= 0 => cmp[i] < 0
      BY <1>6, Zenon
    <2>2. \A i, k \in 0..(n - 1) : i < k /\ cmp[i] >= 0 => cmp[k] > 0
      BY <1>6, Zenon
    <2> QED
      BY <1>1, <1>5, <1>11, <2>1, <2>2, SearchFinds, Zenon
  <1> DEFINE x == F[<<0, n - 1>>]
  <1>13. binarySearch(keys, key, favs) = x
    BY <1>8, Zenon DEF F, n
  <1> HIDE DEF x
  <1>14. CASE x \in 0..(n - 1) /\ cmp[x] = 0
    <2>1. keys[x + 1] = key
      <3>1. -1 # 0 /\ 1 # 0
        OBVIOUS
      <3> QED
        BY <1>3, <1>14, <3>1, Zenon
    <2> QED
      BY <1>13, <1>14, <2>1, Zenon DEF Located, n
  <1>15. ASSUME NEW p \in 0..n, x = -(p + 1),
                \A i \in 0..(p - 1) : cmp[i] < 0,
                \A i \in p..(n - 1) : cmp[i] > 0
         PROVE  Located(keys, key, favs, x)
    <2>1. ASSUME NEW i \in 1..p PROVE Precedes(keys[i], key, favs)
      <3>1. i - 1 \in 0..(p - 1) /\ i - 1 \in 0..(n - 1) /\ (i - 1) + 1 = i
        BY <1>1
      <3>2. cmp[i - 1] = -1
        BY <1>4, <1>15, <3>1, Zenon
      <3>3. -1 # 0 /\ -1 # 1
        OBVIOUS
      <3>4. Precedes(keys[(i - 1) + 1], key, favs)
        BY <1>3, <3>1, <3>2, <3>3, Zenon
      <3> QED
        BY <3>1, <3>4, Zenon
    <2>2. ASSUME NEW i \in (p + 1)..n PROVE Precedes(key, keys[i], favs)
      <3>1. i - 1 \in p..(n - 1) /\ i - 1 \in 0..(n - 1) /\ (i - 1) + 1 = i
        BY <1>1
      <3>2. cmp[i - 1] = 1
        BY <1>4, <1>15, <3>1, Zenon
      <3>3. -1 # 1 /\ 0 # 1
        OBVIOUS
      <3>4. Precedes(key, keys[(i - 1) + 1], favs)
        BY <1>3, <3>1, <3>2, <3>3, Zenon
      <3> QED
        BY <3>1, <3>4, Zenon
    <2> QED
      BY <1>15, <2>1, <2>2, Zenon DEF Located, n
  <1> QED
    BY <1>12, <1>13, <1>14, <1>15, Zenon DEF Found, x

\* A list of names in order.
SortedLists(favs) == {keys \in Seq(Names) : SortedKeys(keys, favs)}

\* Insertion keeps the list sorted, and adds the key and nothing else.
LEMMA AddedSorted ==
  ASSUME DistinctTokens, NEW favs, NEW keys \in SortedLists(favs), NEW key \in Names
  PROVE  Added(keys, key, favs) \in SortedLists(favs)
  <1> DEFINE x == binarySearch(keys, key, favs)
             n == Len(keys)
  <1>1. keys \in Seq(Names) /\ SortedKeys(keys, favs) /\ n \in Nat
    BY DEF SortedLists
  <1>2. Located(keys, key, favs, x)
    BY <1>1, BinarySearchIs, Zenon
  <1>3. Added(keys, key, favs) = IF -x - 1 < 0 THEN keys ELSE InsertedAt(keys, -x - 1 + 1, key)
    BY Zenon DEF Added
  <1> HIDE DEF x
  <1>4. CASE x \in 0..(n - 1)
    <2>1. -x - 1 < 0
      BY <1>1, <1>4
    <2> QED
      BY <1>3, <2>1, Zenon
  <1>5. ASSUME NEW p \in 0..n, x = -(p + 1),
               \A i \in 1..p : Precedes(keys[i], key, favs),
               \A i \in (p + 1)..n : Precedes(key, keys[i], favs)
        PROVE  Added(keys, key, favs) \in SortedLists(favs)
    <2>1. -x - 1 = p /\ ~(-x - 1 < 0)
      BY <1>1, <1>5
    <2> DEFINE new == InsertedAt(keys, p + 1, key)
    <2>2. Added(keys, key, favs) = new
      BY <1>3, <2>1, Zenon
    <2>3. /\ new \in Seq(Names) /\ Len(new) = n + 1
          /\ \A i \in 1..(n + 1) : new[i] = IF i <= p THEN keys[i] ELSE IF i = p + 1 THEN key ELSE keys[i - 1]
      BY <1>1, InsertIs
    <2> HIDE DEF new, n
    <2>4. ASSUME NEW i \in 1..(n + 1), NEW k \in 1..(n + 1), i < k
          PROVE  Precedes(new[i], new[k], favs)
      <3>1. CASE k <= p
        <4>1. i <= p /\ i \in 1..n /\ k \in 1..n
          BY <1>1, <2>4, <3>1
        <4>2. new[i] = keys[i] /\ new[k] = keys[k]
          BY <2>3, <3>1, <4>1, Zenon
        <4> QED
          BY <1>1, <2>4, <4>1, <4>2, Zenon DEF SortedKeys, n
      <3>2. CASE k = p + 1
        <4>1. i <= p /\ i \in 1..p /\ ~(k <= p)
          BY <1>1, <2>4, <3>2
        <4>2. new[i] = keys[i] /\ new[k] = key
          BY <2>3, <3>2, <4>1, Zenon
        <4> QED
          BY <1>5, <4>1, <4>2, Zenon
      <3>3. CASE ~(k <= p) /\ k # p + 1
        <4>1. k - 1 \in (p + 1)..n /\ k - 1 \in 1..n
          BY <1>1, <3>3
        <4>2. new[k] = keys[k - 1]
          BY <2>3, <3>3, Zenon
        <4>3. CASE i <= p
          <5>1. i \in 1..n /\ i < k - 1
            BY <1>1, <4>1, <4>3
          <5>2. new[i] = keys[i]
            BY <2>3, <4>3, Zenon
          <5> QED
            BY <1>1, <4>1, <4>2, <5>1, <5>2, Zenon DEF SortedKeys, n
        <4>4. CASE i = p + 1
          <5>1. ~(i <= p)
            BY <1>1, <4>4
          <5>2. new[i] = key
            BY <2>3, <4>4, <5>1, Zenon
          <5> QED
            BY <1>5, <4>1, <4>2, <5>2, Zenon
        <4>5. CASE ~(i <= p) /\ i # p + 1
          <5>1. i - 1 \in 1..n /\ i - 1 < k - 1
            BY <1>1, <2>4, <4>5
          <5>2. new[i] = keys[i - 1]
            BY <2>3, <4>5, Zenon
          <5> QED
            BY <1>1, <4>1, <4>2, <5>1, <5>2, Zenon DEF SortedKeys, n
        <4> QED
          BY <4>3, <4>4, <4>5, Zenon
      <3> QED
        BY <3>1, <3>2, <3>3, Zenon
    <2> QED
      BY <2>2, <2>3, <2>4, Zenon DEF SortedKeys, SortedLists
  <1> QED
    BY <1>1, <1>2, <1>4, <1>5, Zenon DEF Located, n

\* Removal keeps the list sorted.
LEMMA RemovedSorted ==
  ASSUME NEW favs, NEW keys \in SortedLists(favs), NEW p \in 1..Len(keys)
  PROVE  RemovedAt(keys, p) \in SortedLists(favs)
  <1> DEFINE n == Len(keys)
             new == RemovedAt(keys, p)
             At(i) == IF i < p THEN i ELSE i + 1
  <1>1. keys \in Seq(Names) /\ SortedKeys(keys, favs) /\ n \in Nat
    BY DEF SortedLists
  <1>2. new \in Seq(Names) /\ Len(new) = n - 1 /\ \A i \in 1..(n - 1) : new[i] = keys[At(i)]
    BY <1>1, RemoveIs, Zenon
  <1>3. ASSUME NEW i \in 1..(n - 1), NEW k \in 1..(n - 1), i < k
        PROVE  At(i) \in 1..n /\ At(k) \in 1..n /\ At(i) < At(k)
    BY <1>1, <1>3
  <1> HIDE DEF new, At
  <1>4. ASSUME NEW i \in 1..(n - 1), NEW k \in 1..(n - 1), i < k
        PROVE  Precedes(new[i], new[k], favs)
    BY <1>1, <1>2, <1>3, <1>4, Zenon DEF SortedKeys
  <1> HIDE DEF n
  <1>5. SortedKeys(new, favs)
    BY <1>2, <1>4, Zenon DEF SortedKeys
  <1> QED
    BY <1>2, <1>5, Zenon DEF SortedLists, new

\* Insertion adds the key and nothing else.
LEMMA AddedSet ==
  ASSUME DistinctTokens, NEW favs, NEW keys \in SortedLists(favs), NEW key \in Names
  PROVE  Range(Added(keys, key, favs)) = Range(keys) \cup {key}
  <1> DEFINE x == binarySearch(keys, key, favs)
             n == Len(keys)
  <1>1. keys \in Seq(Names) /\ SortedKeys(keys, favs) /\ n \in Nat
    BY DEF SortedLists
  <1>0. DOMAIN keys = 1..n
    BY <1>1
  <1>2. Located(keys, key, favs, x)
    BY <1>1, BinarySearchIs, Zenon
  <1>3. Added(keys, key, favs) = IF -x - 1 < 0 THEN keys ELSE InsertedAt(keys, -x - 1 + 1, key)
    BY Zenon DEF Added
  <1> HIDE DEF x
  <1>4. CASE x \in 0..(n - 1) /\ keys[x + 1] = key
    <2>1. -x - 1 < 0 /\ x + 1 \in 1..n
      BY <1>1, <1>4
    <2>2. key \in Range(keys)
      BY <1>0, <1>4, <2>1, Zenon DEF Range
    <2> QED
      BY <1>3, <2>1, <2>2, Zenon
  <1>5. ASSUME NEW p \in 0..n, x = -(p + 1)
        PROVE  Range(Added(keys, key, favs)) = Range(keys) \cup {key}
    <2>1. -x - 1 = p /\ ~(-x - 1 < 0)
      BY <1>1, <1>5
    <2> DEFINE new == InsertedAt(keys, p + 1, key)
    <2>2. Added(keys, key, favs) = new
      BY <1>3, <2>1, Zenon
    <2>3. /\ new \in Seq(Names) /\ Len(new) = n + 1
          /\ \A i \in 1..(n + 1) : new[i] = IF i <= p THEN keys[i] ELSE IF i = p + 1 THEN key ELSE keys[i - 1]
      BY <1>1, InsertIs
    <2>4. DOMAIN new = 1..(n + 1)
      BY <2>3
    <2> HIDE DEF new, n
    <2>5. ASSUME NEW i \in 1..(n + 1) PROVE new[i] = key \/ \E k \in 1..n : new[i] = keys[k]
      <3>1. CASE i <= p
        <4>1. i \in 1..n
          BY <1>1, <3>1
        <4> QED
          BY <2>3, <3>1, <4>1, Zenon
      <3>2. CASE i = p + 1
        <4>1. ~(i <= p)
          BY <1>1, <3>2
        <4> QED
          BY <2>3, <3>2, <4>1, Zenon
      <3>3. CASE ~(i <= p) /\ i # p + 1
        <4>1. i - 1 \in 1..n
          BY <1>1, <3>3
        <4> QED
          BY <2>3, <3>3, <4>1, Zenon
      <3> QED
        BY <3>1, <3>2, <3>3, Zenon
    <2>6. ASSUME NEW k \in 1..n PROVE \E i \in 1..(n + 1) : new[i] = keys[k]
      <3>1. CASE k <= p
        <4>1. k \in 1..(n + 1)
          BY <1>1
        <4> QED
          BY <2>3, <3>1, <4>1, Zenon
      <3>2. CASE ~(k <= p)
        <4>1. k + 1 \in 1..(n + 1) /\ ~(k + 1 <= p) /\ k + 1 # p + 1 /\ (k + 1) - 1 = k
          BY <1>1, <3>2
        <4> QED
          BY <2>3, <4>1, Zenon
      <3> QED
        BY <3>1, <3>2, Zenon
    <2>7. \E i \in 1..(n + 1) : new[i] = key
      <3>1. p + 1 \in 1..(n + 1) /\ ~(p + 1 <= p)
        BY <1>1
      <3> QED
        BY <2>3, <3>1, Zenon
    <2>8. Range(new) = Range(keys) \cup {key}
      <3>1. Range(new) \subseteq Range(keys) \cup {key}
        BY <1>0, <2>4, <2>5, Zenon DEF Range
      <3>2. Range(keys) \subseteq Range(new)
        BY <1>0, <2>4, <2>6, Zenon DEF Range
      <3>3. key \in Range(new)
        BY <2>4, <2>7, Zenon DEF Range
      <3> QED
        BY <3>1, <3>2, <3>3, Zenon
    <2> QED
      BY <2>2, <2>8, Zenon
  <1> QED
    BY <1>2, <1>4, <1>5, Zenon DEF Located, n

\* Re-sorting gives a sorted list of the same keys.
LEMMA ResortSorted ==
  ASSUME DistinctTokens, NEW favs, tunnelMap \in Seq(Names)
  PROVE  resort(favs) \in SortedLists(favs) /\ Range(resort(favs)) = Range(tunnelMap)
  <1> DEFINE s == tunnelMap
             n == Len(s)
             First(k) == {s[i] : i \in 1..k}
             D == [k \in 0..n |-> {keys \in SortedLists(favs) : Range(keys) = First(k)}]
             H == [x \in (1..n) \X SortedLists(favs) |-> Added(x[2], s[x[1]], favs)]
             Is(g) == g = [k \in 0..n |-> IF k = 0 THEN <<>> ELSE Added(g[k - 1], s[k], favs)]
             F == CHOOSE g : Is(g)
  <1>1. /\ n \in Nat /\ 0 \in 0..n /\ n \in 0..n /\ 1..0 = {} /\ DOMAIN s = 1..n
        /\ \A k \in 1..n : k \in 0..n /\ k - 1 \in 0..n /\ k # 0 /\ s[k] \in Names /\ 1..k = 1..(k - 1) \cup {k}
    OBVIOUS
  <1>2. <<>> \in D[0]
    <2>1. <<>> \in SortedLists(favs)
      BY DEF SortedLists, SortedKeys
    <2>2. Range(<<>>) = {} /\ First(0) = {}
      BY <1>1 DEF Range
    <2> QED
      BY <1>1, <2>1, <2>2, Zenon
  <1> HIDE DEF s, n
  <1>3. ASSUME NEW k \in 1..n, NEW a \in D[k - 1] PROVE Added(a, s[k], favs) \in D[k]
    <2>1. a \in SortedLists(favs) /\ Range(a) = First(k - 1) /\ s[k] \in Names
      BY <1>1, Zenon
    <2>2. Added(a, s[k], favs) \in SortedLists(favs)
      BY <2>1, AddedSorted, Zenon
    <2>3. \A keys \in SortedLists(favs), key \in Names : Range(Added(keys, key, favs)) = Range(keys) \cup {key}
      BY AddedSet, Zenon
    <2>4. Range(Added(a, s[k], favs)) = First(k - 1) \cup {s[k]}
      <3>1. Range(Added(a, s[k], favs)) = Range(a) \cup {s[k]}
        <4> HIDE DEF First, D
        <4> QED
          BY <2>1, <2>3, Zenon
      <3> QED
        BY <2>1, <3>1, Zenon
    <2>5. First(k) = First(k - 1) \cup {s[k]}
      <3>1. 1..k = 1..(k - 1) \cup {k}
        BY <1>1, Zenon
      <3> QED
        BY <3>1, Zenon
    <2> HIDE DEF First
    <2> QED
      BY <1>1, <2>2, <2>4, <2>5, Zenon
  <1>4. PICK f : Iterates(f, n, <<>>, H) /\ \A k \in 0..n : f[k] \in D[k]
    <2>1. \A k \in 1..n : \A a \in D[k - 1] : a \in SortedLists(favs)
      BY <1>1, Zenon
    <2> HIDE DEF D
    <2>2. \A k \in 1..n : \A a \in D[k - 1] : H[<<k, a>>] \in D[k]
      BY <1>3, <2>1, Zenon
    <2> HIDE DEF H
    <2> QED
      BY <1>1, <1>2, <2>2, FoldExists, Zenon
  <1>5. Is(f)
    <2>1. \A k \in 0..n : k = 0 \/ (k # 0 /\ k \in 1..n)
      BY <1>1
    <2>2. \A k \in 1..n : f[k - 1] \in SortedLists(favs)
      BY <1>1, <1>4, Zenon
    <2>3. \A k \in 0..n : k = 0 \/ (k # 0 /\ H[<<k, f[k - 1]>>] = Added(f[k - 1], s[k], favs))
      BY <2>1, <2>2, Zenon
    <2> HIDE DEF H, D
    <2> QED
      BY <1>4, <2>3, Zenon DEF Iterates
  <1>6. Is(F)
    <2> HIDE DEF Is
    <2> QED
      BY <1>5, Zenon
  <1>7. resort(favs) = F[n]
    BY Zenon DEF resort, FoldLeft, s, n
  <1> HIDE DEF F
  <1>8. F[0] = <<>> /\ \A k \in 1..n : F[k] = Added(F[k - 1], s[k], favs)
    BY <1>1, <1>6, Zenon
  <1>9. F[n] \in D[n]
    <2> HIDE DEF D, Is
    <2>1. F[0] \in D[0] /\ \A k \in 1..n : F[k - 1] \in D[k - 1] => F[k] \in D[k]
      BY <1>2, <1>3, <1>8, Zenon
    <2> QED
      BY <1>1, <2>1, FoldStays, Zenon
  <1>10. First(n) = Range(s)
    BY <1>1, Zenon DEF Range
  <1> QED
    BY <1>1, <1>7, <1>9, <1>10, Zenon DEF s

\* The inductive invariant.
ListInv == tunnelMap \in SortedLists(favourites)

\* The list is empty at first.
LEMMA InitList == Init => ListInv
  BY DEF Init, ListInv, SortedLists, SortedKeys

\* Every step of TunnelManager keeps the list in order: an insertion, a removal,
\* and a change of the favourites with the re-sorting that belongs to it.
LEMMA NextList == DistinctTokens /\ ListInv /\ [Next]_vars => ListInv'
  <1> SUFFICES ASSUME DistinctTokens, ListInv, [Next]_vars PROVE ListInv'
    BY Zenon
  <1>0. tunnelMap \in Seq(Names) /\ tunnelMap \in SortedLists(favourites)
    BY Zenon DEF ListInv, SortedLists
  <1>1. ASSUME NEW n \in Names, Add(n) PROVE ListInv'
    <2>1. tunnelMap' = Added(tunnelMap, n, favourites) /\ favourites' = favourites
      BY <1>1, Zenon DEF Add
    <2>2. tunnelMap' \in SortedLists(favourites)
      BY <1>0, <2>1, AddedSorted, Zenon
    <2> QED
      BY <2>1, <2>2, Zenon DEF ListInv, SortedLists, SortedKeys, Precedes
  <1>2. ASSUME NEW n \in Names, RemoveTunnel(n) PROVE ListInv'
    <2>1. PICK i \in DOMAIN tunnelMap : tunnelMap' = RemovedAt(tunnelMap, i)
      BY <1>2, Zenon DEF RemoveTunnel
    <2>2. i \in 1..Len(tunnelMap)
      BY <1>0
    <2>3. tunnelMap' \in SortedLists(favourites)
      BY <1>0, <2>1, <2>2, RemovedSorted, Zenon
    <2>4. favourites' = favourites
      BY <1>2, Zenon DEF RemoveTunnel
    <2> QED
      BY <2>3, <2>4, Zenon DEF ListInv, SortedLists, SortedKeys, Precedes
  <1>3. ASSUME UNCHANGED <<tunnelMap, favourites>> PROVE ListInv'
    BY <1>3, Zenon DEF ListInv, SortedLists, SortedKeys, Precedes
  <1>4. ASSUME observeFavourites PROVE ListInv'
    <2>1. tunnelMap' = resort(savedFavourites) /\ favourites' = savedFavourites
      BY <1>4, Zenon DEF observeFavourites
    <2>2. tunnelMap' \in SortedLists(savedFavourites)
      BY <1>0, <2>1, ResortSorted, Zenon
    <2> QED
      BY <2>1, <2>2, Zenon DEF ListInv, SortedLists, SortedKeys, Precedes
  <1>5. ASSUME NEW j \in Taps, NEW names \in SUBSET Names, NEW favourite \in BOOLEAN,
               setFavourite(j, names, favourite)
        PROVE  ListInv'
    BY <1>3, <1>5, Zenon DEF setFavourite
  <1>6. ASSUME NEW j \in Taps, SetFavouriteTunnels(j) PROVE ListInv'
    BY <1>3, <1>6, Zenon DEF SetFavouriteTunnels
  <1>7. CASE UNCHANGED vars
    BY <1>3, <1>7, Zenon DEF vars
  <1> QED
    BY <1>1, <1>2, <1>4, <1>5, <1>6, <1>7, Zenon DEF Next

\* The order of the comparator is the natural order of the model's properties.
LEMMA LexNatural ==
  ASSUME NEW a \in Names, NEW b \in Names, Lex(TokLess, tokens(a), tokens(b))
  PROVE  NaturalLess(a, b)
  <1>1. a \in Seq(Run) /\ b \in Seq(Run)
    BY TunnelListAssumption, Zenon
  <1>2. /\ tokens(a) \in Seq(Tok) /\ Len(tokens(a)) = Len(a) /\ \A i \in 1..Len(a) : tokens(a)[i] = Token(a[i])
        /\ tokens(b) \in Seq(Tok) /\ Len(tokens(b)) = Len(b) /\ \A i \in 1..Len(b) : tokens(b)[i] = Token(b[i])
    BY <1>1, TokensTyped, Zenon
  <1>3. Len(a) \in Nat /\ Len(b) \in Nat
    BY <1>1
  <1>4. PICK i \in 1..Len(b) : LexAt(TokLess, tokens(a), tokens(b), i)
    BY <1>2, Zenon DEF Lex
  <1>5. i <= Len(a) + 1
    BY <1>2, <1>4, Zenon DEF LexAt
  <1>6. ASSUME NEW k \in 1..(i - 1) PROVE Token(a[k]) = Token(b[k])
    <2>1. k \in 1..Len(a) /\ k \in 1..Len(b)
      BY <1>3, <1>5
    <2>2. tokens(a)[k] = tokens(b)[k]
      BY <1>4, Zenon DEF LexAt
    <2> QED
      BY <1>2, <2>1, <2>2, Zenon
  <1>7. ASSUME i <= Len(a) PROVE TokenLess(Token(a[i]), Token(b[i]))
    <2>1. i \in 1..Len(a) /\ i # Len(a) + 1
      BY <1>3, <1>7
    <2>2. <<tokens(a)[i], tokens(b)[i]>> \in TokLess
      BY <1>2, <1>4, <2>1, Zenon DEF LexAt
    <2>3. <<Token(a[i]), Token(b[i])>> \in TokLess
      BY <1>2, <2>1, <2>2, Zenon
    <2> QED
      BY <2>3, Zenon DEF TokLess
  <1> HIDE DEF Token, StringLess
  <1> QED
    BY <1>5, <1>6, <1>7, Zenon DEF NaturalLess, TokenLess

\* A list in the comparator's order is in the documented order.
LEMMA ListOrdered == ListInv => Ordered
  <1> SUFFICES ASSUME ListInv PROVE Ordered
    BY Zenon
  <1>1. tunnelMap \in Seq(Names) /\ SortedKeys(tunnelMap, favourites)
    BY Zenon DEF ListInv, SortedLists
  <1>2. \A i \in 1..Len(tunnelMap) : tunnelMap[i] \in Names
    BY <1>1
  <1>3. ASSUME NEW i \in 1..Len(tunnelMap), NEW k \in 1..Len(tunnelMap), i < k
        PROVE  /\ tunnelMap[k] \in favourites => tunnelMap[i] \in favourites
               /\ (tunnelMap[i] \in favourites <=> tunnelMap[k] \in favourites)
                     => NaturalLess(tunnelMap[i], tunnelMap[k])
    <2>1. Precedes(tunnelMap[i], tunnelMap[k], favourites)
      BY <1>1, <1>3, Zenon DEF SortedKeys
    <2> QED
      BY <1>2, <2>1, LexNatural, Zenon DEF Precedes
  <1> HIDE DEF NaturalLess
  <1> QED
    BY <1>3, Zenon DEF Ordered

\* A list in order answers every lookup.
LEMMA ListLookup == DistinctTokens /\ ListInv => LookupFinds
  <1> SUFFICES ASSUME DistinctTokens, ListInv, NEW n \in Names
               PROVE  \/ n \in Range(tunnelMap) /\ containsKey(n) /\ tunnelMap[indexOfKey(n) + 1] = n
                      \/ n \notin Range(tunnelMap) /\ ~containsKey(n)
    BY Zenon DEF LookupFinds
  <1> DEFINE x == binarySearch(tunnelMap, n, favourites)
  <1>1. tunnelMap \in Seq(Names) /\ SortedKeys(tunnelMap, favourites)
    BY Zenon DEF ListInv, SortedLists
  <1>2. /\ Len(tunnelMap) \in Nat /\ DOMAIN tunnelMap = 1..Len(tunnelMap)
        /\ \A i \in 1..Len(tunnelMap) : tunnelMap[i] \in Names
    BY <1>1
  <1>3. Located(tunnelMap, n, favourites, x)
    BY <1>1, BinarySearchIs, Zenon
  <1>4. indexOfKey(n) = IF x >= 0 THEN x ELSE -1
    BY Zenon DEF indexOfKey
  <1> HIDE DEF x
  <1>5. CASE x \in 0..(Len(tunnelMap) - 1) /\ tunnelMap[x + 1] = n
    <2>1. x >= 0 /\ x + 1 \in 1..Len(tunnelMap)
      BY <1>2, <1>5
    <2>2. indexOfKey(n) = x
      BY <1>4, <2>1, Zenon
    <2>3. n \in Range(tunnelMap)
      BY <1>2, <1>5, <2>1, Zenon DEF Range
    <2> QED
      BY <1>5, <2>1, <2>2, <2>3, Zenon DEF containsKey
  <1>6. ASSUME NEW p \in 0..Len(tunnelMap), x = -(p + 1),
               \A i \in 1..p : Precedes(tunnelMap[i], n, favourites),
               \A i \in (p + 1)..Len(tunnelMap) : Precedes(n, tunnelMap[i], favourites)
        PROVE  n \notin Range(tunnelMap) /\ ~containsKey(n)
    <2>1. ~(x >= 0) /\ ~(-1 >= 0)
      BY <1>2, <1>6
    <2>2. ~containsKey(n)
      BY <1>4, <2>1, Zenon DEF containsKey
    <2>3. ASSUME NEW i \in 1..Len(tunnelMap), tunnelMap[i] = n PROVE FALSE
      <3>1. i \in 1..p \/ i \in (p + 1)..Len(tunnelMap)
        BY <1>2
      <3>2. Precedes(n, n, favourites)
        BY <1>6, <2>3, <3>1, Zenon
      <3> QED
        BY <3>2, PrecedesTotal, Zenon
    <2> QED
      BY <1>2, <2>2, <2>3, Zenon DEF Range
  <1> QED
    BY <1>3, <1>5, <1>6, Zenon DEF Located

\* TunnelManager, ObservableSortedKeyedArrayList: the list is always sorted by the
\* comparator with its present favourites, and has no key twice.
THEOREM ListInvariant == DistinctTokens => (Spec => []ListInv)
  <1> SUFFICES ASSUME DistinctTokens PROVE Spec => []ListInv
    BY Zenon
  <1>1. ListInv /\ [Next]_vars => ListInv'
    BY NextList, Zenon
  <1> QED
    BY InitList, <1>1, PTL DEF Spec

\* A change of the favourites loses no tunnel and adds none.
TunnelsKept == [][favourites' # favourites => Range(tunnelMap') = Range(tunnelMap)]_vars

\* TunnelManager.resort inserts every element again, and finds none of them
\* there already.
THEOREM TunnelsKeptCorrect == DistinctTokens => (Spec => TunnelsKept)
  <1> SUFFICES ASSUME DistinctTokens PROVE Spec => TunnelsKept
    BY Zenon
  <1>1. ListInv /\ [Next]_vars => [favourites' # favourites => Range(tunnelMap') = Range(tunnelMap)]_vars
    <2> SUFFICES ASSUME ListInv, Next, favourites' # favourites PROVE Range(tunnelMap') = Range(tunnelMap)
      BY Zenon
    <2>1. observeFavourites
      BY Zenon DEF Next, Add, RemoveTunnel, setFavourite, SetFavouriteTunnels
    <2>2. tunnelMap \in Seq(Names) /\ tunnelMap' = resort(savedFavourites)
      BY <2>1, Zenon DEF ListInv, SortedLists, observeFavourites
    <2> QED
      BY <2>2, ResortSorted, Zenon
  <1>2. Spec => []ListInv
    BY ListInvariant, Zenon
  <1> QED
    BY <1>1, <1>2, PTL DEF Spec, TunnelsKept

\* The favourites come first, and favourites and others are each in natural order.
THEOREM OrderedCorrect == DistinctTokens => (Spec => []Ordered)
  BY ListInvariant, ListOrdered, PTL

\* indexOfKey and containsKey find every key of the list where it is, and no other.
THEOREM LookupCorrect == DistinctTokens => (Spec => []LookupFinds)
  <1> SUFFICES ASSUME DistinctTokens PROVE Spec => []LookupFinds
    BY Zenon
  <1>1. ListInv => LookupFinds
    BY ListLookup, Zenon
  <1>2. Spec => []ListInv
    BY ListInvariant, Zenon
  <1> QED
    BY <1>1, <1>2, PTL

=============================================================================
