-------------------------- MODULE StreamRelayProofs --------------------------
(***************************************************************************)
(* StreamRelay for any size of the chunks and any number of words: what is *)
(* recorded of a stream and, when its lines end with LF, what the client   *)
(* is given of it, do not depend on where the chunks are cut.              *)
(***************************************************************************)
EXTENDS StreamRelay, FiniteSetTheorems, SequenceTheorems, TLAPS

-----------------------------------------------------------------------------
(* Flattening and selecting.                                               *)

\* A set of naturals closed under the successor is all of them: the induction
\* the proofs about FlattenSeq need, by counting the elements up to m.
LEMMA SetInduction ==
    ASSUME NEW S, 0 \in S, \A n \in S \cap Nat : n + 1 \in S, NEW m \in Nat
    PROVE  m \in S
<1> SUFFICES ASSUME m \notin S PROVE FALSE
  OBVIOUS
<1> DEFINE A == S \cap 0..m
           B == {x + 1 : x \in A}
<1>1. IsFiniteSet(A) /\ IsFiniteSet(A \ {0}) /\ 0 \in A
  <2>1. IsFiniteSet(0..m)
    BY FS_Interval, 0 \in Int, m \in Int
  <2>2. A \subseteq 0..m /\ A \ {0} \subseteq 0..m /\ 0 \in A
    OBVIOUS
  <2> QED BY <2>1, <2>2, FS_Subset
<1>2. B \subseteq A \ {0}
  OBVIOUS
<1>3. IsFiniteSet(B) /\ Cardinality(B) = Cardinality(A)
  <2> DEFINE f == [x \in A |-> x + 1]
  <2>1. f \in Bijection(A, B)
    BY DEF Bijection, Injection, Surjection, IsInjective
  <2> QED BY <1>1, <2>1, FS_Bijection DEF ExistsBijection
<1>4. Cardinality(B) <= Cardinality(A \ {0})
  BY <1>1, <1>2, FS_Subset
<1>5. Cardinality(A \ {0}) = Cardinality(A) - 1 /\ Cardinality(A) \in Nat
  BY <1>1, FS_RemoveElement, FS_CardinalityType
<1> QED BY <1>3, <1>4, <1>5

\* The function FlattenSeq computes, for every length up to that of s.
Flattens(f, s, m) ==
    \A i \in 1..m : f[i] = IF i = 1 THEN s[i] ELSE f[i - 1] \o s[i]

\* The function that FlattenSeq computes with exists,
LEMMA FlattenerExists ==
    ASSUME NEW A, NEW s \in Seq(Seq(A))
    PROVE  \E f \in [1..Len(s) -> Seq(A)] : Flattens(f, s, Len(s))
<1> DEFINE S == {m \in Nat : m <= Len(s) =>
                    \E f \in [1..m -> Seq(A)] : Flattens(f, s, m)}
<1>1. 0 \in S
  <2> DEFINE g == [i \in 1..0 |-> <<>>]
  <2>1. g \in [1..0 -> Seq(A)] /\ Flattens(g, s, 0)
    BY DEF Flattens
  <2> QED BY <2>1
<1>2. ASSUME NEW n \in S \cap Nat PROVE n + 1 \in S
  <2> SUFFICES ASSUME n + 1 <= Len(s)
               PROVE  \E f \in [1..(n + 1) -> Seq(A)] : Flattens(f, s, n + 1)
    OBVIOUS
  <2>1. Len(s) \in Nat /\ \A i \in 1..Len(s) : s[i] \in Seq(A)
    BY LenProperties, ElementOfSeq
  <2>2. PICK f \in [1..n -> Seq(A)] : Flattens(f, s, n)
    <3>1. n <= Len(s)
      BY <2>1
    <3>2. n \in S
      OBVIOUS
    <3> QED BY <3>1, <3>2, Zenon
  <2> DEFINE e == IF n = 0 THEN s[1] ELSE f[n] \o s[n + 1]
             g == [i \in 1..(n + 1) |-> IF i <= n THEN f[i] ELSE e]
  <2>3. e \in Seq(A)
    <3>1. CASE n = 0
      BY <3>1, <2>1
    <3>2. CASE n # 0
      <4>1. f[n] \in Seq(A) /\ s[n + 1] \in Seq(A)
        BY <3>2, <2>1
      <4> QED BY <4>1, <3>2, ConcatProperties
    <3> QED BY <3>1, <3>2
  <2> HIDE DEF e
  <2>4. g \in [1..(n + 1) -> Seq(A)]
    BY <2>3
  <2>5. Flattens(g, s, n + 1)
    <3> SUFFICES ASSUME NEW i \in 1..(n + 1)
                 PROVE  g[i] = IF i = 1 THEN s[i] ELSE g[i - 1] \o s[i]
      BY DEF Flattens
    <3>1. CASE i <= n
      <4>1. i \in 1..n /\ (i # 1 => i - 1 \in 1..n /\ i - 1 \in 1..(n + 1) /\ i - 1 <= n)
        BY <3>1
      <4>2. f[i] = IF i = 1 THEN s[i] ELSE f[i - 1] \o s[i]
        BY <4>1, <2>2 DEF Flattens
      <4>3. g[i] = f[i]
        BY <3>1
      <4>4. i # 1 => g[i - 1] = f[i - 1]
        BY <4>1
      <4> HIDE DEF g
      <4> QED BY <4>2, <4>3, <4>4
    <3>2. CASE i = n + 1
      <4>1. g[i] = e
        BY <3>2
      <4>2. n # 0 => n \in 1..(n + 1) /\ g[n] = f[n] /\ i # 1 /\ i - 1 = n
        BY <3>2
      <4>3. n = 0 => i = 1
        BY <3>2
      <4> QED BY <4>1, <4>2, <4>3, <3>2 DEF e
    <3> QED BY <3>1, <3>2
  <2> QED BY <2>4, <2>5
<1>3. Len(s) \in S
  <2>1. Len(s) \in Nat
    BY LenProperties
  <2> HIDE DEF S
  <2> QED BY <1>1, <1>2, <2>1, SetInduction
<1> QED BY <1>3

\* and it is the only one: FlattenSeq is its last value.
LEMMA FlattenIs ==
    ASSUME NEW A, NEW s \in Seq(Seq(A)), s # <<>>,
           NEW f \in [1..Len(s) -> Seq(A)], Flattens(f, s, Len(s))
    PROVE  FlattenSeq(s) = f[Len(s)]
<1> DEFINE R(g) == [i \in 1..Len(s) |-> IF i = 1 THEN s[i] ELSE g[i - 1] \o s[i]]
           G == CHOOSE g : g = R(g)
<1>1. f = R(f)
  BY DEF Flattens
<1>2. G = R(G)
  <2> HIDE DEF R
  <2> QED BY <1>1
<1>3. Len(s) \in Nat \ {0}
  BY EmptySeq
<1>4. FlattenSeq(s) = G[Len(s)]
  BY <1>3 DEF FlattenSeq
<1> DEFINE S == {m \in Nat : m <= Len(s) => \A i \in 1..m : G[i] = f[i]}
<1> HIDE DEF G
<1>5. \A i \in 1..Len(s) : G[i] = IF i = 1 THEN s[i] ELSE G[i - 1] \o s[i]
  BY <1>2
<1>6. 0 \in S
  OBVIOUS
<1>7. ASSUME NEW n \in S \cap Nat PROVE n + 1 \in S
  <2> SUFFICES ASSUME n + 1 <= Len(s), NEW i \in 1..(n + 1)
               PROVE  G[i] = f[i]
    OBVIOUS
  <2>1. \A k \in 1..n : G[k] = f[k]
    <3>1. n <= Len(s)
      BY <1>3
    <3>2. n \in S
      OBVIOUS
    <3> QED BY <3>1, <3>2, Zenon
  <2>2. i \in 1..Len(s)
    BY <1>3
  <2>3. i # 1 => i - 1 \in 1..n
    OBVIOUS
  <2> QED BY <2>1, <2>2, <2>3, <1>5 DEF Flattens
<1>8. Len(s) \in S
  <2> HIDE DEF S
  <2> QED BY <1>3, <1>6, <1>7, SetInduction
<1> QED BY <1>3, <1>4, <1>8

\* Nothing to flatten.
LEMMA FlattenEmpty == FlattenSeq(<<>>) = <<>>
BY DEF FlattenSeq

\* The first m elements of a sequence.
LEMMA SubSeqType ==
    ASSUME NEW A, NEW s \in Seq(A), NEW m \in 0..Len(s)
    PROVE  /\ SubSeq(s, 1, m) \in Seq(A)
           /\ Len(SubSeq(s, 1, m)) = m
           /\ \A i \in 1..m : SubSeq(s, 1, m)[i] = s[i]
<1>1. Len(s) \in Nat /\ \A i \in 1..Len(s) : s[i] \in A
  BY LenProperties, ElementOfSeq
<1>2. \A i \in 1..m : s[i] \in A
  BY <1>1
<1>3. m \in Int /\ 1 \in Int
  BY <1>1
<1>4. /\ SubSeq(s, 1, m) \in Seq(A)
      /\ Len(SubSeq(s, 1, m)) = IF 1 <= m THEN m - 1 + 1 ELSE 0
      /\ \A i \in 1..m - 1 + 1 : SubSeq(s, 1, m)[i] = s[1 + i - 1]
  BY <1>2, <1>3, SubSeqProperties
<1> QED BY <1>1, <1>3, <1>4

\* One more sequence to flatten is one more to concatenate.
LEMMA FlattenStep ==
    ASSUME NEW A, NEW s \in Seq(Seq(A)), NEW m \in 0..(Len(s) - 1)
    PROVE  /\ FlattenSeq(SubSeq(s, 1, m)) \in Seq(A)
           /\ FlattenSeq(SubSeq(s, 1, m + 1)) = FlattenSeq(SubSeq(s, 1, m)) \o s[m + 1]
<1>1. Len(s) \in Nat /\ \A i \in 1..Len(s) : s[i] \in Seq(A)
  BY LenProperties, ElementOfSeq
<1>2. PICK f \in [1..Len(s) -> Seq(A)] : Flattens(f, s, Len(s))
  BY FlattenerExists
<1>6. \A i \in 1..Len(s) : f[i] = IF i = 1 THEN s[i] ELSE f[i - 1] \o s[i]
  BY <1>2 DEF Flattens
<1>3. ASSUME NEW k \in 1..Len(s) PROVE FlattenSeq(SubSeq(s, 1, k)) = f[k]
  <2> DEFINE t == SubSeq(s, 1, k)
             g == [i \in 1..k |-> f[i]]
  <2>1. k \in 0..Len(s)
    BY <1>1
  <2>2. t \in Seq(Seq(A)) /\ Len(t) = k /\ \A i \in 1..k : t[i] = s[i]
    BY <2>1, SubSeqType
  <2>3. g \in [1..Len(t) -> Seq(A)]
    BY <1>1, <2>2
  <2>4. Flattens(g, t, Len(t))
    <3> SUFFICES ASSUME NEW i \in 1..k
                 PROVE  g[i] = IF i = 1 THEN t[i] ELSE g[i - 1] \o t[i]
      BY <2>2 DEF Flattens
    <3>1. i \in 1..Len(s) /\ (i # 1 => i - 1 \in 1..k)
      BY <1>1
    <3>2. f[i] = IF i = 1 THEN s[i] ELSE f[i - 1] \o s[i]
      BY <3>1, <1>2 DEF Flattens
    <3> HIDE DEF t
    <3> QED BY <3>1, <3>2, <2>2
  <2>5. t # <<>>
    <3> HIDE DEF t
    <3>1. Len(t) # 0
      BY <2>2
    <3> QED BY <3>1, EmptySeq
  <2> HIDE DEF t, g
  <2>6. FlattenSeq(t) = g[Len(t)]
    BY <2>2, <2>3, <2>4, <2>5, FlattenIs
  <2> QED BY <2>6, <2>2 DEF t, g
<1>4. CASE m = 0
  <2>1. SubSeq(s, 1, m) = <<>>
    BY <1>4, SubSeqEmpty
  <2>2. FlattenSeq(SubSeq(s, 1, m)) = <<>>
    BY <2>1, FlattenEmpty
  <2>3. 1 \in 1..Len(s) /\ f[1] = s[1]
    <3>1. 1 \in 1..Len(s)
      BY <1>1
    <3> QED BY <3>1, <1>6
  <2>4. FlattenSeq(SubSeq(s, 1, 1)) = s[1] /\ s[1] \in Seq(A)
    BY <2>3, <1>3, <1>1
  <2>5. <<>> \o s[1] = s[1]
    BY <2>4, ConcatEmptySeq
  <2>6. m + 1 = 1 /\ <<>> \in Seq(A)
    BY <1>4, EmptySeq
  <2> QED BY <2>2, <2>4, <2>5, <2>6
<1>5. CASE m # 0
  <2>1. m \in 1..Len(s) /\ m + 1 \in 1..Len(s) /\ m + 1 # 1 /\ m + 1 - 1 = m
    BY <1>1, <1>5
  <2>2. FlattenSeq(SubSeq(s, 1, m)) = f[m] /\ FlattenSeq(SubSeq(s, 1, m + 1)) = f[m + 1]
    BY <2>1, <1>3
  <2>3. f[m + 1] = f[m] \o s[m + 1] /\ f[m] \in Seq(A)
    <3>1. ASSUME NEW i \in 1..Len(s), i # 1 PROVE f[i] = f[i - 1] \o s[i]
      BY <3>1, <1>6
    <3> DEFINE p == m + 1
    <3>2. p \in 1..Len(s) /\ p # 1 /\ p - 1 = m
      BY <2>1
    <3> HIDE DEF p
    <3>3. f[p] = f[m] \o s[p]
      <4>1. f[p] = f[p - 1] \o s[p]
        BY <3>1, <3>2, Zenon
      <4> QED BY <4>1, <3>2
    <3> QED BY <3>3, <2>1 DEF p
  <2> QED BY <2>2, <2>3
<1> QED BY <1>4, <1>5

\* What comes of flattening sequences over A is a sequence over A.
LEMMA FlattenType ==
    ASSUME NEW A, NEW s \in Seq(Seq(A)), NEW m \in 0..Len(s)
    PROVE  /\ FlattenSeq(SubSeq(s, 1, m)) \in Seq(A)
           /\ FlattenSeq(s) \in Seq(A)
<1>1. Len(s) \in Nat /\ \A i \in 1..Len(s) : s[i] \in Seq(A)
  BY LenProperties, ElementOfSeq
<1>2. ASSUME NEW k \in 0..Len(s) PROVE FlattenSeq(SubSeq(s, 1, k)) \in Seq(A)
  <2>1. CASE k = Len(s) /\ k # 0
    <3>1. k - 1 \in 0..(Len(s) - 1) /\ k - 1 + 1 = k /\ k \in 1..Len(s)
      BY <2>1, <1>1
    <3>2. /\ FlattenSeq(SubSeq(s, 1, k - 1)) \in Seq(A)
          /\ FlattenSeq(SubSeq(s, 1, k)) = FlattenSeq(SubSeq(s, 1, k - 1)) \o s[k]
      BY <3>1, FlattenStep
    <3> QED BY <3>1, <3>2, <1>1, ConcatProperties
  <2>2. CASE k # Len(s)
    <3>1. k \in 0..(Len(s) - 1)
      BY <2>2, <1>1
    <3> QED BY <3>1, FlattenStep
  <2>3. CASE k = 0
    <3>1. SubSeq(s, 1, k) = <<>>
      BY <2>3, SubSeqEmpty
    <3> QED BY <3>1, FlattenEmpty, EmptySeq
  <2> QED BY <2>1, <2>2, <2>3
<1>3. Len(s) \in 0..Len(s) /\ SubSeq(s, 1, Len(s)) = s
  BY <1>1, SubSeqFull
<1> QED BY <1>2, <1>3

\* Flattening goes through concatenation.
LEMMA FlattenConcat ==
    ASSUME NEW A, NEW x \in Seq(Seq(A)), NEW y \in Seq(Seq(A))
    PROVE  FlattenSeq(x \o y) = FlattenSeq(x) \o FlattenSeq(y)
<1>0. ASSUME NEW u \in Seq(A), NEW v \in Seq(A), NEW w \in Seq(A)
      PROVE  (u \o v) \o w = u \o (v \o w)
  BY ConcatAssociative, SMTT(30)
<1> DEFINE z == x \o y
           S == {m \in Nat : m <= Len(y) =>
                   FlattenSeq(SubSeq(z, 1, Len(x) + m)) =
                     FlattenSeq(x) \o FlattenSeq(SubSeq(y, 1, m))}
<1>1. /\ Len(x) \in Nat /\ Len(y) \in Nat
      /\ z \in Seq(Seq(A)) /\ Len(z) = Len(x) + Len(y)
      /\ \A i \in 1..Len(x) : z[i] = x[i]
      /\ \A i \in 1..Len(y) : z[Len(x) + i] = y[i] /\ y[i] \in Seq(A)
  <2>1. /\ Len(x) \in Nat /\ Len(y) \in Nat
        /\ \A i \in 1..Len(y) : y[i] \in Seq(A)
    BY LenProperties, ElementOfSeq
  <2>2. /\ z \in Seq(Seq(A)) /\ Len(z) = Len(x) + Len(y)
        /\ \A i \in 1 .. Len(x) + Len(y) : z[i] =
                     IF i <= Len(x) THEN x[i] ELSE y[i - Len(x)]
    BY ConcatProperties
  <2> HIDE DEF z
  <2>3. \A i \in 1..Len(x) : z[i] = x[i]
    BY <2>1, <2>2
  <2>4. ASSUME NEW i \in 1..Len(y) PROVE z[Len(x) + i] = y[i]
    <3> DEFINE p == Len(x) + i
    <3>1. p \in 1..Len(x) + Len(y) /\ ~(p <= Len(x)) /\ p - Len(x) = i
      BY <2>1
    <3> HIDE DEF p
    <3>2. z[p] = y[i]
      BY <3>1, <2>2
    <3> QED BY <3>2 DEF p
  <2> QED BY <2>1, <2>2, <2>3, <2>4
<1>2. FlattenSeq(x) \in Seq(A)
  <2>1. 0 \in 0..Len(x)
    BY <1>1
  <2> QED BY <2>1, FlattenType
<1> HIDE DEF z
<1>3. SubSeq(z, 1, Len(x)) = x
  <2>1. Len(x) \in 0..Len(z)
    BY <1>1
  <2>2. SubSeq(z, 1, Len(x)) \in Seq(Seq(A)) /\ Len(SubSeq(z, 1, Len(x))) = Len(x)
        /\ \A i \in 1..Len(x) : SubSeq(z, 1, Len(x))[i] = z[i]
    BY <1>1, <2>1, SubSeqType
  <2> QED BY <2>2, <1>1, SeqEqual
<1>4. 0 \in S
  <2>1. SubSeq(y, 1, 0) = <<>>
    BY SubSeqEmpty
  <2>2. FlattenSeq(SubSeq(y, 1, 0)) = <<>>
    BY <2>1, FlattenEmpty
  <2>3. FlattenSeq(x) \o <<>> = FlattenSeq(x)
    BY <1>2, ConcatEmptySeq
  <2>4. Len(x) + 0 = Len(x)
    BY <1>1
  <2> QED BY <2>2, <2>3, <2>4, <1>3
<1>5. ASSUME NEW n \in S \cap Nat PROVE n + 1 \in S
  <2> SUFFICES ASSUME n + 1 <= Len(y)
               PROVE  FlattenSeq(SubSeq(z, 1, Len(x) + (n + 1))) =
                        FlattenSeq(x) \o FlattenSeq(SubSeq(y, 1, n + 1))
    OBVIOUS
  <2>1. FlattenSeq(SubSeq(z, 1, Len(x) + n)) = FlattenSeq(x) \o FlattenSeq(SubSeq(y, 1, n))
    <3>1. n <= Len(y)
      BY <1>1
    <3>2. n \in S
      OBVIOUS
    <3> QED BY <3>1, <3>2, Zenon
  <2> DEFINE p == Len(x) + n
  <2>2. p \in 0..(Len(z) - 1) /\ p + 1 = Len(x) + (n + 1)
    <3>1. Len(x) \in Nat /\ Len(y) \in Nat /\ Len(z) = Len(x) + Len(y) /\ n \in Nat
      BY <1>1
    <3> HIDE DEF S
    <3> QED BY <3>1
  <2>3. n \in 0..(Len(y) - 1) /\ n + 1 \in 1..Len(y)
    <3>1. Len(y) \in Nat /\ n \in Nat
      BY <1>1
    <3> HIDE DEF S
    <3> QED BY <3>1
  <2>4. /\ FlattenSeq(SubSeq(y, 1, n)) \in Seq(A)
        /\ FlattenSeq(SubSeq(y, 1, n + 1)) = FlattenSeq(SubSeq(y, 1, n)) \o y[n + 1]
    BY <2>3, FlattenStep
  <2>5. z[p + 1] = y[n + 1] /\ y[n + 1] \in Seq(A)
    BY <2>2, <2>3, <1>1
  <2>6. FlattenSeq(SubSeq(z, 1, p + 1)) = FlattenSeq(SubSeq(z, 1, p)) \o z[p + 1]
    <3> HIDE DEF p
    <3> QED BY <1>1, <2>2, FlattenStep
  <2>7. (FlattenSeq(x) \o FlattenSeq(SubSeq(y, 1, n))) \o y[n + 1]
          = FlattenSeq(x) \o (FlattenSeq(SubSeq(y, 1, n)) \o y[n + 1])
    <3> DEFINE a == FlattenSeq(x)
               b == FlattenSeq(SubSeq(y, 1, n))
               c == y[n + 1]
    <3>1. a \in Seq(A) /\ b \in Seq(A) /\ c \in Seq(A)
      BY <1>2, <2>4, <2>5
    <3> HIDE DEF a, b, c, S
    <3>2. (a \o b) \o c = a \o (b \o c)
      BY <3>1, <1>0
    <3> QED BY <3>2 DEF a, b, c
  <2>8. FlattenSeq(SubSeq(z, 1, p)) = FlattenSeq(x) \o FlattenSeq(SubSeq(y, 1, n))
    BY <2>1
  <2> HIDE DEF p
  <2> QED BY <2>2, <2>4, <2>5, <2>6, <2>7, <2>8
<1>6. Len(y) \in S
  <2> HIDE DEF S
  <2> QED BY <1>1, <1>4, <1>5, SetInduction
<1>7. SubSeq(y, 1, Len(y)) = y /\ SubSeq(z, 1, Len(x) + Len(y)) = z
  BY <1>1, SubSeqFull
<1>8. FlattenSeq(SubSeq(z, 1, Len(x) + Len(y))) = FlattenSeq(x) \o FlattenSeq(SubSeq(y, 1, Len(y)))
  <2>1. Len(y) <= Len(y)
    BY <1>1
  <2> QED BY <1>6, <2>1, Zenon
<1> QED BY <1>7, <1>8 DEF z

\* Flattening one sequence.
LEMMA FlattenOne ==
    ASSUME NEW A, NEW e \in Seq(A)
    PROVE  FlattenSeq(<<e>>) = e
<1> DEFINE s == <<e>>
<1>1. s \in Seq(Seq(A)) /\ Len(s) = 1 /\ s[1] = e
  OBVIOUS
<1> HIDE DEF s
<1>2. 0 \in 0..(Len(s) - 1) /\ SubSeq(s, 1, 0) = <<>> /\ SubSeq(s, 1, 1) = s
  <2>1. SubSeq(s, 1, Len(s)) = s
    BY <1>1, SubSeqFull
  <2>2. SubSeq(s, 1, 0) = <<>>
    BY SubSeqEmpty
  <2> QED BY <1>1, <2>1, <2>2
<1>3. FlattenSeq(SubSeq(s, 1, 1)) = FlattenSeq(SubSeq(s, 1, 0)) \o s[1]
  <2>1. 0 + 1 = 1
    OBVIOUS
  <2> QED BY <1>1, <1>2, <2>1, FlattenStep
<1>4. FlattenSeq(s) = <<>> \o e
  <2>1. FlattenSeq(SubSeq(s, 1, 0)) = <<>>
    BY <1>2, FlattenEmpty
  <2> QED BY <1>1, <1>2, <1>3, <2>1, Zenon
<1> QED BY <1>4, ConcatEmptySeq DEF s

\* Flattening what is before a cut, and what is after it.
LEMMA FlattenCut ==
    ASSUME NEW A, NEW s \in Seq(Seq(A)), NEW m \in 0..Len(s)
    PROVE  /\ FlattenSeq(SubSeq(s, 1, m)) \in Seq(A)
           /\ FlattenSeq(SubSeq(s, m + 1, Len(s))) \in Seq(A)
           /\ FlattenSeq(s) = FlattenSeq(SubSeq(s, 1, m)) \o FlattenSeq(SubSeq(s, m + 1, Len(s)))
<1>1. Len(s) \in Nat /\ \A i \in 1..Len(s) : s[i] \in Seq(A)
  BY LenProperties, ElementOfSeq
<1>2. SubSeq(s, 1, m) \in Seq(Seq(A))
  BY SubSeqType
<1>3. SubSeq(s, m + 1, Len(s)) \in Seq(Seq(A))
  <2>1. \A i \in m + 1 .. Len(s) : s[i] \in Seq(A)
    BY <1>1
  <2>2. m + 1 \in Int /\ Len(s) \in Int
    BY <1>1
  <2> QED BY <2>1, <2>2, SubSeqProperties
<1>4. s = SubSeq(s, 1, m) \o SubSeq(s, m + 1, Len(s))
  <2>1. 1 \in 1..Len(s) + 1 /\ m \in 1 - 1 .. Len(s) /\ Len(s) \in m .. Len(s)
    BY <1>1
  <2>2. SubSeq(s, 1, m) \o SubSeq(s, m + 1, Len(s)) = SubSeq(s, 1, Len(s))
    BY <2>1, ConcatAdjacentSubSeq
  <2> QED BY <2>2, SubSeqFull
<1>5. FlattenSeq(s) = FlattenSeq(SubSeq(s, 1, m)) \o FlattenSeq(SubSeq(s, m + 1, Len(s)))
  BY <1>2, <1>3, <1>4, FlattenConcat
<1>6. FlattenSeq(SubSeq(s, 1, m)) \in Seq(A)
  BY FlattenType
<1>7. FlattenSeq(SubSeq(s, m + 1, Len(s))) \in Seq(A)
  <2> DEFINE t == SubSeq(s, m + 1, Len(s))
  <2>1. 0 \in 0..Len(t)
    BY <1>3, LenProperties
  <2> HIDE DEF t
  <2> QED BY <2>1, <1>3, FlattenType DEF t
<1> QED BY <1>5, <1>6, <1>7

\* What Selected keeps of a sequence over A is a sequence over A.
LEMMA SelectedType ==
    ASSUME NEW A, NEW s \in Seq(A), NEW S
    PROVE  /\ Selected(s, S) \in Seq(A)
           /\ [k \in 1..Len(s) |-> IF s[k] \in S THEN <<s[k]>> ELSE <<>>] \in Seq(Seq(A))
<1> DEFINE t == [k \in 1..Len(s) |-> IF s[k] \in S THEN <<s[k]>> ELSE <<>>]
<1>1. Len(s) \in Nat /\ \A i \in 1..Len(s) : s[i] \in A
  BY LenProperties, ElementOfSeq
<1>2. \A k \in 1..Len(s) : t[k] \in Seq(A)
  BY <1>1
<1>3. t \in Seq(Seq(A)) /\ Len(t) = Len(s)
  BY <1>1, <1>2
<1> HIDE DEF t
<1>4. 0 \in 0..Len(t)
  BY <1>1, <1>3
<1>5. FlattenSeq(t) \in Seq(A)
  BY <1>3, <1>4, FlattenType
<1> QED BY <1>3, <1>5 DEF t, Selected

\* Selected goes through concatenation.
LEMMA SelectedConcat ==
    ASSUME NEW A, NEW x \in Seq(A), NEW y \in Seq(A), NEW S
    PROVE  Selected(x \o y, S) = Selected(x, S) \o Selected(y, S)
<1> DEFINE P(s) == [k \in 1..Len(s) |-> IF s[k] \in S THEN <<s[k]>> ELSE <<>>]
<1>1. x \o y \in Seq(A) /\ Len(x \o y) = Len(x) + Len(y) /\ Len(x) \in Nat /\ Len(y) \in Nat
  BY ConcatProperties, LenProperties
<1>2. P(x) \in Seq(Seq(A)) /\ P(y) \in Seq(Seq(A)) /\ P(x \o y) \in Seq(Seq(A))
  BY <1>1, SelectedType
<1>3. Len(P(x)) = Len(x) /\ Len(P(y)) = Len(y) /\ Len(P(x \o y)) = Len(x) + Len(y)
  BY <1>1
<1>4. ASSUME NEW i \in 1..Len(x) + Len(y)
      PROVE  P(x \o y)[i] = (P(x) \o P(y))[i]
  <2>1. (x \o y)[i] = IF i <= Len(x) THEN x[i] ELSE y[i - Len(x)]
    BY ConcatProperties
  <2>2. P(x \o y)[i] = IF (x \o y)[i] \in S THEN <<(x \o y)[i]>> ELSE <<>>
    BY <1>1
  <2>3. i <= Len(x) => i \in 1..Len(x) /\ P(x)[i] = IF x[i] \in S THEN <<x[i]>> ELSE <<>>
    BY <1>1
  <2>4. ~(i <= Len(x)) => i - Len(x) \in 1..Len(y)
                          /\ P(y)[i - Len(x)] = IF y[i - Len(x)] \in S THEN <<y[i - Len(x)]>> ELSE <<>>
    BY <1>1
  <2>5. (P(x) \o P(y))[i] = IF i <= Len(x) THEN P(x)[i] ELSE P(y)[i - Len(x)]
    <3> HIDE DEF P
    <3>1. i \in 1..Len(P(x)) + Len(P(y))
      BY <1>3
    <3>2. (P(x) \o P(y))[i] = IF i <= Len(P(x)) THEN P(x)[i] ELSE P(y)[i - Len(P(x))]
      BY <1>2, <3>1, ConcatProperties, Zenon
    <3> QED BY <1>3, <3>2
  <2> HIDE DEF P
  <2> QED BY <2>1, <2>2, <2>3, <2>4, <2>5
<1> HIDE DEF P
<1>5. P(x) \o P(y) \in Seq(Seq(A)) /\ Len(P(x) \o P(y)) = Len(x) + Len(y)
  BY <1>2, <1>3, ConcatProperties
<1>6. P(x \o y) = P(x) \o P(y)
  BY <1>2, <1>3, <1>4, <1>5, SeqEqual
<1>7. FlattenSeq(P(x) \o P(y)) = FlattenSeq(P(x)) \o FlattenSeq(P(y))
  BY <1>2, FlattenConcat
<1> QED BY <1>6, <1>7 DEF P, Selected

\* Selected of no line and of one.
LEMMA SelectedFew ==
    ASSUME NEW S, NEW e
    PROVE  /\ Selected(<<>>, S) = <<>>
           /\ Selected(<<e>>, S) = IF e \in S THEN <<e>> ELSE <<>>
<1>1. [k \in 1..Len(<<>>) |-> IF <<>>[k] \in S THEN <<(<<>>)[k]>> ELSE <<>>] = <<>>
  OBVIOUS
<1>2. Selected(<<>>, S) = <<>>
  BY <1>1, FlattenEmpty DEF Selected
<1> DEFINE w == IF e \in S THEN <<e>> ELSE <<>>
<1>3. [k \in 1..Len(<<e>>) |-> IF (<<e>>)[k] \in S THEN <<(<<e>>)[k]>> ELSE <<>>] = <<w>>
  OBVIOUS
<1>4. w \in Seq({e})
  <2>1. <<e>> \in Seq({e}) /\ <<>> \in Seq({e})
    OBVIOUS
  <2> QED BY <2>1
<1> HIDE DEF w
<1>5. Selected(<<e>>, S) = w
  BY <1>3, <1>4, FlattenOne DEF Selected
<1> QED BY <1>2, <1>5 DEF w

\* Selecting from all events is selecting from each.
LEMMA SelectedFlatten ==
    ASSUME NEW A, NEW x \in Seq(Seq(A)), NEW S
    PROVE  Selected(FlattenSeq(x), S) = FlattenSeq([k \in 1..Len(x) |-> Selected(x[k], S)])
<1> DEFINE z == [k \in 1..Len(x) |-> Selected(x[k], S)]
           T == {m \in Nat : m <= Len(x) =>
                   Selected(FlattenSeq(SubSeq(x, 1, m)), S) = FlattenSeq(SubSeq(z, 1, m))}
<1>1. Len(x) \in Nat /\ \A i \in 1..Len(x) : x[i] \in Seq(A)
  BY LenProperties, ElementOfSeq
<1>2. \A i \in 1..Len(x) : Selected(x[i], S) \in Seq(A)
  BY <1>1, SelectedType
<1>3. z \in Seq(Seq(A)) /\ Len(z) = Len(x) /\ \A i \in 1..Len(x) : z[i] = Selected(x[i], S)
  BY <1>1, <1>2
<1> HIDE DEF z
<1>4. 0 \in T
  <2>1. SubSeq(x, 1, 0) = <<>> /\ SubSeq(z, 1, 0) = <<>>
    BY SubSeqEmpty
  <2>2. Selected(<<>>, S) = <<>>
    BY SelectedFew
  <2> QED BY <2>1, <2>2, FlattenEmpty
<1>5. ASSUME NEW n \in T \cap Nat PROVE n + 1 \in T
  <2> SUFFICES ASSUME n + 1 <= Len(x)
               PROVE  Selected(FlattenSeq(SubSeq(x, 1, n + 1)), S) = FlattenSeq(SubSeq(z, 1, n + 1))
    OBVIOUS
  <2>1. Selected(FlattenSeq(SubSeq(x, 1, n)), S) = FlattenSeq(SubSeq(z, 1, n))
    <3>1. n <= Len(x)
      BY <1>1
    <3>2. n \in T
      OBVIOUS
    <3> QED BY <3>1, <3>2, Zenon
  <2>2. n \in 0..(Len(x) - 1) /\ n \in 0..(Len(z) - 1) /\ n + 1 \in 1..Len(x)
    BY <1>1, <1>3
  <2>3. /\ FlattenSeq(SubSeq(x, 1, n)) \in Seq(A)
        /\ FlattenSeq(SubSeq(x, 1, n + 1)) = FlattenSeq(SubSeq(x, 1, n)) \o x[n + 1]
    BY <2>2, FlattenStep
  <2>4. FlattenSeq(SubSeq(z, 1, n + 1)) = FlattenSeq(SubSeq(z, 1, n)) \o z[n + 1]
    BY <1>3, <2>2, FlattenStep
  <2>5. x[n + 1] \in Seq(A) /\ z[n + 1] = Selected(x[n + 1], S)
    BY <1>1, <1>3, <2>2
  <2>6. Selected(FlattenSeq(SubSeq(x, 1, n)) \o x[n + 1], S)
          = Selected(FlattenSeq(SubSeq(x, 1, n)), S) \o Selected(x[n + 1], S)
    <3>1. \A a, b \in Seq(A) : Selected(a \o b, S) = Selected(a, S) \o Selected(b, S)
      BY SelectedConcat
    <3> QED BY <2>3, <2>5, <3>1, Zenon
  <2> QED BY <2>1, <2>3, <2>4, <2>5, <2>6
<1>6. Len(x) \in T
  <2> HIDE DEF T
  <2> QED BY <1>1, <1>4, <1>5, SetInduction
<1>7. SubSeq(x, 1, Len(x)) = x /\ SubSeq(z, 1, Len(x)) = z
  BY <1>3, SubSeqFull
<1>8. Selected(FlattenSeq(SubSeq(x, 1, Len(x))), S) = FlattenSeq(SubSeq(z, 1, Len(x)))
  <2>1. Len(x) <= Len(x)
    BY <1>1
  <2> QED BY <1>6, <2>1, Zenon
<1> QED BY <1>7, <1>8 DEF z

-----------------------------------------------------------------------------
(* The body and what its lines carry.                                      *)

\* Lines of an event, events.
LineSymbols == {"role", "word_1", "word_2", "stop", "usage_1", "usage_2", "final_1",
                "done", "junk", "name", "delta", "completed"}
Symbols == LineSymbols \cup {"nl", "cr"}
Events == Seq(LineSymbols) \ {<<>>}

UpstreamFits ==
    /\ call \in Call
    /\ upstream \in Seq(Events)
    /\ Len(upstream) # 0

Pieces == [i \in 1..Len(upstream) |-> SentBytes(i)]

\* Line ends, events, and the bytes of one event.
LEMMA LineEndType ==
    ASSUME NEW framing
    PROVE  LineEnd(framing) \in Seq(Symbols)
<1>1. "nl" \in Symbols /\ "cr" \in Symbols
  BY DEF Symbols
<1>2. <<"nl">> \in Seq(Symbols) /\ <<"cr", "nl">> \in Seq(Symbols)
  BY <1>1
<1> QED BY <1>2 DEF LineEnd

\* An event has lines, and none of them is a line end.
LEMMA EventProperties ==
    ASSUME NEW e \in Events
    PROVE  /\ e \in Seq(Symbols)
           /\ Len(e) \in Nat \ {0}
           /\ \A k \in 1..Len(e) : e[k] \in Symbols /\ e[k] # "nl" /\ e[k] # "cr"
<1>1. e \in Seq(LineSymbols) /\ e # <<>>
  BY DEF Events
<1>2. Len(e) \in Nat \ {0} /\ \A k \in 1..Len(e) : e[k] \in LineSymbols
  BY <1>1, EmptySeq, ElementOfSeq
<1>3. LineSymbols \subseteq Symbols
  BY DEF Symbols
<1>4. e \in Seq(Symbols)
  BY <1>1, <1>3, SeqMonotonic
<1> QED BY <1>2, <1>3, <1>4 DEF LineSymbols

EventLines(e) == [k \in 1..Len(e) |-> <<e[k]>> \o LineEnd(call.framing)]

\* The terminated lines of an event.
LEMMA EventLinesType ==
    ASSUME NEW e \in Events
    PROVE  EventLines(e) \in Seq(Seq(Symbols)) /\ Len(EventLines(e)) = Len(e)
           /\ \A k \in 1..Len(e) : EventLines(e)[k] = <<e[k]>> \o LineEnd(call.framing)
<1>1. Len(e) \in Nat /\ \A k \in 1..Len(e) : e[k] \in Symbols
  BY EventProperties
<1>2. \A k \in 1..Len(e) : <<e[k]>> \o LineEnd(call.framing) \in Seq(Symbols)
  BY <1>1, LineEndType
<1> QED BY <1>1, <1>2 DEF EventLines

\* The terminated lines of an event, one after the other.
LEMMA TerminatedType ==
    ASSUME NEW e \in Events
    PROVE  Terminated(e) \in Seq(Symbols)
<1>1. EventLines(e) \in Seq(Seq(Symbols))
  BY EventLinesType
<1>2. 0 \in 0..Len(EventLines(e))
  BY <1>1, LenProperties
<1>3. FlattenSeq(EventLines(e)) \in Seq(Symbols)
  BY <1>1, <1>2, FlattenType
<1> QED BY <1>3 DEF Terminated, EventLines

\* The body is its pieces, one for each event, one after the other.
LEMMA PieceType ==
    ASSUME UpstreamFits
    PROVE  /\ Len(upstream) \in Nat \ {0}
           /\ \A i \in 1..Len(upstream) : upstream[i] \in Events /\ SentBytes(i) \in Seq(Symbols)
           /\ Pieces \in Seq(Seq(Symbols))
           /\ Len(Pieces) = Len(upstream)
           /\ \A i \in 1..Len(upstream) : Pieces[i] = SentBytes(i)
           /\ Body = FlattenSeq(Pieces)
           /\ Body \in Seq(Symbols)
           /\ Len(Body) \in Nat
<1>1. Len(upstream) \in Nat \ {0} /\ \A i \in 1..Len(upstream) : upstream[i] \in Events
  BY LenProperties, ElementOfSeq DEF UpstreamFits
<1>2. ASSUME NEW i \in 1..Len(upstream) PROVE SentBytes(i) \in Seq(Symbols)
  <2>1. Terminated(upstream[i]) \in Seq(Symbols)
    BY <1>1, TerminatedType
  <2>2. (IF call.unfinished /\ i = Len(upstream) THEN <<>> ELSE LineEnd(call.framing)) \in Seq(Symbols)
    BY LineEndType, EmptySeq
  <2> QED BY <2>1, <2>2, ConcatProperties DEF SentBytes
<1>3. Pieces \in Seq(Seq(Symbols)) /\ Len(Pieces) = Len(upstream)
      /\ \A i \in 1..Len(upstream) : Pieces[i] = SentBytes(i)
  BY <1>1, <1>2 DEF Pieces
<1>4. Body = FlattenSeq(Pieces)
  BY DEF Body, Pieces
<1>5. 0 \in 0..Len(Pieces)
  BY <1>1, <1>3
<1>6. Body \in Seq(Symbols)
  BY <1>3, <1>4, <1>5, FlattenType
<1>7. Len(Body) \in Nat
  BY <1>6, LenProperties
<1> QED BY <1>1, <1>2, <1>3, <1>4, <1>6, <1>7

\* A line end is never selected,
LEMMA LineEndsNotSelected ==
    ASSUME NEW S, "nl" \notin S, "cr" \notin S, NEW framing
    PROVE  Selected(LineEnd(framing), S) = <<>>
<1>1. Selected(<<"nl">>, S) = <<>> /\ Selected(<<"cr">>, S) = <<>>
  BY SelectedFew
<1>2. Selected(<<"cr", "nl">>, S) = <<>>
  <2>1. <<"cr", "nl">> = <<"cr">> \o <<"nl">>
    OBVIOUS
  <2>2. Selected(<<"cr">> \o <<"nl">>, S) = Selected(<<"cr">>, S) \o Selected(<<"nl">>, S)
    <3> DEFINE A == {"cr", "nl"}
               a == <<"cr">>
               b == <<"nl">>
    <3>1. a \in Seq(A) /\ b \in Seq(A)
      OBVIOUS
    <3> HIDE DEF A, a, b
    <3>2. Selected(a \o b, S) = Selected(a, S) \o Selected(b, S)
      BY <3>1, SelectedConcat
    <3> QED BY <3>2 DEF a, b
  <2>3. <<>> \o <<>> = <<>>
    OBVIOUS
  <2> QED BY <1>1, <2>1, <2>2, <2>3, Zenon
<1> QED BY <1>1, <1>2 DEF LineEnd

\* so that the bytes of an event carry what its lines carry,
LEMMA TerminatedSelected ==
    ASSUME NEW e \in Events, NEW S, "nl" \notin S, "cr" \notin S
    PROVE  Selected(Terminated(e), S) = Selected(e, S)
<1> DEFINE t == EventLines(e)
           w(k) == IF e[k] \in S THEN <<e[k]>> ELSE <<>>
<1>1. t \in Seq(Seq(Symbols)) /\ Len(t) = Len(e)
      /\ \A k \in 1..Len(e) : t[k] = <<e[k]>> \o LineEnd(call.framing)
  BY EventLinesType
<1>2. Len(e) \in Nat \ {0} /\ \A k \in 1..Len(e) : e[k] \in Symbols
  BY EventProperties
<1>3. ASSUME NEW k \in 1..Len(e) PROVE Selected(t[k], S) = w(k)
  <2>1. <<e[k]>> \in Seq(Symbols) /\ w(k) \in Seq(Symbols) /\ LineEnd(call.framing) \in Seq(Symbols)
    <3>1. <<e[k]>> \in Seq(Symbols) /\ <<>> \in Seq(Symbols)
      BY <1>2
    <3> QED BY <3>1, LineEndType
  <2>2. Selected(<<e[k]>> \o LineEnd(call.framing), S)
          = Selected(<<e[k]>>, S) \o Selected(LineEnd(call.framing), S)
    <3> DEFINE a == <<e[k]>>
               b == LineEnd(call.framing)
    <3>1. a \in Seq(Symbols) /\ b \in Seq(Symbols)
      BY <2>1
    <3> HIDE DEF a, b
    <3>2. Selected(a \o b, S) = Selected(a, S) \o Selected(b, S)
      BY <3>1, SelectedConcat
    <3> QED BY <3>2 DEF a, b
  <2>3. Selected(<<e[k]>>, S) = w(k)
    BY SelectedFew
  <2>4. Selected(LineEnd(call.framing), S) = <<>>
    BY LineEndsNotSelected
  <2>5. w(k) \o <<>> = w(k)
    BY <2>1, ConcatEmptySeq
  <2>6. t[k] = <<e[k]>> \o LineEnd(call.framing)
    BY <1>1
  <2> HIDE DEF w, t
  <2> QED BY <2>2, <2>3, <2>4, <2>5, <2>6
<1> HIDE DEF t
<1>4. [k \in 1..Len(t) |-> Selected(t[k], S)] = [k \in 1..Len(e) |-> w(k)]
  <2> HIDE DEF w
  <2> QED BY <1>1, <1>3
<1>5. Selected(FlattenSeq(t), S) = FlattenSeq([k \in 1..Len(t) |-> Selected(t[k], S)])
  BY <1>1, SelectedFlatten
<1>6. Selected(e, S) = FlattenSeq([k \in 1..Len(e) |-> w(k)])
  BY DEF Selected
<1>7. Terminated(e) = FlattenSeq(t)
  BY DEF t, Terminated, EventLines
<1> HIDE DEF w
<1> QED BY <1>4, <1>5, <1>6, <1>7

\* finished or not,
LEMMA PieceSelected ==
    ASSUME UpstreamFits, NEW i \in 1..Len(upstream), NEW S, "nl" \notin S, "cr" \notin S
    PROVE  Selected(SentBytes(i), S) = Selected(upstream[i], S)
<1> DEFINE t == Terminated(upstream[i])
           l == IF call.unfinished /\ i = Len(upstream) THEN <<>> ELSE LineEnd(call.framing)
<1>1. upstream[i] \in Events
  BY PieceType
<1>2. t \in Seq(Symbols) /\ l \in Seq(Symbols)
  BY <1>1, TerminatedType, LineEndType, EmptySeq
<1>3. Selected(t, S) = Selected(upstream[i], S)
  BY <1>1, TerminatedSelected
<1>4. Selected(l, S) = <<>>
  BY SelectedFew, LineEndsNotSelected
<1>5. SentBytes(i) = t \o l
  BY DEF SentBytes
<1> HIDE DEF t, l
<1>6. Selected(t \o l, S) = Selected(t, S) \o Selected(l, S)
  BY <1>2, SelectedConcat
<1>7. Selected(t, S) \in Seq(Symbols)
  BY <1>2, SelectedType
<1>8. Selected(t, S) \o <<>> = Selected(t, S)
  BY <1>7, ConcatEmptySeq
<1> QED BY <1>3, <1>4, <1>5, <1>6, <1>8

\* and the body carries what the events carry, however they are framed.
LEMMA BodySelected ==
    ASSUME UpstreamFits, NEW S, "nl" \notin S, "cr" \notin S
    PROVE  Selected(Body, S) = Selected(FlattenSeq(upstream), S)
<1>1. /\ Pieces \in Seq(Seq(Symbols)) /\ Len(Pieces) = Len(upstream)
      /\ \A i \in 1..Len(upstream) : Pieces[i] = SentBytes(i)
      /\ \A i \in 1..Len(upstream) : upstream[i] \in Events
      /\ Len(upstream) \in Nat
      /\ Body = FlattenSeq(Pieces)
  BY PieceType
<1>2. upstream \in Seq(Seq(Symbols))
  <2>1. Events \subseteq Seq(Symbols)
    BY EventProperties
  <2> QED BY <2>1, SeqMonotonic DEF UpstreamFits
<1>3. [k \in 1..Len(Pieces) |-> Selected(Pieces[k], S)]
        = [k \in 1..Len(upstream) |-> Selected(upstream[k], S)]
  BY <1>1, PieceSelected
<1>4. Selected(FlattenSeq(Pieces), S) = FlattenSeq([k \in 1..Len(Pieces) |-> Selected(Pieces[k], S)])
  BY <1>1, SelectedFlatten
<1>5. Selected(FlattenSeq(upstream), S) = FlattenSeq([k \in 1..Len(upstream) |-> Selected(upstream[k], S)])
  BY <1>2, SelectedFlatten
<1> QED BY <1>1, <1>3, <1>4, <1>5

-----------------------------------------------------------------------------
(* Finding an event in the buffer.                                         *)

\* A nonempty set of naturals has a least element.
LEMMA LeastNatural ==
    ASSUME NEW T \in SUBSET Nat, T # {}
    PROVE  \E m \in T : \A k \in T : m <= k
<1> SUFFICES ASSUME \A m \in T : \E k \in T : ~(m <= k) PROVE FALSE
  OBVIOUS
<1> DEFINE S == {n \in Nat : \A k \in T : n <= k}
<1>1. 0 \in S
  OBVIOUS
<1>2. ASSUME NEW n \in S \cap Nat PROVE n + 1 \in S
  <2>1. n \notin T
    OBVIOUS
  <2> QED BY <2>1
<1>3. PICK t \in T : TRUE
  OBVIOUS
<1>4. t + 1 \in S
  <2>1. t + 1 \in Nat
    OBVIOUS
  <2> HIDE DEF S
  <2> QED BY <1>1, <1>2, <2>1, SetInduction
<1> QED BY <1>4

\* buf.find of the empty line: the first one, and 0 only if there is none.
LEMMA BlankLineFound ==
    ASSUME NEW b \in Seq(Symbols)
    PROVE  /\ FindBlankLine(b) \in Nat
           /\ FindBlankLine(b) # 0 =>
                /\ FindBlankLine(b) \in 1..(Len(b) - 1)
                /\ b[FindBlankLine(b)] = "nl" /\ b[FindBlankLine(b) + 1] = "nl"
                /\ \A j \in 1..(FindBlankLine(b) - 1) : ~(b[j] = "nl" /\ b[j + 1] = "nl")
           /\ FindBlankLine(b) = 0 =>
                \A j \in 1..(Len(b) - 1) : ~(b[j] = "nl" /\ b[j + 1] = "nl")
<1> DEFINE ends == {k \in 1..(Len(b) - 1) : b[k] = "nl" /\ b[k + 1] = "nl"}
           m == CHOOSE k \in ends : \A j \in ends : k <= j
<1>1. Len(b) \in Nat
  BY LenProperties
<1>2. FindBlankLine(b) = IF ends = {} THEN 0 ELSE m
  BY DEF FindBlankLine
<1>3. CASE ends = {}
  <2>1. FindBlankLine(b) = 0
    BY <1>2, <1>3
  <2>2. \A j \in 1..(Len(b) - 1) : ~(b[j] = "nl" /\ b[j + 1] = "nl")
    BY <1>3
  <2> QED BY <2>1, <2>2
<1>4. CASE ends # {}
  <2>1. m \in ends /\ \A j \in ends : m <= j
    <3>1. ends \subseteq Nat
      BY <1>1
    <3> HIDE DEF ends
    <3>2. \E k \in ends : \A j \in ends : k <= j
      BY <3>1, <1>4, LeastNatural
    <3> QED BY <3>2
  <2> HIDE DEF m
  <2>2. m \in 1..(Len(b) - 1) /\ b[m] = "nl" /\ b[m + 1] = "nl" /\ m # 0 /\ m \in Nat
    BY <2>1, <1>1
  <2>3. ASSUME NEW j \in 1..(m - 1) PROVE ~(b[j] = "nl" /\ b[j + 1] = "nl")
    <3>1. j \in 1..(Len(b) - 1) /\ ~(m <= j)
      BY <2>2, <1>1
    <3> QED BY <3>1, <2>1
  <2> QED BY <1>2, <1>4, <2>2, <2>3
<1> QED BY <1>3, <1>4

\* The first k symbols of a stretch of the body, and the others, are stretches
\* of the body.
LEMMA BufferSplit ==
    ASSUME NEW B \in Seq(Symbols), NEW c \in Nat, NEW r \in Nat, c <= r, r <= Len(B),
           NEW b, b = SubSeq(B, c + 1, r), Len(b) = r - c, NEW k \in 1..(r - c)
    PROVE  /\ SubSeq(b, 1, k) = SubSeq(B, c + 1, c + k)
           /\ SubSeq(b, k + 1, Len(b)) = SubSeq(B, c + k + 1, r)
<1>1. Len(B) \in Nat
  BY LenProperties
<1>2. c + 1 \in 1..Len(B) /\ r \in 1..Len(B)
  BY <1>1
<1>3. 1 \in 1..r - (c + 1) + 1 /\ k \in 1..r - (c + 1) + 1
  BY <1>1
<1>4. b \in Seq(Symbols)
  <2>1. \A i \in c + 1 .. r : B[i] \in Symbols
    BY <1>1, ElementOfSeq
  <2>2. c + 1 \in Int /\ r \in Int
    OBVIOUS
  <2> QED BY <2>1, <2>2, SubSeqProperties
<1>5. \A m, n \in 1..r - (c + 1) + 1 : SubSeq(b, m, n) = SubSeq(B, c + 1 + m - 1, c + 1 + n - 1)
  BY <1>2, <1>4, SubSeqOfSubSeq
<1>6. SubSeq(b, 1, k) = SubSeq(B, c + 1, c + k)
  <2>1. SubSeq(b, 1, k) = SubSeq(B, c + 1 + 1 - 1, c + 1 + k - 1)
    BY <1>3, <1>5
  <2>2. c + 1 + 1 - 1 = c + 1 /\ c + 1 + k - 1 = c + k
    OBVIOUS
  <2> QED BY <2>1, <2>2
<1>7. SubSeq(b, k + 1, Len(b)) = SubSeq(B, c + k + 1, r)
  <2>1. CASE k = r - c
    <3>1. SubSeq(b, k + 1, Len(b)) = <<>>
      <4>1. k + 1 \in Int /\ Len(b) \in Int /\ Len(b) < k + 1
        BY <2>1
      <4> QED BY <4>1, SubSeqEmpty
    <3>2. SubSeq(B, c + k + 1, r) = <<>>
      <4>1. c + k + 1 \in Int /\ r \in Int /\ r < c + k + 1
        BY <2>1
      <4> QED BY <4>1, SubSeqEmpty
    <3> QED BY <3>1, <3>2
  <2>2. CASE k # r - c
    <3>1. k + 1 \in 1..r - (c + 1) + 1 /\ Len(b) \in 1..r - (c + 1) + 1
      BY <2>2
    <3>2. SubSeq(b, k + 1, Len(b)) = SubSeq(B, c + 1 + (k + 1) - 1, c + 1 + Len(b) - 1)
      BY <1>5, <3>1
    <3>3. c + 1 + (k + 1) - 1 = c + k + 1 /\ c + 1 + Len(b) - 1 = r
      OBVIOUS
    <3> QED BY <3>2, <3>3
  <2> QED BY <2>1, <2>2
<1> QED BY <1>6, <1>7

\* The usage block a stretch of the body leaves on record, 0 if none.
LastUsage(s) ==
    LET found == Selected(s, DOMAIN UsageOf) IN
    IF found = <<>> THEN 0 ELSE UsageOf[Last(found)]

\* A later usage block takes the place of an earlier one.
LEMMA LastUsageConcat ==
    ASSUME NEW a \in Seq(Symbols), NEW b \in Seq(Symbols)
    PROVE  LastUsage(a \o b) = IF Selected(b, DOMAIN UsageOf) = <<>> THEN LastUsage(a)
                               ELSE UsageOf[Last(Selected(b, DOMAIN UsageOf))]
<1> DEFINE D == DOMAIN UsageOf
           x == Selected(a, D)
           y == Selected(b, D)
           z == Selected(a \o b, D)
<1>1. x \in Seq(Symbols) /\ y \in Seq(Symbols)
  <2> HIDE DEF D
  <2> QED BY SelectedType
<1>2. z = x \o y
  <2> HIDE DEF D
  <2> QED BY SelectedConcat
<1>3. LastUsage(a \o b) = (IF z = <<>> THEN 0 ELSE UsageOf[Last(z)])
      /\ LastUsage(a) = IF x = <<>> THEN 0 ELSE UsageOf[Last(x)]
  BY DEF LastUsage
<1> HIDE DEF x, y, z
<1>4. CASE y = <<>>
  <2>1. z = x
    BY <1>1, <1>2, <1>4, ConcatEmptySeq
  <2> QED BY <1>3, <1>4, <2>1 DEF y
<1>5. CASE y # <<>>
  <2>1. Len(x) \in Nat /\ Len(y) \in Nat \ {0} /\ Len(z) = Len(x) + Len(y)
        /\ \A i \in 1 .. Len(x) + Len(y) : z[i] = IF i <= Len(x) THEN x[i] ELSE y[i - Len(x)]
    BY <1>1, <1>2, <1>5, ConcatProperties, EmptySeq, LenProperties
  <2>2. z # <<>>
    BY <2>1, EmptySeq
  <2>3. z[Len(z)] = y[Len(y)]
    <3> DEFINE p == Len(x) + Len(y)
    <3>1. p \in 1..Len(x) + Len(y) /\ ~(p <= Len(x)) /\ p - Len(x) = Len(y) /\ p = Len(z)
      BY <2>1
    <3> HIDE DEF p
    <3> QED BY <3>1, <2>1
  <2>4. Last(z) = Last(y)
    BY <2>3 DEF Last
  <2> QED BY <1>3, <1>5, <2>2, <2>4 DEF y
<1> QED BY <1>4, <1>5

-----------------------------------------------------------------------------
(* The buffer.                                                             *)

Open    == {"reading", "splitting", "yield_splitting"}
Closing == {"yield_succeeding", "succeeding"}

UsageSent ==
    call.endpoint = "chat" /\ IncludesUsage(call) =>
        \E i \in 1..Len(upstream) : \E k \in 1..Len(upstream[i]) : upstream[i][k] \in DOMAIN UsageOf

BufferInv ==
    /\ UpstreamFits
    /\ UsageSent
    /\ received \in 0..Len(Body)
    /\ buf \in Seq(Symbols)
    /\ phase \in Open \cup Closing \cup {"over"}
    /\ status = "success" => phase = "over"
    /\ phase \in Open =>
         /\ Len(buf) <= received
         /\ buf = SubSeq(Body, received - Len(buf) + 1, received)

\* Events of one and of two lines.
LEMMA FewEvents ==
    /\ \A l \in LineSymbols : <<l>> \in Events
    /\ \A l, m \in LineSymbols : <<l, m>> \in Events
<1>1. ASSUME NEW l \in LineSymbols PROVE <<l>> \in Seq(LineSymbols) /\ <<l>> # <<>>
  OBVIOUS
<1>2. ASSUME NEW l \in LineSymbols, NEW m \in LineSymbols
      PROVE  <<l, m>> \in Seq(LineSymbols) /\ <<l, m>> # <<>>
  OBVIOUS
<1> QED BY <1>1, <1>2 DEF Events

\* The stream of the fake upstream, for any number of words.
LEMMA FakeChatFits ==
    ASSUME NEW c \in Call, NEW n \in Nat
    PROVE  /\ FakeChat(c, n) \in Seq(Events)
           /\ Len(FakeChat(c, n)) \in Nat \ {0}
           /\ IncludesUsage(c) => \E i \in 1..Len(FakeChat(c, n)) : FakeChat(c, n)[i] = <<"usage_1">>
<1> DEFINE a == <<<<"role">>>>
           b == [k \in 1..n |-> IF k = 1 THEN <<"word_1">> ELSE <<"word_2">>]
           d == <<<<"stop">>>>
           u == IF IncludesUsage(c) THEN <<<<"usage_1">>>> ELSE <<>>
           e == <<<<"done">>>>
           x == ((a \o b) \o d)
           y == x \o u
           z == y \o e
<1>1. a \in Seq(Events) /\ d \in Seq(Events) /\ e \in Seq(Events)
  <2>1. <<"role">> \in Events /\ <<"stop">> \in Events /\ <<"done">> \in Events
    BY FewEvents DEF LineSymbols
  <2> QED BY <2>1
<1>2. b \in Seq(Events)
  <2>1. <<"word_1">> \in Events /\ <<"word_2">> \in Events
    BY FewEvents DEF LineSymbols
  <2> QED BY <2>1
<1>3. u \in Seq(Events) /\ (IncludesUsage(c) => Len(u) = 1 /\ u[1] = <<"usage_1">>)
  <2>1. <<"usage_1">> \in Events
    BY FewEvents DEF LineSymbols
  <2>2. <<<<"usage_1">>>> \in Seq(Events) /\ <<>> \in Seq(Events)
    BY <2>1
  <2> QED BY <2>2
<1>4. Len(e) = 1
  OBVIOUS
<1>5. FakeChat(c, n) = z
  BY DEF FakeChat
<1> HIDE DEF a, b, d, u, e
<1>6. x \in Seq(Events)
  BY <1>1, <1>2, ConcatProperties
<1> HIDE DEF x
<1>7. y \in Seq(Events) /\ Len(y) = Len(x) + Len(u)
      /\ \A i \in 1 .. Len(x) + Len(u) : y[i] = IF i <= Len(x) THEN x[i] ELSE u[i - Len(x)]
  BY <1>3, <1>6, ConcatProperties
<1>12. y \in Seq(Events)
  BY <1>7
<1>13. Len(y) = Len(x) + Len(u)
  BY <1>7
<1> HIDE DEF y
<1>8. z \in Seq(Events) /\ Len(z) = Len(y) + Len(e)
      /\ \A i \in 1 .. Len(y) + Len(e) : z[i] = IF i <= Len(y) THEN y[i] ELSE e[i - Len(y)]
  BY <1>1, <1>12, ConcatProperties
<1>14. Len(z) = Len(y) + Len(e)
  BY <1>8
<1> HIDE DEF z
<1>9. Len(x) \in Nat /\ Len(u) \in Nat /\ Len(y) \in Nat
  BY <1>3, <1>6, <1>7, LenProperties
<1>10. Len(z) \in Nat \ {0}
  BY <1>4, <1>14, <1>9
<1>11. ASSUME IncludesUsage(c) PROVE \E i \in 1..Len(z) : z[i] = <<"usage_1">>
  <2> DEFINE i == Len(x) + 1
  <2>1. i \in 1..Len(x) + Len(u) /\ ~(i <= Len(x)) /\ i - Len(x) = 1
        /\ i \in 1..Len(y) + Len(e) /\ i <= Len(y) /\ i \in 1..Len(z)
    <3>1. Len(u) = 1
      BY <1>3, <1>11
    <3> QED BY <3>1, <1>4, <1>9, <1>13, <1>14
  <2> HIDE DEF i
  <2>2. z[i] = <<"usage_1">>
    BY <2>1, <1>3, <1>7, <1>8, <1>11
  <2> QED BY <2>1, <2>2
<1> QED BY <1>5, <1>8, <1>10, <1>11

\* Whatever the upstream is, it sends events, and the usage if it is asked for.
LEMMA UpstreamsFit ==
    ASSUME Init
    PROVE  UpstreamFits /\ UsageSent
<1>1. call \in Call /\ upstream \in UpstreamsFor(call)
  BY DEF Init
<1>2. CASE \E n \in 0..Words : call.endpoint # "responses" /\ upstream = FakeChat(call, n)
  <2>1. PICK n \in 0..Words : upstream = FakeChat(call, n)
    BY <1>2
  <2>2. n \in Nat
    BY StreamRelayAssumption
  <2>3. /\ upstream \in Seq(Events) /\ Len(upstream) \in Nat \ {0}
        /\ IncludesUsage(call) => \E i \in 1..Len(upstream) : upstream[i] = <<"usage_1">>
    BY <1>1, <2>1, <2>2, FakeChatFits
  <2>4. Len(<<"usage_1">>) = 1 /\ (<<"usage_1">>)[1] = "usage_1" /\ "usage_1" \in DOMAIN UsageOf
    BY DEF UsageOf
  <2>5. UsageSent
    <3> SUFFICES ASSUME IncludesUsage(call)
                 PROVE  \E i \in 1..Len(upstream) : \E k \in 1..Len(upstream[i]) :
                            upstream[i][k] \in DOMAIN UsageOf
      BY DEF UsageSent
    <3>1. PICK i \in 1..Len(upstream) : upstream[i] = <<"usage_1">>
      BY <2>3
    <3>2. 1 \in 1..Len(upstream[i]) /\ upstream[i][1] \in DOMAIN UsageOf
      BY <2>4, <3>1
    <3> QED BY <3>2
  <2> QED BY <1>1, <2>3, <2>5 DEF UpstreamFits
<1>3. CASE upstream \in OtherChat(call) /\ call.endpoint # "responses"
  <2> DEFINE s == <<<<"word_1">>, <<"final_1">>>>
             t == <<<<"junk">>, <<"usage_1">>, <<"word_1">>, <<"usage_2">>>>
  <2>1. <<"word_1">> \in Events /\ <<"final_1">> \in Events /\ <<"junk">> \in Events
        /\ <<"usage_1">> \in Events /\ <<"usage_2">> \in Events
    BY FewEvents DEF LineSymbols
  <2>2. s \in Seq(Events) /\ t \in Seq(Events) /\ Len(s) = 2 /\ Len(t) = 4
    BY <2>1
  <2>3. upstream = s \/ upstream = t
    BY <1>3 DEF OtherChat
  <2>4. \E i \in 1..Len(s) : \E k \in 1..Len(s[i]) : s[i][k] \in DOMAIN UsageOf
    <3>1. 2 \in 1..Len(s) /\ s[2] = <<"final_1">>
      OBVIOUS
    <3>2. Len(<<"final_1">>) = 1 /\ (<<"final_1">>)[1] = "final_1" /\ "final_1" \in DOMAIN UsageOf
      BY DEF UsageOf
    <3> HIDE DEF s
    <3>3. 1 \in 1..Len(s[2]) /\ s[2][1] \in DOMAIN UsageOf
      BY <3>1, <3>2
    <3> QED BY <3>1, <3>3
  <2>5. \E i \in 1..Len(t) : \E k \in 1..Len(t[i]) : t[i][k] \in DOMAIN UsageOf
    <3>1. 2 \in 1..Len(t) /\ t[2] = <<"usage_1">>
      OBVIOUS
    <3>2. Len(<<"usage_1">>) = 1 /\ (<<"usage_1">>)[1] = "usage_1" /\ "usage_1" \in DOMAIN UsageOf
      BY DEF UsageOf
    <3> HIDE DEF t
    <3>3. 1 \in 1..Len(t[2]) /\ t[2][1] \in DOMAIN UsageOf
      BY <3>1, <3>2
    <3> QED BY <3>1, <3>3
  <2> HIDE DEF s, t
  <2>6. UpstreamFits
    <3>1. upstream \in Seq(Events)
      BY <2>2, <2>3
    <3>2. Len(upstream) = 2 \/ Len(upstream) = 4
      BY <2>2, <2>3
    <3>3. call \in Call /\ Len(upstream) # 0
      BY <1>1, <3>2
    <3> QED BY <3>1, <3>3 DEF UpstreamFits
  <2>7. UsageSent
    BY <2>3, <2>4, <2>5 DEF UsageSent
  <2> QED BY <2>6, <2>7
<1>4. CASE upstream \in Responses /\ call.endpoint = "responses"
  <2> DEFINE s == <<<<"name", "delta">>, <<"name", "completed">>>>
  <2>1. <<"name", "delta">> \in Events /\ <<"name", "completed">> \in Events
    BY FewEvents DEF LineSymbols
  <2>2. s \in Seq(Events) /\ Len(s) = 2
    BY <2>1
  <2>3. upstream = s
    BY <1>4 DEF Responses
  <2> HIDE DEF s
  <2>4. UpstreamFits
    BY <1>1, <2>2, <2>3 DEF UpstreamFits
  <2>5. UsageSent
    BY <1>4 DEF UsageSent
  <2> QED BY <2>4, <2>5
<1>5. call.endpoint = "responses" \/ call.endpoint # "responses"
  OBVIOUS
<1> QED BY <1>1, <1>2, <1>3, <1>4, <1>5 DEF UpstreamsFor

Steady == UNCHANGED <<call, upstream>>

\* The call and the events do not change, and the body does not,
LEMMA SteadyBody ==
    ASSUME Steady
    PROVE  /\ Body' = Body /\ Pieces' = Pieces
           /\ UpstreamFits' = UpstreamFits /\ UsageSent' = UsageSent
<1>1. call' = call /\ upstream' = upstream
  BY DEF Steady
<1>2. Body' = Body
  BY <1>1 DEF Body, SentBytes, Terminated
<1>3. Pieces' = Pieces
  BY <1>1 DEF Pieces, SentBytes, Terminated
<1>4. UpstreamFits' = UpstreamFits
  BY <1>1 DEF UpstreamFits
<1>5. UsageSent' = UsageSent
  BY <1>1 DEF UsageSent, IncludesUsage, ClientRequestedUsage
<1> QED BY <1>2, <1>3, <1>4, <1>5

\* at any step.
LEMMA NextSteady == Next => Steady
BY DEF Next, Steady, ReadChunk, TakeEvent, NeedMore, Resume, EndOfBody, Succeed, Break, Dropped

\* What process_event is given when an event is taken from the buffer.
LEMMA BufferTaken ==
    ASSUME BufferInv, phase \in Open, NEW k \in 1..Len(buf)
    PROVE  /\ Len(buf) \in Nat /\ received \in Nat /\ received - Len(buf) \in Nat
           /\ SubSeq(buf, 1, k) =
                SubSeq(Body, received - Len(buf) + 1, received - Len(buf) + k)
           /\ SubSeq(buf, k + 1, Len(buf)) = SubSeq(Body, received - Len(buf) + k + 1, received)
           /\ SubSeq(buf, k + 1, Len(buf)) \in Seq(Symbols)
           /\ Len(SubSeq(buf, k + 1, Len(buf))) = Len(buf) - k
<1> DEFINE c == received - Len(buf)
<1>1. /\ Body \in Seq(Symbols) /\ Len(Body) \in Nat
      /\ Len(buf) \in Nat /\ received \in Nat /\ c \in Nat
      /\ received <= Len(Body) /\ Len(buf) <= received
      /\ buf = SubSeq(Body, c + 1, received) /\ Len(buf) = received - c
  BY PieceType, LenProperties DEF BufferInv
<1>2. c <= received /\ k \in 1..received - c
  BY <1>1
<1> HIDE DEF c
<1>3. /\ SubSeq(buf, 1, k) = SubSeq(Body, c + 1, c + k)
      /\ SubSeq(buf, k + 1, Len(buf)) = SubSeq(Body, c + k + 1, received)
  BY <1>1, <1>2, BufferSplit
<1>4. /\ SubSeq(buf, k + 1, Len(buf)) \in Seq(Symbols)
      /\ Len(SubSeq(buf, k + 1, Len(buf))) = Len(buf) - k
  <2>1. \A i \in k + 1..Len(buf) : buf[i] \in Symbols
    <3>1. buf \in Seq(Symbols)
      BY DEF BufferInv
    <3> QED BY <3>1, ElementOfSeq
  <2>2. k + 1 \in Int /\ Len(buf) \in Int
    BY <1>1
  <2>3. /\ SubSeq(buf, k + 1, Len(buf)) \in Seq(Symbols)
        /\ Len(SubSeq(buf, k + 1, Len(buf)))
             = IF k + 1 <= Len(buf) THEN Len(buf) - (k + 1) + 1 ELSE 0
    BY <2>1, <2>2, SubSeqProperties
  <2> QED BY <2>2, <2>3
<1> QED BY <1>1, <1>3, <1>4 DEF c

\* Where process_event leaves stream_body.
LEMMA ProcessPhase ==
    ASSUME NEW raw, NEW next, Process(raw, next)
    PROVE  /\ next = "splitting" => phase' \in {"splitting", "yield_splitting"}
           /\ next # "splitting" => phase' \in {next, "yield_succeeding"}
BY DEF Process, YieldBefore

\* The buffer at the start,
LEMMA InitBuffer == Init => BufferInv
<1> SUFFICES ASSUME Init PROVE BufferInv
  OBVIOUS
<1>1. UpstreamFits /\ UsageSent
  BY UpstreamsFit
<1>2. Body \in Seq(Symbols) /\ Len(Body) \in Nat
  BY <1>1, PieceType
<1>3. SubSeq(Body, 1, 0) = <<>> /\ Len(<<>>) = 0 /\ <<>> \in Seq(Symbols)
  BY SubSeqEmpty, EmptySeq
<1>4. received = 0 /\ buf = <<>> /\ phase = "reading" /\ status = "pending"
  BY DEF Init
<1>5. received \in 0..Len(Body) /\ received - Len(buf) + 1 = 1 /\ Len(buf) <= received
  BY <1>2, <1>3, <1>4
<1> QED BY <1>1, <1>3, <1>4, <1>5 DEF BufferInv, Open

\* and after each step.
LEMMA NextBuffer ==
    ASSUME BufferInv, [Next]_vars
    PROVE  BufferInv'
<1>1. /\ Body \in Seq(Symbols) /\ Len(Body) \in Nat
      /\ Len(buf) \in Nat /\ received \in Nat /\ received <= Len(Body)
  BY PieceType, LenProperties DEF BufferInv
<1>2. ASSUME UNCHANGED vars PROVE BufferInv'
  <2>1. Steady
    BY <1>2 DEF vars, Steady
  <2> QED BY <1>2, <2>1, SteadyBody DEF BufferInv, vars
<1>3. ASSUME Next PROVE Body' = Body /\ UpstreamFits' /\ UsageSent'
  BY <1>3, NextSteady, SteadyBody DEF BufferInv
<1>4. ASSUME ReadChunk PROVE BufferInv'
  <2>1. Body' = Body /\ UpstreamFits' /\ UsageSent'
    BY <1>3, <1>4 DEF Next
  <2>2. PICK n \in 1..MaxChunk :
          /\ received + n <= Len(Body)
          /\ received' = received + n
          /\ buf' = buf \o SubSeq(Body, received + 1, received + n)
    BY <1>4 DEF ReadChunk
  <2>3. n \in Nat \ {0}
    BY StreamRelayAssumption
  <2> DEFINE c == received - Len(buf)
             d == SubSeq(Body, received + 1, received + n)
  <2>4. c \in Nat /\ buf = SubSeq(Body, c + 1, received) /\ Len(buf) <= received
    BY <1>1, <1>4 DEF BufferInv, ReadChunk, Open
  <2>5. d \in Seq(Symbols) /\ Len(d) = n
    <3>1. \A i \in received + 1 .. received + n : Body[i] \in Symbols
      BY <1>1, <2>2, <2>3, ElementOfSeq
    <3>2. received + 1 \in Int /\ received + n \in Int
      BY <1>1, <2>3
    <3> DEFINE lo == received + 1
               hi == received + n
    <3>3. hi - lo + 1 = n /\ lo <= hi
      BY <1>1, <2>3
    <3> HIDE DEF lo, hi
    <3>4. SubSeq(Body, lo, hi) \in Seq(Symbols)
          /\ Len(SubSeq(Body, lo, hi)) = IF lo <= hi THEN hi - lo + 1 ELSE 0
      BY <3>1, <3>2, SubSeqProperties DEF lo, hi
    <3>5. SubSeq(Body, lo, hi) \in Seq(Symbols) /\ Len(SubSeq(Body, lo, hi)) = n
      BY <3>3, <3>4
    <3> QED BY <3>5 DEF lo, hi
  <2>6. buf' = SubSeq(Body, c + 1, received + n)
    <3>1. c + 1 \in 1 .. Len(Body) + 1 /\ received \in c + 1 - 1 .. Len(Body)
          /\ received + n \in received .. Len(Body)
      BY <1>1, <2>2, <2>3, <2>4
    <3> DEFINE lo == c + 1
               hi == received + n
    <3> HIDE DEF c, lo, hi
    <3>2. lo \in 1 .. Len(Body) + 1 /\ received \in lo - 1 .. Len(Body) /\ hi \in received .. Len(Body)
      BY <1>1, <2>4, <3>1 DEF lo, hi
    <3>3. SubSeq(Body, lo, received) \o SubSeq(Body, received + 1, hi) = SubSeq(Body, lo, hi)
      BY <1>1, <3>2, ConcatAdjacentSubSeq
    <3> QED BY <2>2, <2>4, <3>3 DEF lo, hi
  <2>7. buf' \in Seq(Symbols) /\ Len(buf') = Len(buf) + n
    <3>1. buf \in Seq(Symbols)
      BY DEF BufferInv
    <3> HIDE DEF d
    <3>2. buf \o d \in Seq(Symbols) /\ Len(buf \o d) = Len(buf) + Len(d)
      BY <2>5, <3>1, ConcatProperties
    <3> QED BY <2>2, <2>5, <3>2 DEF d
  <2> HIDE DEF d
  <2>8. received' \in 0..Len(Body) /\ Len(buf') <= received' /\ received' - Len(buf') + 1 = c + 1
    BY <1>1, <2>2, <2>3, <2>4, <2>7
  <2> HIDE DEF c
  <2>9. phase' = "splitting" /\ status' = status /\ phase = "reading"
    BY <1>4 DEF ReadChunk
  <2>10. status' # "success"
    BY <2>9 DEF BufferInv
  <2> QED BY <2>1, <2>2, <2>6, <2>7, <2>8, <2>9, <2>10 DEF BufferInv, Open
<1>5. ASSUME TakeEvent PROVE BufferInv'
  <2>1. Body' = Body /\ UpstreamFits' /\ UsageSent'
    BY <1>3, <1>5 DEF Next
  <2> DEFINE end == FindBlankLine(buf) + 1
  <2>2. end \in 1..Len(buf)
    <3>1. buf \in Seq(Symbols)
      BY DEF BufferInv
    <3>2. FindBlankLine(buf) # 0
      BY <1>5 DEF TakeEvent
    <3>3. FindBlankLine(buf) \in 1..(Len(buf) - 1)
      BY <3>1, <3>2, BlankLineFound
    <3> QED BY <1>1, <3>3
  <2>3. buf' = SubSeq(buf, end + 1, Len(buf)) /\ received' = received /\ status' = status
        /\ phase = "splitting" /\ phase' \in {"splitting", "yield_splitting"}
    BY <1>5, ProcessPhase DEF TakeEvent
  <2> HIDE DEF end
  <2>4. /\ received - Len(buf) \in Nat
        /\ buf' = SubSeq(Body, received - Len(buf) + end + 1, received)
        /\ buf' \in Seq(Symbols)
        /\ Len(buf') = Len(buf) - end
    BY <2>2, <2>3, BufferTaken DEF Open
  <2>5. Len(buf') <= received' /\ received' - Len(buf') + 1 = received - Len(buf) + end + 1
    <3>1. Len(buf) \in Nat /\ received \in Nat /\ end \in Nat /\ end <= Len(buf)
          /\ Len(buf) <= received
      BY <1>1, <2>2, <2>4
    <3>2. received' = received /\ Len(buf') = Len(buf) - end
      BY <2>3, <2>4
    <3> QED BY <3>1, <3>2
  <2>6. status' # "success" /\ received' \in 0..Len(Body)
    BY <2>3 DEF BufferInv
  <2>7. buf' = SubSeq(Body, received' - Len(buf') + 1, received')
    BY <2>3, <2>4, <2>5
  <2> QED BY <2>1, <2>3, <2>4, <2>5, <2>6, <2>7 DEF BufferInv, Open
<1>6. ASSUME NeedMore \/ Resume PROVE BufferInv'
  <2>1. Body' = Body /\ UpstreamFits' /\ UsageSent'
    BY <1>3, <1>6 DEF Next
  <2> QED BY <1>6, <2>1 DEF BufferInv, NeedMore, Resume, Open, Closing
<1>7. ASSUME EndOfBody PROVE BufferInv'
  <2>1. Body' = Body /\ UpstreamFits' /\ UsageSent'
    BY <1>3, <1>7 DEF Next
  <2>2. phase' \in Closing /\ UNCHANGED <<received, buf, status>> /\ phase = "reading"
    BY <1>7, ProcessPhase DEF EndOfBody, Closing
  <2> QED BY <2>1, <2>2 DEF BufferInv, Open, Closing
<1>8. ASSUME Succeed \/ Break \/ Dropped PROVE BufferInv'
  <2>1. Body' = Body /\ UpstreamFits' /\ UsageSent'
    BY <1>3, <1>8 DEF Next
  <2> QED BY <1>8, <2>1 DEF BufferInv, Succeed, Break, Dropped, Open, Closing
<1> QED BY <1>2, <1>4, <1>5, <1>6, <1>7, <1>8 DEF Next

\* For every chunking of every stream: while events are taken, the buffer holds
\* the symbols that have arrived and are not yet taken, in their order
\* (stream_body, proxy/app.py:654-670).
THEOREM BufferExact == Spec => []BufferInv
<1>1. Init => BufferInv
  BY InitBuffer
<1>2. BufferInv /\ [Next]_vars => BufferInv'
  BY NextBuffer
<1> QED BY <1>1, <1>2, PTL DEF Spec

-----------------------------------------------------------------------------
(* The account of a stream.                                                *)

\* Flattening loses no element.
LEMMA FlattenNonempty ==
    ASSUME NEW A, NEW x \in Seq(Seq(A)), NEW k \in 1..Len(x), x[k] # <<>>
    PROVE  FlattenSeq(x) # <<>>
<1>1. Len(x) \in Nat /\ x[k] \in Seq(A)
  BY LenProperties, ElementOfSeq
<1>2. k \in 0..Len(x) /\ k - 1 \in 0..(Len(x) - 1) /\ k - 1 + 1 = k
  BY <1>1
<1> DEFINE a == FlattenSeq(SubSeq(x, 1, k - 1))
           b == FlattenSeq(SubSeq(x, 1, k))
           d == FlattenSeq(SubSeq(x, k + 1, Len(x)))
<1>3. b \in Seq(A) /\ d \in Seq(A) /\ FlattenSeq(x) = b \o d
  BY <1>2, FlattenCut
<1>4. a \in Seq(A) /\ b = a \o x[k]
  BY <1>2, FlattenStep
<1> HIDE DEF a, b, d
<1>5. Len(x[k]) \in Nat \ {0} /\ Len(a) \in Nat /\ Len(d) \in Nat
  BY <1>1, <1>3, <1>4, EmptySeq, LenProperties
<1>6. Len(b) = Len(a) + Len(x[k])
  BY <1>1, <1>4, ConcatProperties
<1>7. Len(b \o d) = Len(b) + Len(d)
  BY <1>3, ConcatProperties
<1>8. Len(FlattenSeq(x)) # 0
  BY <1>3, <1>5, <1>6, <1>7
<1> QED BY <1>8, EmptySeq

\* A line of the set is not lost.
LEMMA SelectedMember ==
    ASSUME NEW A, NEW s \in Seq(A), NEW S, NEW k \in 1..Len(s), s[k] \in S
    PROVE  Selected(s, S) # <<>>
<1> DEFINE t == [i \in 1..Len(s) |-> IF s[i] \in S THEN <<s[i]>> ELSE <<>>]
<1>1. t \in Seq(Seq(A))
  BY SelectedType
<1>2. Len(t) = Len(s)
  BY LenProperties
<1>3. t[k] = <<s[k]>> /\ <<s[k]>> # <<>>
  OBVIOUS
<1> HIDE DEF t
<1>4. FlattenSeq(t) # <<>>
  <2>1. k \in 1..Len(t) /\ t[k] # <<>>
    BY <1>2, <1>3
  <2> QED BY <1>1, <2>1, FlattenNonempty
<1> QED BY <1>4 DEF t, Selected

\* A usage block is told from none.
LEMMA UsageNeverZero == \A l \in DOMAIN UsageOf : UsageOf[l] # 0
BY DEF UsageOf

\* No line end carries usage or text.
LEMMA NoLineEndCounts ==
    /\ "nl" \notin Content /\ "cr" \notin Content
    /\ "nl" \notin DOMAIN UsageOf /\ "cr" \notin DOMAIN UsageOf
BY DEF Content, UsageOf

\* An upstream that is asked for its usage sends it.
LEMMA UsageLinesSent ==
    ASSUME UpstreamFits, UsageSent, call.endpoint = "chat", IncludesUsage(call)
    PROVE  UsageLines # <<>>
<1> DEFINE D == DOMAIN UsageOf
           x == [i \in 1..Len(upstream) |-> Selected(upstream[i], D)]
<1>1. PICK i \in 1..Len(upstream) : \E k \in 1..Len(upstream[i]) : upstream[i][k] \in D
  BY DEF UsageSent
<1> HIDE DEF D
<1>2. upstream \in Seq(Seq(Symbols)) /\ Len(upstream) \in Nat
      /\ \A j \in 1..Len(upstream) : upstream[j] \in Seq(Symbols)
  <2>1. Events \subseteq Seq(Symbols)
    BY EventProperties
  <2>2. upstream \in Seq(Seq(Symbols))
    BY <2>1, SeqMonotonic DEF UpstreamFits
  <2> QED BY <2>2, LenProperties, ElementOfSeq
<1>3. UsageLines = FlattenSeq(x)
  BY <1>2, SelectedFlatten DEF UsageLines, D
<1>4. x \in Seq(Seq(Symbols)) /\ Len(x) = Len(upstream) /\ x[i] = Selected(upstream[i], D)
  <2>1. \A j \in 1..Len(upstream) : Selected(upstream[j], D) \in Seq(Symbols)
    BY <1>2, SelectedType
  <2> QED BY <1>2, <2>1
<1> HIDE DEF x
<1>5. Selected(upstream[i], D) # <<>>
  BY <1>1, <1>2, SelectedMember
<1> QED BY <1>3, <1>4, <1>5, FlattenNonempty

\* The usage and the text on record are those of the first c symbols of the body.
AccountedTo(c) ==
    /\ text = Selected(SubSeq(Body, 1, c), Content)
    /\ usage = LastUsage(SubSeq(Body, 1, c))
    /\ phase \in Open => c = received - Len(buf)
    /\ phase \in Closing \/ status = "success" => c = Len(Body)

AccountInv == \E c \in 0..Len(Body) : AccountedTo(c)

\* The body up to d is the body up to c and the stretch between them.
LEMMA BodyCut ==
    ASSUME UpstreamFits, NEW c \in 0..Len(Body), NEW d \in c..Len(Body)
    PROVE  /\ SubSeq(Body, 1, c) \in Seq(Symbols)
           /\ SubSeq(Body, c + 1, d) \in Seq(Symbols)
           /\ SubSeq(Body, 1, d) = SubSeq(Body, 1, c) \o SubSeq(Body, c + 1, d)
<1>1. Body \in Seq(Symbols) /\ Len(Body) \in Nat
  BY PieceType
<1>2. SubSeq(Body, 1, c) \in Seq(Symbols)
  BY <1>1, SubSeqType
<1>3. SubSeq(Body, c + 1, d) \in Seq(Symbols)
  <2>1. \A i \in c + 1..d : Body[i] \in Symbols
    BY <1>1, ElementOfSeq
  <2>2. c + 1 \in Int /\ d \in Int
    BY <1>1
  <2> QED BY <2>1, <2>2, SubSeqProperties
<1>4. 1 \in 1 .. Len(Body) + 1 /\ c \in 1 - 1 .. Len(Body) /\ d \in c .. Len(Body)
  BY <1>1
<1>5. SubSeq(Body, 1, c) \o SubSeq(Body, c + 1, d) = SubSeq(Body, 1, d)
  BY <1>1, <1>4, ConcatAdjacentSubSeq
<1> QED BY <1>2, <1>3, <1>5

\* process_event moves the account from c to d when it is given the stretch
\* between them.
LEMMA EventAccounted ==
    ASSUME UpstreamFits, NEW c \in 0..Len(Body), NEW d \in c..Len(Body),
           text = Selected(SubSeq(Body, 1, c), Content),
           usage = LastUsage(SubSeq(Body, 1, c))
    PROVE  /\ AbsorbedText(SubSeq(Body, c + 1, d)) = Selected(SubSeq(Body, 1, d), Content)
           /\ AbsorbedUsage(SubSeq(Body, c + 1, d)) = LastUsage(SubSeq(Body, 1, d))
<1> DEFINE a == SubSeq(Body, 1, c)
           b == SubSeq(Body, c + 1, d)
<1>1. a \in Seq(Symbols) /\ b \in Seq(Symbols) /\ SubSeq(Body, 1, d) = a \o b
  BY BodyCut
<1>2. text = Selected(a, Content) /\ usage = LastUsage(a)
  OBVIOUS
<1> HIDE DEF a, b
<1>3. AbsorbedText(b) = Selected(a \o b, Content)
  <2>1. Selected(a \o b, Content) = Selected(a, Content) \o Selected(b, Content)
    BY <1>1, SelectedConcat
  <2>2. AbsorbedText(b) = text \o Selected(b, Content)
    BY DEF AbsorbedText
  <2> QED BY <1>2, <2>1, <2>2
<1>4. AbsorbedUsage(b) = LastUsage(a \o b)
  BY <1>1, <1>2, LastUsageConcat DEF AbsorbedUsage
<1> QED BY <1>1, <1>3, <1>4 DEF b

\* The account at the start,
LEMMA InitAccount == Init => AccountInv
<1> SUFFICES ASSUME Init PROVE AccountInv
  OBVIOUS
<1>1. UpstreamFits
  BY UpstreamsFit
<1>2. Len(Body) \in Nat
  BY <1>1, PieceType
<1>3. SubSeq(Body, 1, 0) = <<>>
  BY SubSeqEmpty
<1>4. Selected(<<>>, Content) = <<>> /\ LastUsage(<<>>) = 0
  BY SelectedFew DEF LastUsage
<1>5. /\ text = <<>> /\ usage = 0 /\ received = 0 /\ Len(buf) = 0
      /\ phase = "reading" /\ status = "pending"
  BY EmptySeq DEF Init
<1>6. AccountedTo(0)
  <2>1. 0 = received - Len(buf) /\ phase \notin Closing /\ status # "success"
    BY <1>5 DEF Closing
  <2>2. text = Selected(SubSeq(Body, 1, 0), Content) /\ usage = LastUsage(SubSeq(Body, 1, 0))
    BY <1>3, <1>4, <1>5
  <2> QED BY <2>1, <2>2 DEF AccountedTo
<1>7. 0 \in 0..Len(Body)
  BY <1>2
<1> QED BY <1>6, <1>7 DEF AccountInv

\* A chunk is added to the buffer: what has been taken from it stays.
LEMMA ReadKeeps ==
    ASSUME BufferInv, ReadChunk
    PROVE  received' - Len(buf') = received - Len(buf)
<1>0. /\ UpstreamFits /\ Body \in Seq(Symbols) /\ Len(Body) \in Nat
      /\ Len(buf) \in Nat /\ received \in Nat /\ received <= Len(Body)
  BY PieceType, LenProperties DEF BufferInv
<1>1. PICK n \in 1..MaxChunk :
        /\ received + n <= Len(Body)
        /\ received' = received + n
        /\ buf' = buf \o SubSeq(Body, received + 1, received + n)
  BY DEF ReadChunk
<1>2. n \in Nat \ {0}
  BY StreamRelayAssumption
<1> DEFINE d == SubSeq(Body, received + 1, received + n)
<1>3. d \in Seq(Symbols) /\ Len(d) = n
  <2>1. received \in 0..Len(Body) /\ received + n \in received..Len(Body)
    BY <1>0, <1>1, <1>2
  <2>2. /\ SubSeq(Body, 1, received) \in Seq(Symbols) /\ d \in Seq(Symbols)
        /\ SubSeq(Body, 1, received + n) = SubSeq(Body, 1, received) \o d
    BY <1>0, <2>1, BodyCut
  <2>3. Len(SubSeq(Body, 1, received)) = received
    BY <1>0, <2>1, SubSeqType
  <2>4. received + n \in 0..Len(Body)
    BY <1>0, <2>1
  <2>5. Len(SubSeq(Body, 1, received + n)) = received + n
    BY <1>0, <2>4, SubSeqType
  <2> HIDE DEF d
  <2>6. Len(SubSeq(Body, 1, received) \o d) = Len(SubSeq(Body, 1, received)) + Len(d)
    BY <2>2, ConcatProperties
  <2>7. Len(d) \in Nat
    BY <2>2, LenProperties
  <2> QED BY <1>0, <1>2, <2>2, <2>3, <2>5, <2>6, <2>7
<1> HIDE DEF d
<1>4. Len(buf \o d) = Len(buf) + Len(d)
  <2>1. buf \in Seq(Symbols)
    BY DEF BufferInv
  <2> QED BY <1>3, <2>1, ConcatProperties
<1>5. Len(buf') = Len(buf) + n
  BY <1>1, <1>3, <1>4 DEF d
<1> QED BY <1>0, <1>1, <1>2, <1>5

\* and after each step.
LEMMA NextAccount ==
    ASSUME BufferInv, AccountInv, [Next]_vars
    PROVE  AccountInv'
<1>1. PICK c \in 0..Len(Body) : AccountedTo(c)
  BY DEF AccountInv
<1>2. /\ UpstreamFits /\ Body \in Seq(Symbols) /\ Len(Body) \in Nat
      /\ Len(buf) \in Nat /\ received \in Nat /\ received <= Len(Body)
  BY PieceType, LenProperties DEF BufferInv
<1>3. Body' = Body
  <2>1. Steady
    BY NextSteady DEF Steady, vars
  <2> QED BY <2>1, SteadyBody
<1>4. ASSUME AccountedTo(c)' PROVE AccountInv'
  BY <1>3, <1>4 DEF AccountInv
<1>5. ASSUME NEW d \in 0..Len(Body), AccountedTo(d)' PROVE AccountInv'
  BY <1>3, <1>5 DEF AccountInv
<1>6. CASE UNCHANGED vars
  <2>1. AccountedTo(c)'
    BY <1>1, <1>3, <1>6 DEF AccountedTo, LastUsage, Selected, vars
  <2> QED BY <2>1, <1>4
<1>7. CASE ReadChunk
  <2>1. c = received - Len(buf)
    BY <1>1, <1>7 DEF AccountedTo, ReadChunk, Open
  <2>2. received' - Len(buf') = c
    BY <1>7, <2>1, ReadKeeps
  <2>3. phase' = "splitting" /\ UNCHANGED <<text, usage, status>> /\ phase = "reading"
    BY <1>7 DEF ReadChunk
  <2>4. status' # "success"
    BY <2>3 DEF BufferInv
  <2>5. AccountedTo(c)'
    BY <1>1, <1>3, <2>2, <2>3, <2>4 DEF AccountedTo, Closing
  <2> QED BY <2>5, <1>4
<1>8. CASE TakeEvent
  <2> DEFINE end == FindBlankLine(buf) + 1
  <2>1. end \in 1..Len(buf)
    <3>1. buf \in Seq(Symbols)
      BY DEF BufferInv
    <3>2. FindBlankLine(buf) # 0
      BY <1>8 DEF TakeEvent
    <3>3. FindBlankLine(buf) \in 1..(Len(buf) - 1)
      BY <3>1, <3>2, BlankLineFound
    <3> QED BY <1>2, <3>3
  <2>2. phase = "splitting" /\ phase \in Open
    BY <1>8 DEF TakeEvent, Open
  <2>3. Process(SubSeq(buf, 1, end), "splitting")
        /\ buf' = SubSeq(buf, end + 1, Len(buf)) /\ UNCHANGED <<received, status>>
    BY <1>8 DEF TakeEvent
  <2> HIDE DEF end
  <2>4. c = received - Len(buf)
    BY <1>1, <2>2 DEF AccountedTo
  <2>5. SubSeq(buf, 1, end) = SubSeq(Body, c + 1, c + end) /\ Len(buf') = Len(buf) - end
    BY <2>1, <2>2, <2>3, <2>4, BufferTaken
  <2>6. c + end \in c..Len(Body) /\ c + end \in 0..Len(Body) /\ c + end = received - Len(buf')
    BY <1>2, <2>1, <2>4, <2>5
  <2>11. PICK d \in 0..Len(Body) : d = c + end
    BY <2>6
  <2>7. /\ text' = Selected(SubSeq(Body, 1, d), Content)
        /\ usage' = LastUsage(SubSeq(Body, 1, d))
    <3>1. text = Selected(SubSeq(Body, 1, c), Content) /\ usage = LastUsage(SubSeq(Body, 1, c))
      BY <1>1 DEF AccountedTo
    <3>2. /\ text' = AbsorbedText(SubSeq(Body, c + 1, d))
          /\ usage' = AbsorbedUsage(SubSeq(Body, c + 1, d))
      BY <2>3, <2>5, <2>11 DEF Process
    <3>3. d \in c..Len(Body)
      BY <2>6, <2>11
    <3> QED BY <1>2, <3>1, <3>2, <3>3, EventAccounted
  <2>8. phase' \in {"splitting", "yield_splitting"}
    BY <2>3, ProcessPhase
  <2>9. status' # "success" /\ phase' \notin Closing /\ received' = received
    BY <2>2, <2>3, <2>8 DEF BufferInv, Closing
  <2>10. AccountedTo(d)'
    BY <1>3, <2>6, <2>7, <2>9, <2>11 DEF AccountedTo
  <2> QED BY <2>10, <1>5
<1>9. CASE NeedMore \/ Resume
  <2>1. UNCHANGED <<received, buf, usage, text, status>>
        /\ (phase' \in Open => phase \in Open) /\ (phase' \in Closing => phase \in Closing)
    BY <1>9 DEF NeedMore, Resume, Open, Closing
  <2>2. AccountedTo(c)'
    BY <1>1, <1>3, <2>1 DEF AccountedTo, LastUsage, Selected
  <2> QED BY <2>2, <1>4
<1>10. CASE EndOfBody
  <2>1. phase = "reading" /\ phase \in Open /\ received = Len(Body) /\ UNCHANGED <<received, buf, status>>
    BY <1>10 DEF EndOfBody, Open
  <2>2. c = received - Len(buf)
    BY <1>1, <2>1 DEF AccountedTo
  <2>3. Len(Body) \in 0..Len(Body) /\ c \in 0..Len(Body) /\ Len(Body) \in c..Len(Body)
    BY <1>2
  <2>4. /\ text' = Selected(SubSeq(Body, 1, Len(Body)), Content)
        /\ usage' = LastUsage(SubSeq(Body, 1, Len(Body)))
    <3>1. text = Selected(SubSeq(Body, 1, c), Content) /\ usage = LastUsage(SubSeq(Body, 1, c))
      BY <1>1 DEF AccountedTo
    <3>2. CASE buf = <<>>
      <4>1. c = Len(Body)
        BY <1>2, <2>1, <2>2, <3>2, EmptySeq
      <4>2. UNCHANGED <<text, usage>>
        BY <1>10, <3>2 DEF EndOfBody
      <4> QED BY <3>1, <4>1, <4>2
    <3>3. CASE buf # <<>>
      <4>1. buf = SubSeq(Body, c + 1, Len(Body))
        BY <2>1, <2>2 DEF BufferInv
      <4>2. text' = AbsorbedText(buf) /\ usage' = AbsorbedUsage(buf)
        BY <1>10, <3>3 DEF EndOfBody, Process
      <4>3. /\ AbsorbedText(SubSeq(Body, c + 1, Len(Body))) = Selected(SubSeq(Body, 1, Len(Body)), Content)
            /\ AbsorbedUsage(SubSeq(Body, c + 1, Len(Body))) = LastUsage(SubSeq(Body, 1, Len(Body)))
        BY <1>2, <2>3, <3>1, EventAccounted
      <4> QED BY <4>1, <4>2, <4>3
    <3> QED BY <3>2, <3>3
  <2>5. phase' \in Closing
    BY <1>10, ProcessPhase DEF EndOfBody, Closing
  <2>6. phase' \notin Open
    BY <2>5 DEF Closing, Open
  <2>7. PICK d \in 0..Len(Body) : d = Len(Body)
    BY <2>3
  <2>8. AccountedTo(d)'
    BY <1>3, <2>4, <2>6, <2>7 DEF AccountedTo
  <2> QED BY <2>8, <1>5
<1>11. CASE Succeed \/ Break \/ Dropped
  <2>1. UNCHANGED <<usage, text>> /\ phase' = "over" /\ (status' = "success" => phase \in Closing)
    BY <1>11 DEF Succeed, Break, Dropped, Closing
  <2>2. phase' \notin Open /\ phase' \notin Closing
    BY <2>1 DEF Open, Closing
  <2>3. AccountedTo(c)'
    BY <1>1, <1>3, <2>1, <2>2 DEF AccountedTo, LastUsage, Selected
  <2> QED BY <2>3, <1>4
<1> QED BY <1>6, <1>7, <1>8, <1>9, <1>10, <1>11 DEF Next

\* A sequence is a prefix of every longer one that starts with it.
LEMMA PrefixOfConcat ==
    ASSUME NEW A, NEW a \in Seq(A), NEW b \in Seq(A)
    PROVE  IsPrefix(a, a \o b)
<1>1. /\ a \o b \in Seq(A) /\ Len(a \o b) = Len(a) + Len(b)
      /\ \A i \in 1 .. Len(a) + Len(b) : (a \o b)[i] = IF i <= Len(a) THEN a[i] ELSE b[i - Len(a)]
      /\ Len(a) \in Nat /\ Len(b) \in Nat
  BY ConcatProperties, LenProperties
<1> DEFINE z == a \o b
<1>2. z \in Seq(A) /\ Len(z) = Len(a) + Len(b) /\ \A i \in 1..Len(a) : z[i] = a[i]
  BY <1>1
<1> HIDE DEF z
<1>3. Len(a) \in 0..Len(z) /\ Len(a) <= Len(z)
  BY <1>1, <1>2
<1>4. /\ SubSeq(z, 1, Len(a)) \in Seq(A) /\ Len(SubSeq(z, 1, Len(a))) = Len(a)
      /\ \A i \in 1..Len(a) : SubSeq(z, 1, Len(a))[i] = z[i]
  BY <1>2, <1>3, SubSeqType
<1>5. SubSeq(z, 1, Len(a)) = a
  BY <1>2, <1>4, SeqEqual
<1>6. SubSeq(a, 1, Len(a)) = a
  BY SubSeqFull
<1> QED BY <1>3, <1>5, <1>6 DEF IsPrefix, z

\* Selected keeps elements of the set only.
LEMMA SelectedWithin ==
    ASSUME NEW A, NEW s \in Seq(A), NEW S
    PROVE  Selected(s, S) \in Seq(S)
<1> DEFINE t == [i \in 1..Len(s) |-> IF s[i] \in S THEN <<s[i]>> ELSE <<>>]
<1>1. Len(s) \in Nat
  BY LenProperties
<1>2. ASSUME NEW i \in 1..Len(s) PROVE t[i] \in Seq(S)
  <2>1. CASE s[i] \in S
    <3>1. <<s[i]>> \in Seq(S)
      BY <2>1
    <3> QED BY <2>1, <3>1
  <2>2. CASE s[i] \notin S
    <3>1. <<>> \in Seq(S)
      BY EmptySeq
    <3> QED BY <2>2, <3>1
  <2> QED BY <2>1, <2>2
<1>3. t \in Seq(Seq(S)) /\ Len(t) = Len(s)
  BY <1>1, <1>2
<1> HIDE DEF t
<1>4. 0 \in 0..Len(t)
  BY <1>1, <1>3
<1>5. FlattenSeq(t) \in Seq(S)
  BY <1>3, <1>4, FlattenType
<1> QED BY <1>5 DEF t, Selected

\* An account that is exact at c is all StreamAccounted asks for.
LEMMA AccountEnough ==
    ASSUME BufferInv, AccountInv
    PROVE  StreamAccounted
<1> DEFINE D == DOMAIN UsageOf
<1>1. PICK c \in 0..Len(Body) : AccountedTo(c)
  BY DEF AccountInv
<1>2. UpstreamFits /\ UsageSent /\ Body \in Seq(Symbols) /\ Len(Body) \in Nat
  BY PieceType DEF BufferInv
<1>3. Selected(Body, Content) = ContentLines /\ Selected(Body, D) = UsageLines
  <2>1. Selected(Body, Content) = Selected(FlattenSeq(upstream), Content)
    <3>1. "nl" \notin Content /\ "cr" \notin Content
      BY NoLineEndCounts
    <3>2. UpstreamFits
      BY <1>2
    <3> QED BY <3>1, <3>2, BodySelected, Zenon
  <2>2. "nl" \notin D /\ "cr" \notin D
    BY NoLineEndCounts
  <2> HIDE DEF D
  <2>3. Selected(Body, D) = Selected(FlattenSeq(upstream), D)
    <3>1. UpstreamFits
      BY <1>2
    <3> QED BY <3>1, <2>2, BodySelected
  <2> QED BY <2>1, <2>3 DEF ContentLines, UsageLines, D
<1> DEFINE a == SubSeq(Body, 1, c)
           b == SubSeq(Body, c + 1, Len(Body))
<1>4. a \in Seq(Symbols) /\ b \in Seq(Symbols) /\ Body = a \o b
  <2>1. Len(Body) \in c..Len(Body)
    BY <1>2
  <2>2. SubSeq(Body, 1, Len(Body)) = Body
    BY <1>2, SubSeqFull
  <2> QED BY <1>2, <2>1, <2>2, BodyCut
<1>5. text = Selected(a, Content) /\ usage = LastUsage(a)
  BY <1>1 DEF AccountedTo
<1>6. status = "success" => a = Body
  <2>1. status = "success" => c = Len(Body)
    BY <1>1 DEF AccountedTo
  <2> QED BY <1>2, <2>1, SubSeqFull
<1> HIDE DEF a, b, D
<1>7. ContentLines = Selected(a, Content) \o Selected(b, Content)
      /\ UsageLines = Selected(a, D) \o Selected(b, D)
  <2>1. Selected(a \o b, Content) = Selected(a, Content) \o Selected(b, Content)
    BY <1>4, SelectedConcat
  <2>2. Selected(a \o b, D) = Selected(a, D) \o Selected(b, D)
    BY <1>4, SelectedConcat
  <2> QED BY <1>3, <1>4, <2>1, <2>2
<1>8. /\ Selected(a, Content) \in Seq(Symbols) /\ Selected(b, Content) \in Seq(Symbols)
      /\ Selected(a, D) \in Seq(Symbols) /\ Selected(b, D) \in Seq(Symbols)
  BY <1>4, SelectedType
<1>9. status = "success" =>
        /\ usage = (IF UsageLines = <<>> THEN 0 ELSE UsageOf[Last(UsageLines)])
        /\ text = ContentLines
  BY <1>3, <1>5, <1>6 DEF LastUsage, D
<1>10. IsPrefix(text, ContentLines)
  BY <1>5, <1>7, <1>8, PrefixOfConcat
<1>11. ASSUME usage # 0
       PROVE  \E k \in 1..Len(UsageLines) : UsageOf[UsageLines[k]] = usage
  <2> DEFINE x == Selected(a, D)
             y == Selected(b, D)
  <2>1. x # <<>> /\ usage = UsageOf[x[Len(x)]]
    BY <1>5, <1>11 DEF LastUsage, Last, D
  <2>2. x \in Seq(Symbols) /\ y \in Seq(Symbols) /\ UsageLines = x \o y
    BY <1>7, <1>8
  <2> HIDE DEF x, y
  <2>3. Len(x) \in Nat \ {0} /\ Len(y) \in Nat
    BY <2>1, <2>2, EmptySeq, LenProperties
  <2>4. Len(x \o y) = Len(x) + Len(y)
        /\ \A i \in 1 .. Len(x) + Len(y) : (x \o y)[i] = IF i <= Len(x) THEN x[i] ELSE y[i - Len(x)]
    BY <2>2, ConcatProperties
  <2>5. Len(x) \in 1..Len(x) + Len(y) /\ Len(x) <= Len(x)
    BY <2>3
  <2>6. Len(x) \in 1..Len(UsageLines) /\ UsageLines[Len(x)] = x[Len(x)]
    BY <2>2, <2>4, <2>5
  <2> QED BY <2>1, <2>6
<1>12. ASSUME status = "success", call.endpoint = "chat", IncludesUsage(call)
       PROVE  usage # 0
  <2>1. UsageLines # <<>>
    BY <1>2, <1>12, UsageLinesSent
  <2>2. usage = UsageOf[Last(UsageLines)]
    BY <1>9, <1>12, <2>1
  <2>3. Last(UsageLines) \in DOMAIN UsageOf
    <3>1. Selected(Body, D) \in Seq(D)
      BY <1>2, SelectedWithin
    <3>2. UsageLines \in Seq(D) /\ Len(UsageLines) \in Nat \ {0}
      BY <1>3, <2>1, <3>1, EmptySeq
    <3>3. Len(UsageLines) \in 1..Len(UsageLines)
      BY <3>2
    <3> QED BY <3>2, <3>3, ElementOfSeq DEF Last, D
  <2> QED BY <2>2, <2>3, UsageNeverZero
<1> QED BY <1>9, <1>10, <1>11, <1>12 DEF StreamAccounted

\* The record of a stream does not depend on how its bytes were cut or framed:
\* StreamAccounted for every size of the chunks and every number of words
\* (process_event and _absorb_usage, proxy/app.py:551-563, 619-652).
THEOREM StreamsAccounted == Spec => []StreamAccounted
<1>1. Init => BufferInv /\ AccountInv
  BY InitBuffer, InitAccount
<1>2. BufferInv /\ AccountInv /\ [Next]_vars => BufferInv' /\ AccountInv'
  BY NextBuffer, NextAccount
<1>3. BufferInv /\ AccountInv => StreamAccounted
  BY AccountEnough
<1> QED BY <1>1, <1>2, <1>3, PTL DEF Spec

-----------------------------------------------------------------------------
(* The relay of a stream framed with LF.                                   *)

\* With LF, line k of an event is at 2k - 1 and its end at 2k,
LEMMA TerminatedLF ==
    ASSUME NEW e \in Events, call.framing = "lf"
    PROVE  /\ Len(Terminated(e)) = 2 * Len(e)
           /\ \A k \in 1..Len(e) : /\ Terminated(e)[2 * k - 1] = e[k]
                                   /\ Terminated(e)[2 * k] = "nl"
<1> DEFINE t == EventLines(e)
           F(m) == FlattenSeq(SubSeq(t, 1, m))
           Good == {m \in Nat : m <= Len(e) =>
                    /\ Len(F(m)) = 2 * m
                    /\ \A k \in 1..m : F(m)[2 * k - 1] = e[k] /\ F(m)[2 * k] = "nl"}
<1>1. /\ t \in Seq(Seq(Symbols)) /\ Len(t) = Len(e) /\ Len(e) \in Nat \ {0}
      /\ \A k \in 1..Len(e) : t[k] = <<e[k]>> \o LineEnd(call.framing)
  BY EventLinesType, EventProperties
<1>2. ASSUME NEW k \in 1..Len(e)
      PROVE  t[k] \in Seq(Symbols) /\ Len(t[k]) = 2 /\ t[k][1] = e[k] /\ t[k][2] = "nl"
  <2>1. t[k] = <<e[k]>> \o <<"nl">>
    BY <1>1 DEF LineEnd
  <2>2. e[k] \in Symbols /\ "nl" \in Symbols
    BY EventProperties DEF Symbols
  <2> HIDE DEF t
  <2> QED BY <2>1, <2>2
<1> HIDE DEF t
<1>3. 0 \in Good
  <2>1. SubSeq(t, 1, 0) = <<>>
    BY SubSeqEmpty
  <2>2. F(0) = <<>>
    BY <2>1, FlattenEmpty
  <2> HIDE DEF F
  <2> QED BY <2>2, EmptySeq
<1>4. ASSUME NEW n \in Good \cap Nat PROVE n + 1 \in Good
  <2> SUFFICES ASSUME n + 1 <= Len(e)
               PROVE  /\ Len(F(n + 1)) = 2 * (n + 1)
                      /\ \A k \in 1..(n + 1) : F(n + 1)[2 * k - 1] = e[k] /\ F(n + 1)[2 * k] = "nl"
    OBVIOUS
  <2>1. n \in 0..(Len(t) - 1) /\ n + 1 \in 1..Len(e) /\ n <= Len(e)
    BY <1>1
  <2>2. F(n) \in Seq(Symbols) /\ F(n + 1) = F(n) \o t[n + 1]
    BY <1>1, <2>1, FlattenStep
  <2>3. Len(F(n)) = 2 * n /\ \A k \in 1..n : F(n)[2 * k - 1] = e[k] /\ F(n)[2 * k] = "nl"
    <3>1. n \in Good
      OBVIOUS
    <3> HIDE DEF F
    <3> QED BY <2>1, <3>1
  <2> DEFINE a == F(n)
             b == t[n + 1]
  <2>4. b \in Seq(Symbols) /\ Len(b) = 2 /\ b[1] = e[n + 1] /\ b[2] = "nl"
    BY <1>2, <2>1
  <2>5. /\ a \in Seq(Symbols) /\ Len(a) = 2 * n
        /\ \A k \in 1..n : a[2 * k - 1] = e[k] /\ a[2 * k] = "nl"
    BY <2>2, <2>3
  <2>6. F(n + 1) = a \o b
    BY <2>2
  <2> HIDE DEF F, a, b, Good
  <2> DEFINE z == a \o b
  <2>7. /\ Len(z) = 2 * n + 2
        /\ \A i \in 1..2 * n : z[i] = a[i]
        /\ z[2 * n + 1] = e[n + 1] /\ z[2 * n + 2] = "nl"
    <3>1. /\ Len(z) = Len(a) + Len(b)
          /\ \A i \in 1 .. Len(a) + Len(b) : z[i] = IF i <= Len(a) THEN a[i] ELSE b[i - Len(a)]
      <4>1. a \in Seq(Symbols) /\ b \in Seq(Symbols)
        BY <2>4, <2>5
      <4> QED BY <4>1, ConcatProperties
    <3>2. Len(a) = 2 * n /\ Len(b) = 2
      BY <2>4, <2>5
    <3> HIDE DEF z
    <3>3. Len(z) = 2 * n + 2 /\ \A i \in 1..2 * n : z[i] = a[i]
      BY <3>1, <3>2
    <3>4. ASSUME NEW i \in 1..2 PROVE z[2 * n + i] = b[i]
      <4> DEFINE p == 2 * n + i
      <4>1. p \in 1..Len(a) + Len(b) /\ ~(p <= Len(a)) /\ p - Len(a) = i
        BY <3>2
      <4> HIDE DEF p
      <4>2. z[p] = b[i]
        BY <3>1, <4>1
      <4> QED BY <4>2 DEF p
    <3> QED BY <2>4, <3>3, <3>4
  <2> HIDE DEF z
  <2>8. ASSUME NEW k \in 1..(n + 1)
        PROVE  z[2 * k - 1] = e[k] /\ z[2 * k] = "nl"
    <3>1. CASE k <= n
      <4>1. k \in 1..n /\ 2 * k - 1 \in 1..2 * n /\ 2 * k \in 1..2 * n
        BY <3>1
      <4> QED BY <4>1, <2>5, <2>7
    <3>2. CASE k = n + 1
      <4>1. 2 * k - 1 = 2 * n + 1 /\ 2 * k = 2 * n + 2
        BY <3>2
      <4> QED BY <4>1, <2>7, <3>2
    <3> QED BY <3>1, <3>2
  <2>9. 2 * (n + 1) = 2 * n + 2 /\ F(n + 1) = z
    BY <2>6 DEF z
  <2> QED BY <2>7, <2>8, <2>9
<1>5. Len(e) \in Good
  <2>1. Len(e) \in Nat
    BY <1>1
  <2> HIDE DEF Good
  <2> QED BY <1>3, <1>4, <2>1, SetInduction
<1>6. F(Len(e)) = Terminated(e)
  <2>1. SubSeq(t, 1, Len(e)) = t
    BY <1>1, SubSeqFull
  <2> QED BY <2>1 DEF Terminated, t, EventLines
<1>7. /\ Len(F(Len(e))) = 2 * Len(e)
      /\ \A k \in 1..Len(e) : F(Len(e))[2 * k - 1] = e[k] /\ F(Len(e))[2 * k] = "nl"
  <2>1. Len(e) <= Len(e)
    BY <1>1
  <2> HIDE DEF F
  <2> QED BY <1>5, <2>1
<1> HIDE DEF F
<1> QED BY <1>6, <1>7

\* so that there is no empty line among the lines of an event,
LEMMA NoBlankLineInside ==
    ASSUME NEW e \in Events, call.framing = "lf", NEW i \in 1..2 * Len(e) - 1
    PROVE  ~(Terminated(e)[i] = "nl" /\ Terminated(e)[i + 1] = "nl")
<1> DEFINE t == Terminated(e)
<1>1. Len(e) \in Nat \ {0} /\ \A k \in 1..Len(e) : e[k] # "nl"
  BY EventProperties
<1>2. \A k \in 1..Len(e) : t[2 * k - 1] = e[k]
  BY TerminatedLF
<1> HIDE DEF t
<1>3. \E k \in Nat : i = 2 * k \/ i = 2 * k - 1
  <2> DEFINE k == (i + 1) \div 2
  <2>1. k \in Nat /\ (i = 2 * k \/ i = 2 * k - 1)
    BY <1>1
  <2> QED BY <2>1
<1>4. PICK k \in Nat : i = 2 * k \/ i = 2 * k - 1
  BY <1>3
<1>5. CASE i = 2 * k - 1
  <2>1. k \in 1..Len(e)
    BY <1>1, <1>5
  <2> QED BY <1>1, <1>2, <1>5, <2>1 DEF t
<1>6. CASE i = 2 * k
  <2>1. k + 1 \in 1..Len(e) /\ i + 1 = 2 * (k + 1) - 1
    BY <1>1, <1>6
  <2>2. t[2 * (k + 1) - 1] = e[k + 1] /\ e[k + 1] # "nl"
    BY <1>1, <1>2, <2>1
  <2>3. t[i + 1] = e[k + 1]
    BY <2>1, <2>2
  <2> QED BY <2>2, <2>3 DEF t
<1> QED BY <1>4, <1>5, <1>6

\* a buffer with a whole event in front has its empty line behind the lines,
LEMMA WholeEventFound ==
    ASSUME NEW e \in Events, call.framing = "lf", NEW b \in Seq(Symbols),
           2 * Len(e) + 1 <= Len(b), b[2 * Len(e) + 1] = "nl",
           \A i \in 1..2 * Len(e) : b[i] = Terminated(e)[i]
    PROVE  FindBlankLine(b) = 2 * Len(e)
<1> DEFINE f == FindBlankLine(b)
           h == 2 * Len(e)
<1>1. Len(e) \in Nat \ {0} /\ Len(b) \in Nat
  BY EventProperties, LenProperties
<1>2. /\ f \in Nat
      /\ f # 0 => /\ f \in 1..(Len(b) - 1) /\ b[f] = "nl" /\ b[f + 1] = "nl"
                  /\ \A j \in 1..(f - 1) : ~(b[j] = "nl" /\ b[j + 1] = "nl")
      /\ f = 0 => \A j \in 1..(Len(b) - 1) : ~(b[j] = "nl" /\ b[j + 1] = "nl")
  BY BlankLineFound
<1>3. b[h] = "nl"
  <2>1. Terminated(e)[2 * Len(e)] = "nl"
    <3>1. Len(e) \in 1..Len(e)
      BY <1>1
    <3> QED BY <3>1, TerminatedLF
  <2>2. h \in 1..2 * Len(e)
    BY <1>1
  <2> QED BY <2>1, <2>2
<1>4. h \in Nat /\ h >= 2 /\ h + 1 <= Len(b) /\ b[h + 1] = "nl"
  BY <1>1
<1>5. \A i \in 1..h - 1 : ~(b[i] = "nl" /\ b[i + 1] = "nl")
  <2> SUFFICES ASSUME NEW i \in 1..h - 1 PROVE ~(b[i] = "nl" /\ b[i + 1] = "nl")
    OBVIOUS
  <2>1. i \in 1..2 * Len(e) /\ i + 1 \in 1..2 * Len(e) /\ i \in 1..2 * Len(e) - 1
    BY <1>1
  <2>2. b[i] = Terminated(e)[i] /\ b[i + 1] = Terminated(e)[i + 1]
    BY <2>1
  <2> QED BY <2>1, <2>2, NoBlankLineInside
<1> HIDE DEF f, h
<1>6. f # 0
  <2>1. h \in 1..(Len(b) - 1)
    BY <1>1, <1>4
  <2> QED BY <1>2, <1>3, <1>4, <2>1
<1>7. ~(h < f)
  <2> SUFFICES ASSUME h < f PROVE FALSE
    OBVIOUS
  <2>1. h \in 1..(f - 1)
    BY <1>2, <1>4
  <2> QED BY <1>2, <1>3, <1>4, <1>6, <2>1
<1>8. ~(f < h)
  <2> SUFFICES ASSUME f < h PROVE FALSE
    OBVIOUS
  <2>1. f \in 1..h - 1
    BY <1>2, <1>4, <1>6
  <2> QED BY <1>2, <1>5, <1>6, <2>1
<1>9. f = h
  BY <1>2, <1>4, <1>7, <1>8
<1> QED BY <1>9 DEF f, h

\* and one with less than that has none.
LEMMA PartOfEventNotFound ==
    ASSUME NEW e \in Events, call.framing = "lf", NEW b \in Seq(Symbols),
           Len(b) <= 2 * Len(e), \A i \in 1..Len(b) : b[i] = Terminated(e)[i]
    PROVE  FindBlankLine(b) = 0
<1>1. Len(e) \in Nat /\ Len(b) \in Nat
  BY EventProperties, LenProperties
<1> DEFINE f == FindBlankLine(b)
<1>2. f # 0 => f \in 1..(Len(b) - 1) /\ b[f] = "nl" /\ b[f + 1] = "nl"
  BY BlankLineFound
<1> HIDE DEF f
<1>3. ASSUME f # 0 PROVE FALSE
  <2>1. f \in 1..Len(b) /\ f + 1 \in 1..Len(b) /\ f \in 1..2 * Len(e) - 1
    BY <1>1, <1>2, <1>3
  <2>2. Terminated(e)[f] = "nl" /\ Terminated(e)[f + 1] = "nl"
    BY <1>2, <1>3, <2>1
  <2> QED BY <2>1, <2>2, NoBlankLineInside
<1> QED BY <1>3 DEF f

Kept == [i \in 1..Len(upstream) |-> IF Injected(upstream[i]) THEN <<>> ELSE SentBytes(i)]

\* The pieces the client is given.
LEMMA KeptType ==
    ASSUME UpstreamFits
    PROVE  /\ Kept \in Seq(Seq(Symbols)) /\ Len(Kept) = Len(upstream)
           /\ \A i \in 1..Len(upstream) :
                Kept[i] = IF Injected(upstream[i]) THEN <<>> ELSE SentBytes(i)
           /\ Visible = FlattenSeq(Kept)
<1>1. Len(upstream) \in Nat /\ \A i \in 1..Len(upstream) : SentBytes(i) \in Seq(Symbols)
  BY PieceType
<1>2. \A i \in 1..Len(upstream) : Kept[i] = IF Injected(upstream[i]) THEN <<>> ELSE SentBytes(i)
  BY DEF Kept
<1>3. <<>> \in Seq(Symbols)
  BY EmptySeq
<1>4. \A i \in 1..Len(upstream) : Kept[i] \in Seq(Symbols)
  BY <1>1, <1>2, <1>3
<1>5. Kept \in Seq(Seq(Symbols)) /\ Len(Kept) = Len(upstream)
  BY <1>1, <1>4 DEF Kept
<1> QED BY <1>2, <1>5 DEF Visible, Kept

\* Whether the empty line after event i is sent.
Finished(i) == ~(call.unfinished /\ i = Len(upstream))

\* The bytes sent of an event: its lines and, if finished, the empty line.
LEMMA PieceLF ==
    ASSUME UpstreamFits, call.framing = "lf", NEW i \in 1..Len(upstream)
    PROVE  /\ Len(SentBytes(i)) = 2 * Len(upstream[i]) + (IF Finished(i) THEN 1 ELSE 0)
           /\ Finished(i) => SentBytes(i)[2 * Len(upstream[i]) + 1] = "nl"
           /\ \A k \in 1..2 * Len(upstream[i]) : SentBytes(i)[k] = Terminated(upstream[i])[k]
<1> DEFINE e == upstream[i]
           t == Terminated(e)
           l == IF Finished(i) THEN <<"nl">> ELSE <<>>
           z == SentBytes(i)
           h == 2 * Len(e)
<1>1. e \in Events
  BY PieceType
<1>2. Len(t) = h /\ t \in Seq(Symbols) /\ h \in Nat
  BY <1>1, TerminatedLF, TerminatedType, EventProperties
<1>3. l \in Seq(Symbols) /\ Len(l) = (IF Finished(i) THEN 1 ELSE 0) /\ (Finished(i) => l[1] = "nl")
  <2>1. "nl" \in Symbols
    BY DEF Symbols
  <2>2. <<"nl">> \in Seq(Symbols) /\ Len(<<"nl">>) = 1 /\ (<<"nl">>)[1] = "nl"
    BY <2>1
  <2>3. <<>> \in Seq(Symbols) /\ Len(<<>>) = 0
    BY EmptySeq
  <2> QED BY <2>2, <2>3
<1>4. z = t \o l
  BY DEF SentBytes, LineEnd, Finished
<1> HIDE DEF e, t, l, z, h
<1>5. Len(z) = Len(t) + Len(l)
      /\ \A k \in 1 .. Len(t) + Len(l) : z[k] = IF k <= Len(t) THEN t[k] ELSE l[k - Len(t)]
  <2>1. t \in Seq(Symbols) /\ l \in Seq(Symbols)
    BY <1>2, <1>3
  <2> QED BY <1>4, <2>1, ConcatProperties
<1>6. Len(z) = h + (IF Finished(i) THEN 1 ELSE 0)
  BY <1>2, <1>3, <1>5
<1>7. \A k \in 1..h : z[k] = t[k]
  BY <1>2, <1>3, <1>5
<1>8. ASSUME Finished(i) PROVE z[h + 1] = "nl"
  <2> DEFINE p == h + 1
  <2>1. p \in 1..Len(t) + Len(l) /\ ~(p <= Len(t)) /\ p - Len(t) = 1
    BY <1>2, <1>3, <1>8
  <2> HIDE DEF p
  <2>2. z[p] = l[1]
    BY <1>5, <2>1
  <2> QED BY <1>3, <1>8, <2>2 DEF p
<1> QED BY <1>6, <1>7, <1>8 DEF h, z, t, e

\* Length of the first j pieces.
Offset(j) == Len(FlattenSeq(SubSeq(Pieces, 1, j)))

\* Piece j + 1 is where the first j pieces end.
LEMMA OffsetStep ==
    ASSUME UpstreamFits, NEW j \in 0..(Len(upstream) - 1)
    PROVE  /\ Offset(j) \in Nat
           /\ Len(SentBytes(j + 1)) \in Nat
           /\ Offset(j + 1) = Offset(j) + Len(SentBytes(j + 1))
           /\ Offset(j + 1) <= Len(Body)
           /\ \A i \in 1..Len(SentBytes(j + 1)) : Body[Offset(j) + i] = SentBytes(j + 1)[i]
<1> DEFINE a == FlattenSeq(SubSeq(Pieces, 1, j))
           b == SentBytes(j + 1)
           x == FlattenSeq(SubSeq(Pieces, 1, j + 1))
           d == FlattenSeq(SubSeq(Pieces, j + 1 + 1, Len(Pieces)))
<1>1. /\ Pieces \in Seq(Seq(Symbols)) /\ Len(Pieces) = Len(upstream) /\ Len(upstream) \in Nat
      /\ Body = FlattenSeq(Pieces)
  BY PieceType
<1>2. j + 1 \in 1..Len(upstream) /\ j + 1 \in 0..Len(Pieces) /\ j \in 0..(Len(Pieces) - 1)
  BY <1>1
<1>3. Pieces[j + 1] = b /\ b \in Seq(Symbols)
  BY <1>2, PieceType
<1>4. a \in Seq(Symbols) /\ x = a \o b
  <2> HIDE DEF b
  <2> QED BY <1>1, <1>2, <1>3, FlattenStep
<1>5. x \in Seq(Symbols) /\ d \in Seq(Symbols) /\ Body = x \o d
  <2> DEFINE p == j + 1
  <2>1. p \in 0..Len(Pieces)
    BY <1>2
  <2> HIDE DEF p
  <2>2. /\ FlattenSeq(SubSeq(Pieces, 1, p)) \in Seq(Symbols)
        /\ FlattenSeq(SubSeq(Pieces, p + 1, Len(Pieces))) \in Seq(Symbols)
        /\ Body = FlattenSeq(SubSeq(Pieces, 1, p)) \o FlattenSeq(SubSeq(Pieces, p + 1, Len(Pieces)))
    BY <1>1, <2>1, FlattenCut
  <2> QED BY <2>2 DEF p
<1>6. Offset(j) = Len(a) /\ Offset(j + 1) = Len(x)
  BY DEF Offset
<1> HIDE DEF a, b, x, d
<1>7. /\ Len(x) = Len(a) + Len(b)
      /\ \A i \in 1 .. Len(a) + Len(b) : x[i] = IF i <= Len(a) THEN a[i] ELSE b[i - Len(a)]
  BY <1>3, <1>4, ConcatProperties
<1>8. /\ Len(Body) = Len(x) + Len(d)
      /\ \A i \in 1 .. Len(x) + Len(d) : Body[i] = IF i <= Len(x) THEN x[i] ELSE d[i - Len(x)]
  BY <1>5, ConcatProperties
<1>9. Len(a) \in Nat /\ Len(b) \in Nat /\ Len(d) \in Nat
  BY <1>3, <1>4, <1>5, LenProperties
<1>10. ASSUME NEW i \in 1..Len(b) PROVE Body[Len(a) + i] = b[i]
  <2> DEFINE p == Len(a) + i
  <2>1. p \in 1..Len(a) + Len(b) /\ ~(p <= Len(a)) /\ p - Len(a) = i
        /\ p \in 1..Len(x) + Len(d) /\ p <= Len(x)
    <3>1. Len(x) = Len(a) + Len(b)
      BY <1>7
    <3> QED BY <1>9, <3>1
  <2> HIDE DEF p
  <2>2. Body[p] = x[p] /\ x[p] = b[i]
    BY <1>7, <1>8, <2>1
  <2> QED BY <2>2 DEF p
<1>11. Len(x) <= Len(Body)
  BY <1>7, <1>8, <1>9
<1>12. Len(x) = Len(a) + Len(b)
  BY <1>7
<1> QED BY <1>6, <1>9, <1>10, <1>11, <1>12 DEF b

\* The first and the last offset.
LEMMA OffsetEnds ==
    ASSUME UpstreamFits
    PROVE  Offset(0) = 0 /\ Offset(Len(upstream)) = Len(Body)
<1>1. Pieces \in Seq(Seq(Symbols)) /\ Len(Pieces) = Len(upstream) /\ Body = FlattenSeq(Pieces)
  BY PieceType
<1>2. SubSeq(Pieces, 1, Len(upstream)) = Pieces
  BY <1>1, SubSeqFull
<1>3. SubSeq(Pieces, 1, 0) = <<>>
  BY SubSeqEmpty
<1> QED BY <1>1, <1>2, <1>3, FlattenEmpty, EmptySeq DEF Offset

\* One more event is one more piece for the client, or none.
LEMMA KeptStep ==
    ASSUME UpstreamFits, NEW j \in 0..(Len(upstream) - 1)
    PROVE  FlattenSeq(SubSeq(Kept, 1, j + 1)) =
             FlattenSeq(SubSeq(Kept, 1, j)) \o Kept[j + 1]
<1>1. Kept \in Seq(Seq(Symbols)) /\ Len(Kept) = Len(upstream)
  BY KeptType
<1>2. j \in 0..(Len(Kept) - 1)
  BY <1>1
<1> QED BY <1>1, <1>2, FlattenStep

\* A piece has a line with usage and no choices if its event has.
LEMMA HidesEvent ==
    ASSUME UpstreamFits, call.framing = "lf", NEW i \in 1..Len(upstream)
    PROVE  Hides(SentBytes(i)) <=> Injected(upstream[i])
<1> DEFINE e == upstream[i]
           z == SentBytes(i)
<1>1. e \in Events /\ Len(e) \in Nat \ {0}
  BY PieceType, EventProperties
<1>2. \A k \in 1..Len(e) : Terminated(e)[2 * k - 1] = e[k] /\ Terminated(e)[2 * k] = "nl"
  BY <1>1, TerminatedLF
<1>3. /\ Len(z) = 2 * Len(e) + (IF Finished(i) THEN 1 ELSE 0)
      /\ Finished(i) => z[2 * Len(e) + 1] = "nl"
      /\ \A k \in 1..2 * Len(e) : z[k] = Terminated(e)[k]
  BY PieceLF
<1> HIDE DEF e, z
<1>4. "nl" \notin UsageOnly
  BY DEF UsageOnly
<1>5. ASSUME NEW k \in 1..Len(e), e[k] \in UsageOnly
      PROVE  \E m \in 1..Len(z) : z[m] \in UsageOnly
  <2> DEFINE m == 2 * k - 1
  <2>1. m \in 1..2 * Len(e)
    BY <1>1
  <2>2. m \in 1..Len(z)
    BY <1>1, <1>3, <2>1
  <2>3. z[m] = e[k]
    BY <1>2, <1>3, <2>1
  <2> HIDE DEF m
  <2> QED BY <1>5, <2>2, <2>3
<1>6. ASSUME NEW m \in 1..Len(z), z[m] \in UsageOnly
      PROVE  \E k \in 1..Len(e) : e[k] \in UsageOnly
  <2>1. m \in 1..2 * Len(e)
    <3>1. CASE Finished(i)
      BY <1>1, <1>3, <1>4, <1>6, <3>1
    <3>2. CASE ~Finished(i)
      BY <1>1, <1>3, <3>2
    <3> QED BY <3>1, <3>2
  <2> DEFINE k == (m + 1) \div 2
  <2>2. k \in 1..Len(e) /\ (m = 2 * k \/ m = 2 * k - 1)
    BY <1>1, <2>1
  <2> HIDE DEF k
  <2>3. z[m] = Terminated(e)[m]
    BY <1>3, <2>1
  <2>4. m # 2 * k
    BY <1>2, <1>4, <1>6, <2>2, <2>3
  <2>5. z[m] = e[k]
    BY <1>2, <2>2, <2>3, <2>4
  <2> QED BY <1>6, <2>2, <2>5
<1>7. Hides(z) <=> ~ClientRequestedUsage(call) /\ \E m \in 1..Len(z) : z[m] \in UsageOnly
  BY DEF Hides
<1>8. Injected(e) <=> ~ClientRequestedUsage(call) /\ \E k \in 1..Len(e) : e[k] \in UsageOnly
  BY DEF Injected
<1> QED BY <1>5, <1>6, <1>7, <1>8 DEF e, z

\* Symbol i of the buffer is a symbol of the body.
LEMMA BufferAt ==
    ASSUME BufferInv, phase \in Open, NEW i \in 1..Len(buf)
    PROVE  buf[i] = Body[received - Len(buf) + i]
<1> DEFINE lo == received - Len(buf) + 1
<1>1. /\ Body \in Seq(Symbols) /\ Len(Body) \in Nat
      /\ Len(buf) \in Nat /\ received \in Nat /\ received <= Len(Body)
      /\ Len(buf) <= received /\ buf = SubSeq(Body, lo, received)
  BY PieceType, LenProperties DEF BufferInv
<1>2. lo \in Int /\ received \in Int /\ lo \in Nat /\ lo >= 1
      /\ received - lo + 1 = Len(buf) /\ lo + i - 1 = received - Len(buf) + i
  BY <1>1
<1> HIDE DEF lo
<1>3. \A k \in lo..received : Body[k] \in Symbols
  BY <1>1, <1>2, ElementOfSeq
<1>4. \A k \in 1..received - lo + 1 : SubSeq(Body, lo, received)[k] = Body[lo + k - 1]
  BY <1>2, <1>3, SubSeqProperties
<1>5. SubSeq(Body, lo, received)[i] = Body[lo + i - 1]
  BY <1>2, <1>4
<1> QED BY <1>1, <1>2, <1>5

\* The heart of the matter: if the buffer starts where an event starts, then the
\* empty line found is the end of that very event, and at the end of the body an
\* event without its empty line is all that can be left.
LEMMA EventAhead ==
    ASSUME BufferInv, phase \in Open, call.framing = "lf",
           NEW j \in 0..Len(upstream), received - Len(buf) = Offset(j)
    PROVE  /\ FindBlankLine(buf) # 0 =>
                /\ j \in 0..(Len(upstream) - 1)
                /\ FindBlankLine(buf) + 1 = Len(SentBytes(j + 1))
                /\ SubSeq(buf, 1, FindBlankLine(buf) + 1) = SentBytes(j + 1)
           /\ FindBlankLine(buf) = 0 /\ received = Len(Body) =>
                \/ j = Len(upstream) /\ buf = <<>>
                \/ j \in 0..(Len(upstream) - 1) /\ j + 1 = Len(upstream) /\ buf = SentBytes(j + 1)
<1>1. /\ UpstreamFits /\ Len(upstream) \in Nat \ {0}
      /\ Body \in Seq(Symbols) /\ Len(Body) \in Nat
      /\ buf \in Seq(Symbols) /\ Len(buf) \in Nat
      /\ received \in Nat /\ received <= Len(Body) /\ Len(buf) <= received
  BY PieceType, LenProperties DEF BufferInv
<1>2. CASE j = Len(upstream)
  <2>1. Len(buf) = 0
    <3>1. Offset(j) = Len(Body)
      BY <1>1, <1>2, OffsetEnds
    <3> QED BY <1>1, <3>1
  <2>2. buf = <<>>
    BY <1>1, <2>1, EmptySeq
  <2>3. FindBlankLine(buf) = 0
    <3>1. FindBlankLine(buf) # 0 => FindBlankLine(buf) \in 1..(Len(buf) - 1)
      BY <1>1, BlankLineFound
    <3> QED BY <2>1, <3>1
  <2> QED BY <1>2, <2>2, <2>3
<1>3. CASE j # Len(upstream)
  <2> DEFINE e == upstream[j + 1]
             z == SentBytes(j + 1)
             h == 2 * Len(e)
             c == received - Len(buf)
  <2>1. j \in 0..(Len(upstream) - 1) /\ j + 1 \in 1..Len(upstream)
    BY <1>1, <1>3
  <2>2. e \in Events /\ Len(e) \in Nat \ {0} /\ z \in Seq(Symbols)
    BY <1>1, <2>1, PieceType, EventProperties
  <2>3. /\ Len(z) = h + (IF Finished(j + 1) THEN 1 ELSE 0)
        /\ Finished(j + 1) => z[h + 1] = "nl"
        /\ \A k \in 1..h : z[k] = Terminated(e)[k]
    BY <1>1, <2>1, PieceLF
  <2>4. /\ Len(z) \in Nat /\ Offset(j + 1) = c + Len(z) /\ Offset(j + 1) <= Len(Body)
        /\ \A i \in 1..Len(z) : Body[c + i] = z[i]
    <3>1. /\ Len(z) \in Nat /\ Offset(j + 1) = Offset(j) + Len(z) /\ Offset(j + 1) <= Len(Body)
          /\ \A i \in 1..Len(z) : Body[Offset(j) + i] = z[i]
      BY <1>1, <2>1, OffsetStep
    <3> HIDE DEF z
    <3> QED BY <3>1
  <2>5. \A i \in 1..Len(buf) : buf[i] = Body[c + i]
    BY BufferAt
  <2>6. c \in Nat /\ received = c + Len(buf)
    BY <1>1
  <2>7. ~Finished(j + 1) => Offset(j + 1) = Len(Body) /\ j + 1 = Len(upstream)
    BY <1>1, OffsetEnds DEF Finished
  <2>8. h \in Nat /\ h >= 2
    BY <2>2
  <2> HIDE DEF e, z, h, c
  <2>9. \A i \in 1..Len(buf) : i <= Len(z) => buf[i] = z[i]
    BY <1>1, <2>4, <2>5
  <2>10. CASE Finished(j + 1) /\ h + 1 <= Len(buf)
    <3>1. Len(z) = h + 1 /\ z[h + 1] = "nl"
      BY <2>3, <2>10
    <3>2. buf[h + 1] = "nl"
      <4>1. h + 1 \in 1..Len(buf) /\ h + 1 <= Len(z)
        BY <1>1, <2>8, <2>10, <3>1
      <4> QED BY <2>9, <3>1, <4>1
    <3>3. \A i \in 1..h : buf[i] = Terminated(e)[i]
      <4> SUFFICES ASSUME NEW i \in 1..h PROVE buf[i] = Terminated(e)[i]
        OBVIOUS
      <4>1. i \in 1..Len(buf) /\ i <= Len(z)
        BY <1>1, <2>8, <2>10, <3>1
      <4> QED BY <2>3, <2>9, <4>1
    <3>4. FindBlankLine(buf) = h
      BY <1>1, <2>2, <2>10, <3>2, <3>3, WholeEventFound DEF h
    <3>5. SubSeq(buf, 1, h + 1) = z
      <4> DEFINE p == h + 1
      <4>1. p \in 0..Len(buf) /\ p = Len(z)
        BY <1>1, <2>8, <2>10, <3>1
      <4> HIDE DEF p
      <4>2. /\ SubSeq(buf, 1, p) \in Seq(Symbols) /\ Len(SubSeq(buf, 1, p)) = p
            /\ \A i \in 1..p : SubSeq(buf, 1, p)[i] = buf[i]
        BY <1>1, <4>1, SubSeqType
      <4>3. \A i \in 1..p : SubSeq(buf, 1, p)[i] = z[i]
        BY <1>1, <2>9, <4>1, <4>2
      <4>4. SubSeq(buf, 1, p) = z
        BY <2>2, <4>1, <4>2, <4>3, SeqEqual DEF z
      <4> QED BY <4>4 DEF p
    <3>6. FindBlankLine(buf) # 0
      BY <2>8, <3>4
    <3> QED BY <2>1, <3>1, <3>4, <3>5, <3>6 DEF z
  <2>11. CASE ~(Finished(j + 1) /\ h + 1 <= Len(buf))
    <3>1. Len(buf) <= h
      <4>1. CASE Finished(j + 1)
        BY <1>1, <2>8, <2>11, <4>1
      <4>2. CASE ~Finished(j + 1)
        <5>1. Len(z) = h /\ c + Len(z) = Len(Body)
          BY <2>3, <2>4, <2>7, <2>8, <4>2
        <5> QED BY <1>1, <2>6, <2>8, <5>1
      <4> QED BY <4>1, <4>2
    <3>2. \A i \in 1..Len(buf) : buf[i] = Terminated(e)[i]
      <4> SUFFICES ASSUME NEW i \in 1..Len(buf) PROVE buf[i] = Terminated(e)[i]
        OBVIOUS
      <4>1. i \in 1..h /\ i <= Len(z)
        BY <1>1, <2>3, <2>8, <3>1
      <4> QED BY <2>3, <2>9, <4>1
    <3>3. FindBlankLine(buf) = 0
      BY <1>1, <2>2, <3>1, <3>2, PartOfEventNotFound DEF h
    <3>4. ASSUME received = Len(Body)
          PROVE  j + 1 = Len(upstream) /\ buf = z
      <4>1. Len(z) <= Len(buf)
        BY <1>1, <2>4, <2>6, <3>4
      <4>2. ~Finished(j + 1)
        BY <1>1, <2>3, <2>8, <3>1, <4>1
      <4>3. Len(z) = h /\ Len(buf) = Len(z)
        BY <1>1, <2>3, <2>8, <3>1, <4>1, <4>2
      <4>4. \A i \in 1..Len(buf) : buf[i] = z[i]
        BY <1>1, <2>9, <4>3
      <4>5. z \in Seq(Symbols) /\ buf \in Seq(Symbols)
        BY <1>1, <2>2 DEF z
      <4>6. buf = z
        BY <4>3, <4>4, <4>5, SeqEqual
      <4> QED BY <2>7, <4>2, <4>6
    <3> QED BY <2>1, <3>3, <3>4 DEF z
  <2> QED BY <2>10, <2>11
<1> QED BY <1>2, <1>3

RelayedTo(j) ==
    /\ delivered = FlattenSeq(SubSeq(Kept, 1, j))
    /\ phase \in Open => received - Len(buf) = Offset(j)
    /\ phase = "reading" => FindBlankLine(buf) = 0
    /\ phase \in Closing \/ status = "success" => j = Len(upstream)

RelayInv == call.framing = "lf" => \E j \in 0..Len(upstream) : RelayedTo(j)

\* Pieces handed over in their order are a prefix of what should be seen.
LEMMA RelayEnough ==
    ASSUME BufferInv, RelayInv
    PROVE  RelayExact
<1> SUFFICES ASSUME call.framing = "lf" PROVE OnlyUsageStripped
  BY DEF RelayExact
<1>1. UpstreamFits /\ Len(upstream) \in Nat
  BY PieceType DEF BufferInv
<1>2. PICK j \in 0..Len(upstream) : RelayedTo(j)
  BY DEF RelayInv
<1>3. Kept \in Seq(Seq(Symbols)) /\ Len(Kept) = Len(upstream) /\ Visible = FlattenSeq(Kept)
  BY <1>1, KeptType
<1> DEFINE a == FlattenSeq(SubSeq(Kept, 1, j))
           b == FlattenSeq(SubSeq(Kept, j + 1, Len(Kept)))
<1>4. a \in Seq(Symbols) /\ b \in Seq(Symbols) /\ Visible = a \o b
  BY <1>3, FlattenCut
<1>5. delivered = a
  BY <1>2 DEF RelayedTo
<1>6. status = "success" => delivered = Visible
  <2>1. SubSeq(Kept, 1, Len(upstream)) = Kept
    BY <1>3, SubSeqFull
  <2> QED BY <1>2, <1>3, <2>1 DEF RelayedTo
<1> HIDE DEF a, b
<1>7. IsPrefix(delivered, Visible)
  BY <1>4, <1>5, PrefixOfConcat
<1> QED BY <1>6, <1>7 DEF OnlyUsageStripped

\* The pieces the client is given do not change,
LEMMA SteadyKept ==
    ASSUME Steady
    PROVE  Kept' = Kept
BY DEF Steady, Kept, Injected, ClientRequestedUsage, SentBytes, Terminated

\* and process_event hands over one more of them.
LEMMA PieceProcessed ==
    ASSUME UpstreamFits, call.framing = "lf", NEW j \in 0..(Len(upstream) - 1), NEW next,
           delivered = FlattenSeq(SubSeq(Kept, 1, j)), Process(SentBytes(j + 1), next)
    PROVE  delivered' = FlattenSeq(SubSeq(Kept, 1, j + 1))
<1> DEFINE z == SentBytes(j + 1)
           a == FlattenSeq(SubSeq(Kept, 1, j))
           x == FlattenSeq(SubSeq(Kept, 1, j + 1))
<1>1. Len(upstream) \in Nat /\ j + 1 \in 1..Len(upstream)
  BY PieceType
<1>2. Kept \in Seq(Seq(Symbols)) /\ Len(Kept) = Len(upstream)
      /\ Kept[j + 1] = IF Injected(upstream[j + 1]) THEN <<>> ELSE z
  BY <1>1, KeptType
<1>3. a \in Seq(Symbols)
  <2>1. j \in 0..Len(Kept)
    BY <1>1, <1>2
  <2> QED BY <1>2, <2>1, FlattenType
<1>4. x = a \o Kept[j + 1]
  BY KeptStep
<1>5. Hides(z) <=> Injected(upstream[j + 1])
  BY <1>1, HidesEvent
<1>6. delivered' = IF Hides(z) THEN delivered ELSE delivered \o z
  BY DEF Process
<1> HIDE DEF z, a, x
<1>7. delivered = a
  BY DEF a
<1>8. a \o <<>> = a
  BY <1>3, ConcatEmptySeq
<1> QED BY <1>2, <1>4, <1>5, <1>6, <1>7, <1>8 DEF x

\* The relay at the start,
LEMMA InitRelay == Init => RelayInv
<1> SUFFICES ASSUME Init PROVE RelayedTo(0) /\ Len(upstream) \in Nat
  BY DEF RelayInv
<1>1. UpstreamFits
  BY UpstreamsFit
<1>2. Len(upstream) \in Nat /\ Offset(0) = 0
  BY <1>1, PieceType, OffsetEnds
<1>3. SubSeq(Kept, 1, 0) = <<>>
  BY SubSeqEmpty
<1>4. /\ delivered = <<>> /\ received = 0 /\ buf = <<>> /\ Len(buf) = 0
      /\ phase = "reading" /\ status = "pending"
  BY EmptySeq DEF Init
<1>5. FindBlankLine(buf) = 0
  <2>1. buf \in Seq(Symbols)
    BY <1>4, EmptySeq
  <2>2. FindBlankLine(buf) # 0 => FindBlankLine(buf) \in 1..(Len(buf) - 1)
    BY <2>1, BlankLineFound
  <2> QED BY <1>4, <2>2
<1>6. received - Len(buf) = Offset(0) /\ phase \notin Closing /\ status # "success"
  BY <1>2, <1>4 DEF Closing
<1>7. delivered = FlattenSeq(SubSeq(Kept, 1, 0))
  BY <1>3, <1>4, FlattenEmpty
<1> QED BY <1>2, <1>5, <1>6, <1>7 DEF RelayedTo

\* and after each step.
LEMMA NextRelay ==
    ASSUME BufferInv, RelayInv, [Next]_vars
    PROVE  RelayInv'
<1> SUFFICES ASSUME call'.framing = "lf"
             PROVE  (\E j \in 0..Len(upstream) : RelayedTo(j))'
  BY DEF RelayInv
<1>1. Steady
  BY NextSteady DEF Steady, vars
<1>2. Body' = Body /\ Pieces' = Pieces /\ Kept' = Kept /\ upstream' = upstream
      /\ call.framing = "lf"
  BY <1>1, SteadyBody, SteadyKept DEF Steady
<1>3. PICK j \in 0..Len(upstream) : RelayedTo(j)
  BY <1>2 DEF RelayInv
<1>4. /\ UpstreamFits /\ Len(upstream) \in Nat \ {0} /\ Len(Body) \in Nat
      /\ buf \in Seq(Symbols) /\ Len(buf) \in Nat /\ received \in Nat
  BY PieceType, LenProperties DEF BufferInv
<1>5. ASSUME NEW d \in 0..Len(upstream),
             delivered' = FlattenSeq(SubSeq(Kept, 1, d)),
             phase' \in Open => received' - Len(buf') = Offset(d),
             phase' = "reading" => FindBlankLine(buf') = 0,
             phase' \in Closing \/ status' = "success" => d = Len(upstream)
      PROVE  (\E k \in 0..Len(upstream) : RelayedTo(k))'
  <2>1. Offset(d)' = Offset(d)
    BY <1>2 DEF Offset
  <2>2. RelayedTo(d)'
    BY <1>2, <1>5, <2>1 DEF RelayedTo
  <2> QED BY <1>2, <2>2
<1>6. /\ delivered = FlattenSeq(SubSeq(Kept, 1, j))
      /\ phase \in Open => received - Len(buf) = Offset(j)
      /\ phase = "reading" => FindBlankLine(buf) = 0
      /\ phase \in Closing \/ status = "success" => j = Len(upstream)
  BY <1>3 DEF RelayedTo
<1>7. CASE UNCHANGED vars
  BY <1>5, <1>6, <1>7 DEF vars
<1>8. CASE ReadChunk
  <2>1. received' - Len(buf') = received - Len(buf)
    BY <1>8, ReadKeeps
  <2>2. phase = "reading" /\ phase' = "splitting" /\ UNCHANGED <<status, delivered>>
    BY <1>8 DEF ReadChunk
  <2>3. phase \in Open /\ phase' \notin Closing /\ status' # "success"
    BY <2>2 DEF BufferInv, Open, Closing
  <2> QED BY <1>5, <1>6, <2>1, <2>2, <2>3
<1>9. CASE TakeEvent
  <2> DEFINE end == FindBlankLine(buf) + 1
  <2>1. phase \in Open /\ phase = "splitting" /\ FindBlankLine(buf) # 0
    BY <1>9 DEF TakeEvent, Open
  <2>2. /\ j \in 0..(Len(upstream) - 1)
        /\ end = Len(SentBytes(j + 1))
        /\ SubSeq(buf, 1, end) = SentBytes(j + 1)
    BY <1>2, <1>6, <2>1, EventAhead
  <2>3. end \in 1..Len(buf)
    <3>1. FindBlankLine(buf) \in 1..(Len(buf) - 1)
      BY <1>4, <2>1, BlankLineFound
    <3> QED BY <1>4, <3>1
  <2>4. Process(SubSeq(buf, 1, end), "splitting")
        /\ buf' = SubSeq(buf, end + 1, Len(buf)) /\ UNCHANGED <<received, status>>
    BY <1>9 DEF TakeEvent
  <2> HIDE DEF end
  <2>5. Len(buf') = Len(buf) - end
    BY <2>1, <2>3, <2>4, BufferTaken
  <2>6. Offset(j + 1) = Offset(j) + end /\ Offset(j) \in Nat
    BY <1>4, <2>2, OffsetStep
  <2>7. received' - Len(buf') = Offset(j + 1)
    <3>1. received - Len(buf) = Offset(j) /\ received' = received
      BY <1>6, <2>1, <2>4
    <3> QED BY <1>4, <2>3, <2>5, <2>6, <3>1
  <2>8. delivered' = FlattenSeq(SubSeq(Kept, 1, j + 1))
    BY <1>2, <1>4, <1>6, <2>2, <2>4, PieceProcessed
  <2>9. phase' \in {"splitting", "yield_splitting"}
    BY <2>4, ProcessPhase
  <2>10. phase' # "reading" /\ phase' \notin Closing /\ status' # "success"
    BY <2>1, <2>4, <2>9 DEF BufferInv, Closing
  <2>11. j + 1 \in 0..Len(upstream)
    BY <1>4, <2>2
  <2> QED BY <1>5, <2>7, <2>8, <2>10, <2>11
<1>10. CASE NeedMore
  <2>1. phase = "splitting" /\ phase' = "reading" /\ UNCHANGED <<received, buf, status, delivered>>
        /\ FindBlankLine(buf) = 0
    BY <1>10 DEF NeedMore
  <2>2. phase \in Open /\ phase' \notin Closing /\ status' # "success"
    BY <2>1 DEF BufferInv, Open, Closing
  <2> QED BY <1>5, <1>6, <2>1, <2>2
<1>11. CASE Resume
  <2>1. UNCHANGED <<received, buf, status, delivered>>
        /\ phase' \in {"splitting", "succeeding"}
        /\ (phase' \in Open => phase \in Open) /\ (phase' \in Closing => phase \in Closing)
    BY <1>11 DEF Resume, Open, Closing
  <2> QED BY <1>5, <1>6, <2>1
<1>12. CASE EndOfBody
  <2>1. phase = "reading" /\ phase \in Open /\ received = Len(Body)
    BY <1>12 DEF EndOfBody, Open
  <2>2. \/ j = Len(upstream) /\ buf = <<>>
        \/ j \in 0..(Len(upstream) - 1) /\ j + 1 = Len(upstream) /\ buf = SentBytes(j + 1)
    BY <1>2, <1>6, <2>1, EventAhead
  <2>3. phase' \in Closing
    BY <1>12, ProcessPhase DEF EndOfBody, Closing
  <2>4. phase' \notin Open /\ phase' # "reading"
    BY <2>3 DEF Open, Closing
  <2>5. CASE j = Len(upstream) /\ buf = <<>>
    <3>1. delivered' = delivered
      BY <1>12, <2>5 DEF EndOfBody
    <3> QED BY <1>5, <1>6, <2>4, <2>5, <3>1
  <2>6. CASE j \in 0..(Len(upstream) - 1) /\ j + 1 = Len(upstream) /\ buf = SentBytes(j + 1)
    <3>1. buf # <<>>
      <4> DEFINE i == j + 1
      <4>1. i \in 1..Len(upstream)
        BY <1>4, <2>6
      <4> HIDE DEF i
      <4>2. Len(SentBytes(i)) = 2 * Len(upstream[i]) + (IF Finished(i) THEN 1 ELSE 0)
        BY <1>2, <1>4, <4>1, PieceLF
      <4>3. Len(upstream[i]) \in Nat \ {0}
        BY <1>4, <4>1, PieceType, EventProperties
      <4>4. Len(SentBytes(i)) # 0
        <5> DEFINE m == Len(upstream[i])
                   f == IF Finished(i) THEN 1 ELSE 0
        <5>1. m \in Nat \ {0} /\ f \in Nat /\ Len(SentBytes(i)) = 2 * m + f
          BY <4>2, <4>3
        <5> HIDE DEF m, f
        <5> QED BY <5>1
      <4>5. Len(buf) # 0
        BY <2>6, <4>4 DEF i
      <4> QED BY <4>5, EmptySeq
    <3>2. Process(SentBytes(j + 1), "succeeding")
      BY <1>12, <2>6, <3>1 DEF EndOfBody
    <3>3. delivered' = FlattenSeq(SubSeq(Kept, 1, j + 1))
      BY <1>2, <1>4, <1>6, <2>6, <3>2, PieceProcessed
    <3>4. j + 1 \in 0..Len(upstream)
      BY <1>4, <2>6
    <3> QED BY <1>5, <2>4, <2>6, <3>3, <3>4
  <2> QED BY <2>2, <2>5, <2>6
<1>13. CASE Succeed \/ Break \/ Dropped
  <2>1. delivered' = delivered /\ phase' = "over" /\ (status' = "success" => phase \in Closing)
    BY <1>13 DEF Succeed, Break, Dropped, Closing
  <2>2. phase' \notin Open /\ phase' \notin Closing /\ phase' # "reading"
    BY <2>1 DEF Open, Closing
  <2> QED BY <1>5, <1>6, <2>1, <2>2
<1> QED BY <1>7, <1>8, <1>9, <1>10, <1>11, <1>12, <1>13 DEF Next

\* The client gets the bytes of every event but the usage chunk the proxy asked
\* for, wherever the chunks are cut: RelayExact for every size of the chunks and
\* every number of words (stream_body, proxy/app.py:654-691).
THEOREM RelaysExactly == Spec => []RelayExact
<1>1. Init => BufferInv /\ RelayInv
  BY InitBuffer, InitRelay
<1>2. BufferInv /\ RelayInv /\ [Next]_vars => BufferInv' /\ RelayInv'
  BY NextBuffer, NextRelay
<1>3. BufferInv /\ RelayInv => RelayExact
  BY RelayEnough
<1> QED BY <1>1, <1>2, <1>3, PTL DEF Spec
=============================================================================
