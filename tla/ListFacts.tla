------------------------------ MODULE ListFacts -----------------------------
(***************************************************************************)
(* Facts about numbers and lists that the proofs of several components     *)
(* rest on: induction over the naturals in the form of a least number, the *)
(* minimum of a set, the concatenation of a list of lists, and the first   *)
(* element of a list that passes a test.                                   *)
(***************************************************************************)
EXTENDS SequencesExt, FiniteSetsExt, Integers, SequenceTheorems,
        WellFoundedInduction, TLAPS

\* Every non-empty set of naturals has a least element.
LEMMA Least ==
  ASSUME NEW S \in SUBSET Nat, S # {}
  PROVE  \E x \in S : \A y \in S : x <= y
<1> DEFINE R == {ss \in Nat \X Nat : ss[1] < ss[2]}
<1>1. IsWellFoundedOn(R, Nat)
  <2>1. OpToRel(<, Nat) = R
    BY Zenon DEF OpToRel
  <2> QED
    BY <2>1, NatLessThanWellFounded, Zenon
<1>2. \E x \in S : \A y \in S : ~ (<<y, x>> \in R)
  BY <1>1, WFMin
<1>3. \A x, y \in Nat : x < y => <<x, y>> \in R
  OBVIOUS
<1> HIDE DEF R
<1>4. PICK x \in S : \A y \in S : <<y, x>> \notin R
  BY <1>2
<1>5. \A y \in S : ~(y < x)
  BY <1>3, <1>4
<1>6. \A y \in S : x <= y
  BY <1>5
<1> QED
  BY <1>6

\* Min picks the least element, and the choice is the only one.
LEMMA MinIn ==
  ASSUME NEW S \in SUBSET Nat, S # {}
  PROVE  Min(S) \in S /\ \A y \in S : Min(S) <= y
BY Least DEF Min

-----------------------------------------------------------------------------
(* The concatenation of a list of lists.                                   *)

\* f[i] is the concatenation of the first i members of s.
IsFlat(f, s, n) ==
  f = [i \in 1..n |-> IF i = 1 THEN s[i] ELSE f[i - 1] \o s[i]]

\* The same, said of its members one by one.
FlatUpTo(f, s, n) ==
  /\ n > 0 => f[1] = s[1]
  /\ \A i \in 2..n : f[i] = f[i - 1] \o s[i]

LEMMA FlatValue ==
  ASSUME NEW f, NEW s, NEW n \in Nat, IsFlat(f, s, n)
  PROVE  FlatUpTo(f, s, n)
<1>1. \A i \in 1..n : f[i] = IF i = 1 THEN s[i] ELSE f[i - 1] \o s[i]
  BY DEF IsFlat
<1>2. n > 0 => 1 \in 1..n
  OBVIOUS
<1>3. \A i \in 2..n : i \in 1..n /\ i # 1
  OBVIOUS
<1>4. n > 0 => f[1] = s[1]
  BY <1>1, <1>2, Zenon
<1>5. \A i \in 2..n : f[i] = f[i - 1] \o s[i]
  BY <1>1, <1>3, Zenon
<1> QED
  BY <1>4, <1>5, Zenon DEF FlatUpTo

LEMMA FlatExists ==
  ASSUME NEW s, NEW n \in Nat
  PROVE  \E f : IsFlat(f, s, n)
<1> DEFINE Fails == {m \in Nat : ~\E f : IsFlat(f, s, m)}
<1>1. SUFFICES ASSUME Fails # {}
               PROVE  FALSE
  OBVIOUS
<1>2. PICK m \in Fails : \A l \in Fails : m <= l
  <2>1. Fails \in SUBSET Nat
    OBVIOUS
  <2> QED
    BY <1>1, <2>1, Least
<1>3. CASE m = 0
  <2>1. IsFlat([i \in 1..0 |-> 0], s, 0)
    BY DEF IsFlat
  <2> QED
    BY <1>2, <1>3, <2>1
<1>4. CASE m # 0
  <2>1. PICK g : IsFlat(g, s, m - 1)
    BY <1>2, <1>4
  <2> DEFINE last == IF m = 1 THEN s[m] ELSE g[m - 1] \o s[m]
             f == [i \in 1..m |-> IF i = m THEN last ELSE g[i]]
  <2>2. \A i \in 1..(m - 1) : g[i] = IF i = 1 THEN s[i] ELSE g[i - 1] \o s[i]
    BY <2>1 DEF IsFlat
  <2>3. \A i \in 1..m : f[i] = IF i = 1 THEN s[i] ELSE f[i - 1] \o s[i]
    <3>1. SUFFICES ASSUME NEW i \in 1..m
                   PROVE  f[i] = IF i = 1 THEN s[i] ELSE f[i - 1] \o s[i]
      OBVIOUS
    <3>2. CASE i = m /\ m = 1
      BY <3>2
    <3>3. CASE i = m /\ m # 1
      <4> HIDE DEF last
      <4>1. f[i] = last /\ f[i - 1] = g[i - 1] /\ i # 1
        BY <1>2, <1>4, <3>3
      <4> USE DEF last
      <4>2. last = g[i - 1] \o s[i]
        BY <3>3
      <4> HIDE DEF f, last
      <4> QED
        BY <4>1, <4>2, Zenon
    <3>4. CASE i # m /\ i # 1
      <4>1. f[i] = g[i] /\ f[i - 1] = g[i - 1] /\ i \in 1..(m - 1)
        BY <1>2, <1>4, <3>4
      <4> HIDE DEF f
      <4> QED
        BY <2>2, <3>4, <4>1
    <3>5. CASE i # m /\ i = 1
      <4>1. f[i] = g[i] /\ i \in 1..(m - 1)
        BY <1>2, <1>4, <3>5
      <4> HIDE DEF f
      <4> QED
        BY <2>2, <3>5, <4>1
    <3> QED
      BY <3>2, <3>3, <3>4, <3>5
  <2>4. f = [i \in 1..m |-> f[i]]
    OBVIOUS
  <2> HIDE DEF f
  <2>5. IsFlat(f, s, m)
    BY <2>3, <2>4 DEF IsFlat
  <2> QED
    BY <1>2, <2>5
<1> QED
  BY <1>3, <1>4

\* Lists that agree so far are flattened alike so far.
LEMMA FlatAgrees ==
  ASSUME NEW f, NEW s, NEW n \in Nat, IsFlat(f, s, n),
         NEW g, NEW t, NEW m \in Nat, IsFlat(g, t, m),
         n <= m, \A i \in 1..n : s[i] = t[i]
  PROVE  \A i \in 1..n : f[i] = g[i]
<1>0. FlatUpTo(f, s, n) /\ FlatUpTo(g, t, m)
  BY FlatValue
<1> DEFINE Fails == {i \in 1..n : f[i] # g[i]}
<1>1. SUFFICES ASSUME Fails # {}
               PROVE  FALSE
  OBVIOUS
<1>2. PICK i \in Fails : \A l \in Fails : i <= l
  <2>1. Fails \in SUBSET Nat
    OBVIOUS
  <2> QED
    BY <1>1, <2>1, Least
<1>3. CASE i = 1
  <2>1. n > 0 /\ m > 0
    BY <1>2
  <2>2. f[1] = s[1] /\ g[1] = t[1]
    BY <1>0, <2>1, Zenon DEF FlatUpTo
  <2> QED
    BY <1>2, <1>3, <2>2
<1>4. CASE i # 1
  <2>1. i \in 2..n /\ i - 1 \in 1..n /\ i - 1 \notin Fails
    BY <1>2, <1>4
  <2>2. i \in 2..n /\ i \in 2..m /\ i \in 1..n
    BY <2>1
  <2>3. f[i] = f[i - 1] \o s[i] /\ g[i] = g[i - 1] \o t[i]
    BY <1>0, <2>2, Zenon DEF FlatUpTo
  <2>4. f[i - 1] = g[i - 1] /\ s[i] = t[i] /\ f[i] # g[i]
    BY <1>2, <2>1, <2>2, Zenon
  <2> QED
    BY <2>3, <2>4, Zenon
<1> QED
  BY <1>3, <1>4

LEMMA FlattenIs ==
  ASSUME NEW S, NEW s \in Seq(S), s # <<>>
  PROVE  \E f : IsFlat(f, s, Len(s)) /\ FlattenSeq(s) = f[Len(s)]
<1> DEFINE f == CHOOSE f : IsFlat(f, s, Len(s))
<1>1. Len(s) \in Nat /\ Len(s) # 0
  OBVIOUS
<1>2. IsFlat(f, s, Len(s))
  BY <1>1, FlatExists
<1>3. FlattenSeq(s) = f[Len(s)]
  BY <1>1, Zenon DEF FlattenSeq, IsFlat
<1> QED
  BY <1>2, <1>3

LEMMA FlattenEmpty == FlattenSeq(<<>>) = <<>>
BY DEF FlattenSeq

LEMMA FlattenAppend ==
  ASSUME NEW S, NEW s \in Seq(Seq(S)), NEW e \in Seq(S)
  PROVE  FlattenSeq(Append(s, e)) = FlattenSeq(s) \o e
<1> DEFINE t == Append(s, e)
           n == Len(s)
           m == n + 1
<1>1. /\ n \in Nat /\ m \in Nat /\ t \in Seq(Seq(S)) /\ Len(t) = m
      /\ t # <<>> /\ t[m] = e /\ \A i \in 1..n : t[i] = s[i]
  BY AppendProperties, LenProperties
<1> HIDE DEF t
<1>2. PICK g : IsFlat(g, t, m) /\ FlattenSeq(t) = g[m]
  BY <1>1, FlattenIs
<1>3. /\ g[1] = t[1]
      /\ \A i \in 2..m : g[i] = g[i - 1] \o t[i]
  <2> HIDE DEF m
  <2>1. FlatUpTo(g, t, m)
    BY <1>1, <1>2, FlatValue
  <2>2. m > 0
    BY <1>1 DEF m
  <2> QED
    BY <2>1, <2>2, Zenon DEF FlatUpTo
<1>4. CASE n = 0
  <2>1. FlattenSeq(s) = <<>>
    BY <1>4, FlattenEmpty
  <2>2. g[m] = e
    BY <1>1, <1>3, <1>4
  <2> QED
    BY <1>2, <2>1, <2>2 DEF t
<1>5. CASE n # 0
  <2>1. PICK f : IsFlat(f, s, n) /\ FlattenSeq(s) = f[n]
    BY <1>5, FlattenIs
  <2>2. f[n] = g[n]
    <3>1. n <= m /\ n \in 1..n /\ \A i \in 1..n : s[i] = t[i]
      BY <1>1, <1>5
    <3> HIDE DEF n, m
    <3>2. n \in Nat /\ m \in Nat /\ IsFlat(f, s, n) /\ IsFlat(g, t, m)
      BY <1>1, <1>2, <2>1
    <3>3. \A i \in 1..n : f[i] = g[i]
      BY <3>1, <3>2, FlatAgrees
    <3> QED
      BY <3>1, <3>3
  <2>3. g[m] = g[n] \o e
    <3>1. m \in 2..m /\ m - 1 = n
      BY <1>1, <1>5
    <3>2. g[m] = g[m - 1] \o t[m]
      BY <1>3, <3>1, Zenon
    <3> QED
      BY <1>1, <3>1, <3>2, Zenon
  <2> QED
    BY <1>2, <2>1, <2>2, <2>3 DEF t
<1> QED
  BY <1>4, <1>5

LEMMA FlattenType ==
  ASSUME NEW S, NEW s \in Seq(Seq(S))
  PROVE  FlattenSeq(s) \in Seq(S)
<1>1. CASE s = <<>>
  <2>1. <<>> \in Seq(S)
    OBVIOUS
  <2> QED
    BY <1>1, <2>1, FlattenEmpty, Zenon
<1>2. CASE s # <<>>
  <2> DEFINE n == Len(s)
  <2>1. n \in Nat /\ n # 0 /\ \A i \in 1..n : s[i] \in Seq(S)
    BY <1>2
  <2>2. PICK f : IsFlat(f, s, n) /\ FlattenSeq(s) = f[n]
    BY <1>2, FlattenIs
  <2> HIDE DEF n
  <2>3. /\ f[1] = s[1]
        /\ \A i \in 2..n : f[i] = f[i - 1] \o s[i]
    <3>1. FlatUpTo(f, s, n) /\ n > 0
      BY <2>1, <2>2, FlatValue
    <3> QED
      BY <3>1, Zenon DEF FlatUpTo
  <2> DEFINE Fails == {i \in 1..n : f[i] \notin Seq(S)}
  <2>4. SUFFICES ASSUME Fails # {}
                 PROVE  FALSE
    BY <2>1, <2>2
  <2>5. PICK i \in Fails : \A l \in Fails : i <= l
    <3>1. Fails \in SUBSET Nat
      OBVIOUS
    <3> QED
      BY <2>4, <3>1, Least
  <2>6. i # 1
    BY <2>1, <2>3, <2>5
  <2>7. i \in 2..n /\ i - 1 \in 1..n /\ i - 1 \notin Fails
    BY <2>1, <2>5, <2>6
  <2>8. f[i - 1] \in Seq(S) /\ s[i] \in Seq(S)
    BY <2>1, <2>7
  <2>9. f[i] \in Seq(S)
    BY ZenonT(30), <2>3, <2>7, <2>8, ConcatProperties
  <2> QED
    BY <2>5, <2>9
<1> QED
  BY <1>1, <1>2

\* One member more of the list, one part more of the result.
LEMMA FlattenStep ==
  ASSUME NEW S, NEW s \in Seq(Seq(S)), NEW k \in Nat, k < Len(s)
  PROVE  FlattenSeq(SubSeq(s, 1, k + 1))
           = FlattenSeq(SubSeq(s, 1, k)) \o s[k + 1]
<1>1. /\ SubSeq(s, 1, k) \in Seq(Seq(S)) /\ s[k + 1] \in Seq(S)
      /\ SubSeq(s, 1, k + 1) = Append(SubSeq(s, 1, k), s[k + 1])
  OBVIOUS
<1> QED
  BY <1>1, FlattenAppend

\* What the first members give is how the whole begins.
LEMMA FlattenPrefix ==
  ASSUME NEW S, NEW s \in Seq(Seq(S)), NEW k \in Nat, k <= Len(s)
  PROVE  \E u \in Seq(S) :
           FlattenSeq(s) = FlattenSeq(SubSeq(s, 1, k)) \o u
<1> DEFINE F(m) == FlattenSeq(SubSeq(s, 1, m))
           Begins(m) == \E u \in Seq(S) : F(m) = F(k) \o u
           n == Len(s)
           Fails == {m \in k..n : ~Begins(m)}
<1>1. SubSeq(s, 1, n) = s /\ n \in Nat
  OBVIOUS
<1>2. \A m \in k..n : F(m) \in Seq(S)
  <2>1. \A m \in k..n : SubSeq(s, 1, m) \in Seq(Seq(S))
    OBVIOUS
  <2> QED
    BY <2>1, FlattenType
<1>3. SUFFICES Begins(n)
  BY <1>1
<1>4. Begins(k)
  <2>1. F(k) = F(k) \o <<>> /\ <<>> \in Seq(S)
    BY <1>2, ConcatEmptySeq
  <2> QED
    BY <2>1
<1>5. ASSUME NEW m \in k..n, m # k, Begins(m - 1)
      PROVE  Begins(m)
  <2> DEFINE l == m - 1
  <2>1. l \in k..n /\ l \in Nat /\ l < n /\ l + 1 = m
    BY <1>1, <1>5
  <2>2. s[m] \in Seq(S)
    BY <1>1, <1>5
  <2>3. PICK u \in Seq(S) : F(l) = F(k) \o u
    BY <1>5
  <2>4. F(m) = F(l) \o s[m]
    <3> HIDE DEF l
    <3>1. F(l + 1) = F(l) \o s[l + 1]
      BY <2>1, FlattenStep
    <3> QED
      BY <2>1, <3>1
  <2>5. F(k) \in Seq(S)
    BY <1>1, <1>2
  <2> HIDE DEF F
  <2>6. (F(k) \o u) \o s[m] = F(k) \o (u \o s[m])
    <3>1. \A a, b, c \in Seq(S) : (a \o b) \o c = a \o (b \o c)
      BY SMTT(30), ConcatAssociative
    <3> QED
      BY <2>2, <2>5, <3>1, Zenon
  <2>7. u \o s[m] \in Seq(S)
    BY <2>2, <2>3, ConcatProperties
  <2> QED
    BY <2>3, <2>4, <2>6, <2>7, Zenon
<1> HIDE DEF Begins
<1>6. SUFFICES ASSUME Fails # {}
               PROVE  FALSE
  BY <1>1
<1>7. PICK m \in Fails : \A l \in Fails : m <= l
  <2>1. Fails \in SUBSET Nat
    BY <1>1
  <2> QED
    BY <1>6, <2>1, Least
<1>8. m \in k..n /\ ~Begins(m) /\ m # k
  BY <1>4, <1>7
<1>9. m - 1 \in k..n /\ m - 1 \notin Fails
  BY <1>1, <1>7, <1>8
<1> QED
  BY <1>5, <1>8, <1>9
=============================================================================
