------------------------ MODULE TlsNegotiationProofs ------------------------
(***************************************************************************)
(* What a connection negotiated is right for its client, under the         *)
(* configuration it was accepted with, for every set of labels, every set  *)
(* of configurations and every set of ClientHello messages.                *)
(*                                                                         *)
(* The state carries little: the invariant says that a configuration in    *)
(* force or kept by a connection passed its validation, and that the       *)
(* outcome of a connection is the function of its configuration and its    *)
(* ClientHello that Negotiate is.  The rest is about that function.  Its   *)
(* core is that SelectEndpoint finds, by canonical names and the first     *)
(* matching route, the one endpoint that belongs to the name.              *)
(***************************************************************************)
EXTENDS TlsNegotiation, ListFacts

-----------------------------------------------------------------------------
(* The first member of a list, and the members that are known.             *)

LEMMA FirstIs ==
  ASSUME NEW T, NEW seq \in Seq(T), NEW S
  PROVE  \/ /\ First(seq, S) = <<>>
            /\ \A i \in DOMAIN seq : seq[i] \notin S
         \/ \E m \in DOMAIN seq :
              /\ First(seq, S) = <<seq[m]>> /\ seq[m] \in S
              /\ \A j \in 1..(m - 1) : seq[j] \notin S
<1> DEFINE found == {i \in DOMAIN seq : seq[i] \in S}
<1>1. CASE found = {}
  <2>1. First(seq, S) = <<>>
    BY <1>1, Zenon DEF First
  <2> QED
    BY <1>1, <2>1
<1>2. CASE found # {}
  <2> DEFINE m == Min(found)
  <2>1. found \in SUBSET Nat
    OBVIOUS
  <2>2. m \in found /\ \A i \in found : m <= i
    BY <1>2, <2>1, MinIn
  <2>3. First(seq, S) = <<seq[m]>>
    BY <1>2, Zenon DEF First
  <2> HIDE DEF m
  <2>4. \A j \in 1..(m - 1) : seq[j] \notin S
    BY <2>2
  <2>5. m \in DOMAIN seq /\ seq[m] \in S
    BY <2>2
  <2> QED
    BY <2>3, <2>4, <2>5, Zenon
<1> QED
  BY <1>1, <1>2

IsKnown(f, seq, S, m) ==
  f = [n \in 0..m |-> IF n = 0 THEN <<>>
                      ELSE IF seq[n] \in S THEN Append(f[n - 1], seq[n])
                      ELSE f[n - 1]]

\* The recursion of Known defines a function on every prefix.
LEMMA KnownExists ==
  ASSUME NEW seq, NEW S, NEW N \in Nat
  PROVE  \E f : IsKnown(f, seq, S, N)
<1> DEFINE Fails == {m \in Nat : ~\E f : IsKnown(f, seq, S, m)}
<1>1. SUFFICES ASSUME Fails # {}
               PROVE  FALSE
  OBVIOUS
<1>2. PICK m \in Fails : \A l \in Fails : m <= l
  <2>1. Fails \in SUBSET Nat
    OBVIOUS
  <2> QED
    BY <1>1, <2>1, Least
<1>3. CASE m = 0
  <2>1. IsKnown([n \in 0..0 |-> <<>>], seq, S, 0)
    BY DEF IsKnown
  <2> QED
    BY <1>2, <1>3, <2>1
<1>4. CASE m # 0
  <2>1. PICK g : IsKnown(g, seq, S, m - 1)
    BY <1>2, <1>4
  <2> DEFINE last == IF seq[m] \in S THEN Append(g[m - 1], seq[m])
                     ELSE g[m - 1]
             f == [n \in 0..m |-> IF n = m THEN last ELSE g[n]]
  <2>2. \A n \in 0..(m - 1) :
          g[n] = IF n = 0 THEN <<>>
                 ELSE IF seq[n] \in S THEN Append(g[n - 1], seq[n])
                 ELSE g[n - 1]
    BY <2>1 DEF IsKnown
  <2>3. \A n \in 0..m :
          f[n] = IF n = 0 THEN <<>>
                 ELSE IF seq[n] \in S THEN Append(f[n - 1], seq[n])
                 ELSE f[n - 1]
    <3>1. SUFFICES ASSUME NEW n \in 0..m
                   PROVE  f[n] = IF n = 0 THEN <<>>
                                 ELSE IF seq[n] \in S
                                      THEN Append(f[n - 1], seq[n])
                                 ELSE f[n - 1]
      OBVIOUS
    <3>2. CASE n = m
      <4>1. f[n] = last /\ f[n - 1] = g[n - 1] /\ n # 0
        BY <1>2, <1>4, <3>2
      <4> QED
        BY <3>2, <4>1
    <3>3. CASE n # m /\ n # 0
      <4>1. f[n] = g[n] /\ f[n - 1] = g[n - 1] /\ n \in 0..(m - 1)
        BY <1>2, <1>4, <3>3
      <4> HIDE DEF f
      <4> QED
        BY <2>2, <3>3, <4>1
    <3>4. CASE n # m /\ n = 0
      <4>1. f[n] = g[n] /\ n \in 0..(m - 1)
        BY <1>2, <1>4, <3>4
      <4> HIDE DEF f
      <4> QED
        BY <2>2, <3>4, <4>1
    <3> QED
      BY <3>2, <3>3, <3>4
  <2>4. f = [n \in 0..m |-> f[n]]
    OBVIOUS
  <2> HIDE DEF f
  <2>5. IsKnown(f, seq, S, m)
    BY <2>3, <2>4 DEF IsKnown
  <2> QED
    BY <1>2, <2>5
<1> QED
  BY <1>3, <1>4

LEMMA KnownValue ==
  ASSUME NEW f, NEW seq, NEW S, NEW N \in Nat, IsKnown(f, seq, S, N)
  PROVE  /\ f[0] = <<>>
         /\ \A n \in 1..N :
              /\ seq[n] \in S => f[n] = Append(f[n - 1], seq[n])
              /\ seq[n] \notin S => f[n] = f[n - 1]
<1>1. \A n \in 0..N : f[n] = IF n = 0 THEN <<>>
                            ELSE IF seq[n] \in S THEN Append(f[n - 1], seq[n])
                            ELSE f[n - 1]
  BY DEF IsKnown
<1>2. 0 \in 0..N /\ \A n \in 1..N : n \in 0..N /\ n # 0
  OBVIOUS
<1>3. f[0] = <<>>
  BY <1>1, <1>2, Zenon
<1>4. \A n \in 1..N :
        /\ seq[n] \in S => f[n] = Append(f[n - 1], seq[n])
        /\ seq[n] \notin S => f[n] = f[n - 1]
  BY <1>1, <1>2, Zenon
<1> QED
  BY <1>3, <1>4

\* Known keeps the members of a list that are in S and no other.
LEMMA KnownKeeps ==
  ASSUME NEW T, NEW seq \in Seq(T), NEW S
  PROVE  /\ Known(seq, S) \in Seq(S)
         /\ ToSet(Known(seq, S)) = ToSet(seq) \cap S
<1> DEFINE N == Len(seq)
           f == CHOOSE f : IsKnown(f, seq, S, N)
           Good(n) == /\ f[n] \in Seq(S)
                      /\ \A i \in 1..Len(f[n]) : \E j \in 1..n :
                           f[n][i] = seq[j]
                      /\ \A j \in 1..n : seq[j] \in S =>
                           \E i \in 1..Len(f[n]) : f[n][i] = seq[j]
           Bad == {n \in 0..N : ~Good(n)}
<1>1. N \in Nat /\ DOMAIN seq = 1..N
  OBVIOUS
<1>2. IsKnown(f, seq, S, N)
  BY <1>1, KnownExists
<1>3. Known(seq, S) = f[N]
  BY DEF Known, IsKnown
<1> HIDE DEF f
<1>4. /\ f[0] = <<>>
      /\ \A n \in 1..N : /\ seq[n] \in S => f[n] = Append(f[n - 1], seq[n])
                         /\ seq[n] \notin S => f[n] = f[n - 1]
  BY <1>1, <1>2, KnownValue
<1>5. Bad = {}
  <2>1. SUFFICES ASSUME Bad # {}
                 PROVE  FALSE
    OBVIOUS
  <2>2. PICK n \in Bad : \A l \in Bad : n <= l
    <3>1. Bad \in SUBSET Nat
      BY <1>1
    <3> QED
      BY <2>1, <3>1, Least
  <2>3. CASE n = 0
    <3>1. f[n] = <<>>
      BY <1>4, <2>3
    <3>2. f[n] \in Seq(S) /\ Len(f[n]) = 0
      BY <3>1
    <3> QED
      BY <2>2, <2>3, <3>2
  <2>4. CASE n # 0
    <3>1. n \in 1..N /\ n - 1 \in 0..N /\ 1..n = 1..(n - 1) \cup {n}
      BY <1>1, <2>2, <2>4
    <3>2. Good(n - 1)
      BY <2>2, <3>1
    <3>3. CASE seq[n] \notin S
      <4>1. f[n] = f[n - 1]
        BY <1>4, <3>1, <3>3
      <4>2. Good(n)
        BY <3>1, <3>2, <3>3, <4>1, Zenon
      <4> QED
        BY <2>2, <4>2
    <3>4. CASE seq[n] \in S
      <4>1. f[n] = Append(f[n - 1], seq[n])
        BY <1>4, <3>1, <3>4
      <4>2. /\ f[n] \in Seq(S) /\ Len(f[n]) = Len(f[n - 1]) + 1
            /\ f[n][Len(f[n - 1]) + 1] = seq[n]
            /\ \A i \in 1..Len(f[n - 1]) : f[n][i] = f[n - 1][i]
            /\ Len(f[n - 1]) \in Nat
        BY <3>2, <3>4, <4>1
      <4>3. ASSUME NEW i \in 1..Len(f[n])
            PROVE  \E j \in 1..n : f[n][i] = seq[j]
        <5>1. CASE i = Len(f[n - 1]) + 1
          BY <3>1, <4>2, <5>1
        <5>2. CASE i \in 1..Len(f[n - 1])
          <6>1. f[n][i] = f[n - 1][i]
            BY <4>2, <5>2, Zenon
          <6>2. PICK j \in 1..(n - 1) : f[n - 1][i] = seq[j]
            BY <3>2, <5>2, Zenon
          <6>3. j \in 1..n
            BY <3>1
          <6> QED
            BY <6>1, <6>2, <6>3, Zenon
        <5>3. i = Len(f[n - 1]) + 1 \/ i \in 1..Len(f[n - 1])
          BY <4>2
        <5> QED
          BY <5>1, <5>2, <5>3, Zenon
      <4>4. ASSUME NEW j \in 1..n, seq[j] \in S
            PROVE  \E i \in 1..Len(f[n]) : f[n][i] = seq[j]
        <5>1. CASE j = n
          <6>1. Len(f[n - 1]) + 1 \in 1..Len(f[n])
            BY <4>2
          <6> QED
            BY <4>2, <5>1, <6>1, Zenon
        <5>2. CASE j \in 1..(n - 1)
          <6>1. PICK i \in 1..Len(f[n - 1]) : f[n - 1][i] = seq[j]
            BY <3>2, <4>4, <5>2
          <6> QED
            BY <4>2, <6>1
        <5> QED
          BY <3>1, <5>1, <5>2
      <4> QED
        BY <2>2, <4>2, <4>3, <4>4
    <3> QED
      BY <3>3, <3>4
  <2> QED
    BY <2>3, <2>4
<1>6. Good(N)
  <2>1. N \in 0..N
    BY <1>1
  <2> HIDE DEF Good
  <2> QED
    BY <1>5, <2>1
<1>7. DOMAIN f[N] = 1..Len(f[N]) /\ \A i \in 1..Len(f[N]) : f[N][i] \in S
  BY <1>6
<1>8. ToSet(f[N]) = ToSet(seq) \cap S
  <2>1. \A x \in ToSet(f[N]) : x \in S /\ x \in ToSet(seq)
    BY <1>1, <1>6, <1>7, Zenon DEF ToSet
  <2>2. \A x \in ToSet(seq) : x \in S => x \in ToSet(f[N])
    <3>1. SUFFICES ASSUME NEW j \in 1..N, seq[j] \in S
                   PROVE  seq[j] \in ToSet(f[N])
      BY <1>1 DEF ToSet
    <3>2. PICK i \in 1..Len(f[N]) : f[N][i] = seq[j]
      BY <1>6, <3>1
    <3> QED
      BY <1>7, <3>2 DEF ToSet
  <2> QED
    BY <2>1, <2>2, Zenon
<1> QED
  BY <1>3, <1>6, <1>8

-----------------------------------------------------------------------------
(* Server names.                                                           *)

Lower(l) == [l EXCEPT !.upper = FALSE]

\* Two labels are the same in lower case exactly when their texts are.
LEMMA LabelFacts ==
  /\ \A l \in Labels : /\ Lower(l) \in Label
                       /\ Lower(l).text = l.text
                       /\ Lower(l).form = l.form
                       /\ Lower(l).upper = FALSE
                       /\ Lower(Lower(l)) = Lower(l)
  /\ \A l, k \in Labels : (l.text = k.text) <=> (Lower(l) = Lower(k))
<1>1. \A l \in Labels : l \in Label
  BY LabelsAssumption
<1>2. \A l \in Label : /\ Lower(l) \in Label
                       /\ Lower(l).text = l.text
                       /\ Lower(l).form = l.form
                       /\ Lower(l).upper = FALSE
                       /\ Lower(Lower(l)) = Lower(l)
  BY DEF Label, Lower
<1>3. \A l, k \in Label : l.text = k.text /\ l.form = k.form
        => Lower(l) = Lower(k)
  BY DEF Label, Lower
<1> QED
  BY <1>1, <1>2, <1>3, LabelsAssumption, Zenon

\* Canonical changes nothing but the case of the labels.
LEMMA CanonicalFacts ==
  ASSUME NEW m \in Seq(Labels)
  PROVE  /\ Canonical(m) \in Seq(Label)
         /\ Len(Canonical(m)) = Len(m)
         /\ \A i \in 1..Len(m) : Canonical(m)[i] = Lower(m[i]) /\ m[i] \in Labels
         /\ (Canonical(m) = <<>>) <=> (m = <<>>)
<1>1. DOMAIN m = 1..Len(m) /\ \A i \in 1..Len(m) : m[i] \in Labels
  OBVIOUS
<1>2. Canonical(m) = [i \in 1..Len(m) |-> Lower(m[i])]
  BY <1>1 DEF Canonical, Lower
<1>3. \A i \in 1..Len(m) : Lower(m[i]) \in Label
  BY <1>1, LabelFacts
<1>4. Canonical(m) \in Seq(Label) /\ Len(Canonical(m)) = Len(m)
  BY <1>2, <1>3
<1>5. (Canonical(m) = <<>>) <=> (m = <<>>)
  BY <1>4
<1> QED
  BY <1>1, <1>2, <1>4, <1>5

\* Two names are the same for DNS exactly when they are the same canonically.
LEMMA SameNameIs ==
  ASSUME NEW m \in Seq(Labels), NEW n \in Seq(Labels)
  PROVE  SameName(Canonical(m), n) <=> Canonical(m) = Canonical(n)
<1>1. /\ Len(Canonical(m)) = Len(m) /\ Len(Canonical(n)) = Len(n)
      /\ Canonical(m) \in Seq(Label) /\ Canonical(n) \in Seq(Label)
      /\ DOMAIN Canonical(m) = 1..Len(m) /\ DOMAIN Canonical(n) = 1..Len(n)
      /\ \A i \in 1..Len(m) : Canonical(m)[i] = Lower(m[i]) /\ m[i] \in Labels
      /\ \A i \in 1..Len(n) : Canonical(n)[i] = Lower(n[i]) /\ n[i] \in Labels
  BY CanonicalFacts
<1>2. ASSUME SameName(Canonical(m), n)
      PROVE  Canonical(m) = Canonical(n)
  <2>1. /\ Len(m) = Len(n)
        /\ \A i \in 1..Len(m) : Lower(m[i]).text = n[i].text
    BY <1>1, <1>2 DEF SameName
  <2>2. \A i \in 1..Len(m) : Canonical(m)[i] = Canonical(n)[i]
    <3>1. SUFFICES ASSUME NEW i \in 1..Len(m)
                   PROVE  Canonical(m)[i] = Canonical(n)[i]
      OBVIOUS
    <3>2. /\ Canonical(m)[i] = Lower(m[i]) /\ m[i] \in Labels
          /\ Canonical(n)[i] = Lower(n[i]) /\ n[i] \in Labels
          /\ Lower(m[i]).text = n[i].text
      BY <1>1, <2>1
    <3>3. m[i].text = n[i].text
      BY <3>2, LabelFacts
    <3> QED
      BY <3>2, <3>3, LabelFacts
  <2> QED
    BY <1>1, <2>1, <2>2
<1>3. ASSUME Canonical(m) = Canonical(n)
      PROVE  SameName(Canonical(m), n)
  <2>1. Len(m) = Len(n) /\ \A i \in 1..Len(m) : Lower(m[i]) = Lower(n[i])
    BY <1>1, <1>3
  <2>2. \A i \in 1..Len(m) : Canonical(m)[i].text = n[i].text
    <3>1. SUFFICES ASSUME NEW i \in 1..Len(m)
                   PROVE  Canonical(m)[i].text = n[i].text
      OBVIOUS
    <3>2. /\ Canonical(m)[i] = Lower(m[i]) /\ m[i] \in Labels
          /\ n[i] \in Labels /\ Lower(m[i]) = Lower(n[i])
      BY <1>1, <2>1
    <3>3. m[i].text = n[i].text
      BY <3>2, LabelFacts
    <3> QED
      BY <3>2, <3>3, LabelFacts
  <2> QED
    BY <1>1, <2>1, <2>2 DEF SameName
<1> QED
  BY <1>2, <1>3

\* The labels after the first of a canonical name.
LEMMA CanonicalTail ==
  ASSUME NEW n \in Seq(Labels), n # <<>>
  PROVE  Tail(n) \in Seq(Labels) /\ Tail(Canonical(n)) = Canonical(Tail(n))
<1>1. Tail(n) \in Seq(Labels) /\ Len(Tail(n)) = Len(n) - 1 /\ Len(n) > 0
      /\ \A i \in 1..Len(Tail(n)) : Tail(n)[i] = n[i + 1]
  OBVIOUS
<1>2. /\ Canonical(n) \in Seq(Label) /\ Len(Canonical(n)) = Len(n)
      /\ \A i \in 1..Len(n) : Canonical(n)[i] = Lower(n[i])
  BY CanonicalFacts
<1>3. /\ Canonical(Tail(n)) \in Seq(Label)
      /\ Len(Canonical(Tail(n))) = Len(Tail(n))
      /\ \A i \in 1..Len(Tail(n)) : Canonical(Tail(n))[i] = Lower(Tail(n)[i])
  BY <1>1, CanonicalFacts
<1>4. /\ Tail(Canonical(n)) \in Seq(Label)
      /\ Len(Tail(Canonical(n))) = Len(n) - 1
      /\ \A i \in 1..(Len(n) - 1) :
           Tail(Canonical(n))[i] = Canonical(n)[i + 1]
  BY <1>1, <1>2
<1>5. \A i \in 1..(Len(n) - 1) :
        Tail(Canonical(n))[i] = Canonical(Tail(n))[i]
  <2>1. \A i \in 1..(Len(n) - 1) : i + 1 \in 1..Len(n) /\ i \in 1..Len(Tail(n))
    BY <1>1
  <2> QED
    BY <1>1, <1>2, <1>3, <1>4, <2>1, Zenon
<1> QED
  BY <1>1, <1>3, <1>4, <1>5

\* A name that passed the validation passes it again, and as it is.
LEMMA OfBytesIs ==
  ASSUME NEW m \in Seq(Labels), OfBytes(m) # <<>>
  PROVE  /\ m # <<>> /\ Len(m) <= MaxLabels
         /\ OfBytes(m) = Canonical(m) /\ OfBytes(Canonical(m)) = Canonical(m)
         /\ \A i \in 1..Len(m) : Canonical(m)[i].form \in {"plain", "octet"}
<1>1. /\ Len(m) <= MaxLabels
      /\ \A i \in DOMAIN m : m[i].form \in {"plain", "octet"}
      /\ ~AddressLiteral(m)
      /\ OfBytes(m) = Canonical(m)
  BY Zenon DEF OfBytes
<1>2. /\ Canonical(m) \in Seq(Label)
      /\ Len(Canonical(m)) = Len(m)
      /\ \A i \in 1..Len(m) : Canonical(m)[i] = Lower(m[i]) /\ m[i] \in Labels
      /\ (Canonical(m) = <<>>) <=> (m = <<>>)
      /\ DOMAIN Canonical(m) = 1..Len(m) /\ DOMAIN m = 1..Len(m)
  BY CanonicalFacts
<1>3. \A i \in 1..Len(m) :
        /\ Canonical(m)[i].form = m[i].form
        /\ Lower(Canonical(m)[i]) = Canonical(m)[i]
  <2>1. SUFFICES ASSUME NEW i \in 1..Len(m)
                 PROVE  /\ Canonical(m)[i].form = m[i].form
                        /\ Lower(Canonical(m)[i]) = Canonical(m)[i]
    OBVIOUS
  <2>2. Canonical(m)[i] = Lower(m[i]) /\ m[i] \in Labels
    BY <1>2
  <2> QED
    BY <2>2, LabelFacts
<1>4. ~AddressLiteral(Canonical(m))
  BY <1>1, <1>2, <1>3, Zenon DEF AddressLiteral
<1>5. Canonical(Canonical(m)) = Canonical(m)
  <2>1. Canonical(Canonical(m)) = [i \in 1..Len(m) |-> Lower(Canonical(m)[i])]
    BY <1>2, Zenon DEF Canonical, Lower
  <2>2. Canonical(Canonical(m)) = [i \in 1..Len(m) |-> Canonical(m)[i]]
    BY <1>3, <2>1
  <2> QED
    BY <1>2, <2>2
<1>6. OfBytes(Canonical(m)) = Canonical(m)
  BY <1>1, <1>2, <1>3, <1>4, <1>5, Zenon DEF OfBytes
<1> QED
  BY <1>1, <1>2, <1>3, <1>6, Zenon

\* A name as the validation leaves it.
CanonicalName(name) ==
  /\ name # <<>> /\ OfBytes(name) = name
  /\ \A k \in DOMAIN name : \E l \in Labels : name[k] = Lower(l)

LEMMA ValidatedName ==
  ASSUME NEW m \in Seq(Labels), OfBytes(m) # <<>>
  PROVE  CanonicalName(OfBytes(m))
<1>1. OfBytes(m) = Canonical(m) /\ OfBytes(Canonical(m)) = Canonical(m)
  BY OfBytesIs
<1>2. /\ DOMAIN Canonical(m) = 1..Len(m)
      /\ \A i \in 1..Len(m) : Canonical(m)[i] = Lower(m[i]) /\ m[i] \in Labels
  BY CanonicalFacts
<1> QED
  BY <1>1, <1>2 DEF CanonicalName

\* Some client writes it.
LEMMA NameWritten ==
  ASSUME NEW n \in Seq(Label), CanonicalName(n)
  PROVE  \E m \in Seq(Labels) : n = Canonical(m) /\ m # <<>>
<1> DEFINE m == [k \in 1..Len(n) |-> CHOOSE l \in Labels : n[k] = Lower(l)]
<1>1. DOMAIN n = 1..Len(n) /\ Len(n) \in Nat /\ n # <<>>
  BY DEF CanonicalName
<1>2. \A k \in 1..Len(n) : m[k] \in Labels /\ n[k] = Lower(m[k])
  <2>1. SUFFICES ASSUME NEW k \in 1..Len(n)
                 PROVE  m[k] \in Labels /\ n[k] = Lower(m[k])
    OBVIOUS
  <2>2. \E l \in Labels : n[k] = Lower(l)
    BY <1>1 DEF CanonicalName
  <2>3. m[k] = CHOOSE l \in Labels : n[k] = Lower(l)
    OBVIOUS
  <2> QED
    BY <2>2, <2>3, Zenon
<1>3. m = [k \in 1..Len(n) |-> m[k]]
  OBVIOUS
<1> HIDE DEF m
<1>4. m \in Seq(Labels) /\ Len(m) = Len(n)
  <2>1. m \in [1..Len(n) -> Labels]
    BY <1>2, <1>3
  <2> QED
    BY <1>1, <2>1
<1>5. /\ Canonical(m) \in Seq(Label) /\ Len(Canonical(m)) = Len(m)
      /\ \A i \in 1..Len(m) : Canonical(m)[i] = Lower(m[i])
  BY <1>4, CanonicalFacts
<1>6. \A i \in 1..Len(n) : Canonical(m)[i] = n[i]
  BY <1>2, <1>4, <1>5
<1>7. Canonical(m) = n
  BY <1>4, <1>5, <1>6
<1>8. m # <<>>
  BY <1>1, <1>4
<1> QED
  BY <1>4, <1>7, <1>8

-----------------------------------------------------------------------------
(* Configurations in force.                                                *)

\* What validation leaves: canonical names, no pattern twice, and endpoints
\* that can be negotiated with.
Sound(c) ==
  /\ c.routes \in Seq(Route(Label))
  /\ c.default \in Optional(Endpoint)
  /\ \A i \in DOMAIN c.routes : CanonicalName(c.routes[i].pattern.name)
  /\ \A i, j \in DOMAIN c.routes :
       c.routes[i].pattern = c.routes[j].pattern => i = j
  /\ \A e \in Endpoints(c) : ValidEndpoint(e) /\ NormalGroups(e.groups)

LEMMA RouteValidated ==
  ASSUME NEW r \in Route(Labels),
         OfBytes(r.pattern.name) # <<>>
  PROVE  LET v == [r EXCEPT !.pattern.name = OfBytes(@)]
         IN  /\ v \in Route(Label)
             /\ v.endpoint = r.endpoint
             /\ CanonicalName(v.pattern.name)
<1>1. r.pattern.name \in Seq(Labels)
  BY DEF Route
<1>2. /\ OfBytes(r.pattern.name) = Canonical(r.pattern.name)
      /\ Canonical(r.pattern.name) \in Seq(Label)
      /\ CanonicalName(OfBytes(r.pattern.name))
  BY <1>1, OfBytesIs, CanonicalFacts, ValidatedName
<1> QED
  BY <1>2 DEF Route

\* The configuration a load puts in force.
LEMMA LoadedIsSound ==
  ASSUME NEW cfg \in Configs, ValidServerConfig(cfg), Performable(cfg)
  PROVE  Sound([cfg EXCEPT !.routes = ValidateSniRoutes(@)])
<1> DEFINE valid == ValidateSniRoutes(cfg.routes)
           c == [cfg EXCEPT !.routes = valid]
           r == cfg.routes
<1>1. cfg \in ConfigOver(Labels)
  BY ConfigsAssumption
<1>2. r \in Seq(Route(Labels)) /\ cfg.default \in Optional(Endpoint)
  BY <1>1 DEF ConfigOver
<1>3. c.routes = valid /\ c.default = cfg.default
  BY <1>1 DEF ConfigOver
<1>4. valid = [i \in DOMAIN r |-> [r[i] EXCEPT !.pattern.name = OfBytes(@)]]
  BY Zenon DEF ValidateSniRoutes
<1>5. /\ DOMAIN r = 1..Len(r)
      /\ \A i \in 1..Len(r) : r[i] \in Route(Labels)
  BY <1>2
<1>6. \A i \in 1..Len(r) : valid[i].pattern.name # <<>>
  <2>1. \A i \in DOMAIN valid : valid[i].pattern.name # <<>>
    BY Zenon DEF ValidServerConfig
  <2> QED
    BY <1>4, <1>5, <2>1
<1>7. \A i \in 1..Len(r) :
        /\ valid[i] \in Route(Label)
        /\ valid[i].endpoint = r[i].endpoint
        /\ CanonicalName(valid[i].pattern.name)
  <2>1. SUFFICES ASSUME NEW i \in 1..Len(r)
                 PROVE  /\ valid[i] \in Route(Label)
                        /\ valid[i].endpoint = r[i].endpoint
                        /\ CanonicalName(valid[i].pattern.name)
    OBVIOUS
  <2>2. valid[i] = [r[i] EXCEPT !.pattern.name = OfBytes(@)]
    BY <1>4, <1>5
  <2>3. r[i] \in Route(Labels)
    BY <1>5
  <2>4. valid[i].pattern.name = OfBytes(r[i].pattern.name)
    BY <2>2, <2>3 DEF Route
  <2>5. OfBytes(r[i].pattern.name) # <<>>
    BY <1>6, <2>4
  <2> HIDE DEF valid
  <2> QED
    BY <2>2, <2>3, <2>5, RouteValidated
<1> HIDE DEF valid
<1>8. valid \in Seq(Route(Label)) /\ DOMAIN valid = 1..Len(r)
  <2>1. Len(r) \in Nat
    BY <1>2
  <2>2. valid = [i \in 1..Len(r) |-> valid[i]]
    BY <1>4, <1>5
  <2>3. \A i \in 1..Len(r) : valid[i] \in Route(Label)
    BY <1>7
  <2> HIDE DEF r
  <2>4. valid \in [1..Len(r) -> Route(Label)]
    BY <2>2, <2>3
  <2> QED
    BY <2>1, <2>4
<1>9. \A i \in DOMAIN valid : CanonicalName(valid[i].pattern.name)
  BY <1>7, <1>8
<1>10. \A i, j \in DOMAIN valid :
         valid[i].pattern = valid[j].pattern => i = j
  <2>1. \A i, j \in 1..Len(r) : i < j => valid[i].pattern # valid[j].pattern
    BY <1>8 DEF ValidServerConfig, HasAmbiguousRoutes, valid
  <2>2. \A i, j \in 1..Len(r) : i < j \/ j < i \/ i = j
    OBVIOUS
  <2> QED
    BY <1>8, <2>1, <2>2, Zenon
<1>11. Endpoints(c) = Endpoints(cfg)
  <2>1. \A i \in 1..Len(r) : valid[i].endpoint = r[i].endpoint
    BY <1>7
  <2>2. {valid[i].endpoint : i \in DOMAIN valid}
        = {r[i].endpoint : i \in DOMAIN r}
    <3> HIDE DEF r
    <3> QED
      BY <1>5, <1>8, <2>1
  <2> QED
    BY <1>3, <2>2, Zenon DEF Endpoints
<1>12. \A e \in Endpoints(cfg) : ValidEndpoint(e) /\ NormalGroups(e.groups)
  BY DEF ValidServerConfig, Performable
<1>13. c = [cfg EXCEPT !.routes = ValidateSniRoutes(@)]
  BY DEF valid
<1>14. Sound(c)
  <2> HIDE DEF c
  <2> QED
    BY <1>2, <1>3, <1>8, <1>9, <1>10, <1>11, <1>12, Zenon
    DEF Sound
<1> QED
  BY <1>13, <1>14

-----------------------------------------------------------------------------
(* The endpoint for a server name.                                         *)

Exactly(c, n) ==
  {r \in ToSet(c.routes) : r.pattern.kind = "exact" /\ r.pattern.name = n}

Wildly(c, n) ==
  {r \in ToSet(c.routes) : r.pattern.kind = "wildcard" /\ r.pattern.name = n}

LEMMA SoundRoutes ==
  ASSUME NEW c, Sound(c)
  PROVE  /\ DOMAIN c.routes = 1..Len(c.routes) /\ Len(c.routes) \in Nat
         /\ \A i \in 1..Len(c.routes) :
              /\ c.routes[i].pattern.kind \in {"exact", "wildcard"}
              /\ c.routes[i].pattern
                 = [kind |-> c.routes[i].pattern.kind,
                    name |-> c.routes[i].pattern.name]
              /\ c.routes[i].endpoint \in Endpoint
              /\ c.routes[i].endpoint \in Endpoints(c)
         /\ ToSet(c.default) \subseteq Endpoints(c)
         /\ c.default = <<>> \/ \E e \in Endpoint : c.default = <<e>>
<1>1. c.routes \in Seq(Route(Label)) /\ c.default \in Optional(Endpoint)
  BY DEF Sound
<1>2. /\ DOMAIN c.routes = 1..Len(c.routes) /\ Len(c.routes) \in Nat
      /\ \A i \in 1..Len(c.routes) :
           c.routes[i] \in Route(Label)
  BY <1>1
<1>3. \A r \in Route(Label) :
        /\ r.pattern.kind \in {"exact", "wildcard"}
        /\ r.pattern = [kind |-> r.pattern.kind, name |-> r.pattern.name]
        /\ r.endpoint \in Endpoint
  BY DEF Route
<1>4. \A i \in 1..Len(c.routes) : c.routes[i].endpoint \in Endpoints(c)
  BY <1>2 DEF Endpoints
<1>5. ToSet(c.default) \subseteq Endpoints(c)
  BY Zenon DEF Endpoints
<1>6. c.default = <<>> \/ \E e \in Endpoint : c.default = <<e>>
  BY <1>1 DEF Optional
<1> QED
  BY <1>2, <1>3, <1>4, <1>5, <1>6, Zenon

\* Routes are told apart by their patterns, so the first match is the match.
LEMMA OnlyMatch ==
  ASSUME NEW c, Sound(c), NEW S, S \subseteq ToSet(c.routes),
         \A r, s \in S : r.pattern = s.pattern
  PROVE  \/ S = {} /\ First(c.routes, S) = <<>>
         \/ \E r \in S : S = {r} /\ First(c.routes, S) = <<r>>
<1>1. DOMAIN c.routes = 1..Len(c.routes)
  BY SoundRoutes
<1>2. c.routes \in Seq(Route(Label))
  BY DEF Sound
<1>3. CASE /\ First(c.routes, S) = <<>>
           /\ \A i \in DOMAIN c.routes : c.routes[i] \notin S
  <2>1. S = {}
    BY <1>1, <1>3 DEF ToSet
  <2> QED
    BY <1>3, <2>1
<1>4. CASE \E m \in DOMAIN c.routes :
             First(c.routes, S) = <<c.routes[m]>> /\ c.routes[m] \in S
  <2>1. PICK m \in DOMAIN c.routes :
          First(c.routes, S) = <<c.routes[m]>> /\ c.routes[m] \in S
    BY <1>4
  <2>2. ASSUME NEW r \in S
        PROVE  r = c.routes[m]
    <3>1. PICK j \in DOMAIN c.routes : r = c.routes[j]
      BY DEF ToSet
    <3>2. j = m
      BY <2>1, <3>1 DEF Sound
    <3> QED
      BY <3>1, <3>2
  <2>3. S = {c.routes[m]}
    BY <2>1, <2>2
  <2> QED
    BY <2>1, <2>3, Zenon
<1> QED
  BY <1>2, <1>3, <1>4, FirstIs, Zenon

\* An exact route first, then a wildcard, then the default, and only one of
\* either kind can be meant.
LEMMA SelectNamed ==
  ASSUME NEW c, Sound(c), NEW n, n # <<>>, OfBytes(n) = n,
         NEW W, W = IF Len(n) > 1 THEN Wildly(c, Tail(n)) ELSE {}
  PROVE  \/ \E r \in Exactly(c, n) : /\ Exactly(c, n) = {r}
                                     /\ SelectEndpoint(c, <<n>>) = <<r.endpoint>>
         \/ /\ Exactly(c, n) = {}
            /\ \E r \in W : W = {r} /\ SelectEndpoint(c, <<n>>) = <<r.endpoint>>
         \/ /\ Exactly(c, n) = {} /\ W = {}
            /\ SelectEndpoint(c, <<n>>) = c.default
<1> DEFINE X == Exactly(c, n)
           M == {r \in ToSet(c.routes) : Matches(r.pattern, n)}
           exact == First(c.routes, X)
           wild == First(c.routes, M)
<1>1. SelectEndpoint(c, <<n>>) = IF exact # <<>> THEN <<exact[1].endpoint>>
                                 ELSE IF wild # <<>> THEN <<wild[1].endpoint>>
                                 ELSE c.default
  <2>1. <<n>> # <<>> /\ <<n>>[1] = n
    OBVIOUS
  <2> QED
    BY <2>1, Zenon DEF SelectEndpoint, Exactly
<1>2. \A r \in ToSet(c.routes) :
        /\ r.pattern.kind \in {"exact", "wildcard"}
        /\ r.pattern = [kind |-> r.pattern.kind, name |-> r.pattern.name]
  BY SoundRoutes DEF ToSet
<1>3. \/ X = {} /\ exact = <<>>
      \/ \E r \in X : X = {r} /\ exact = <<r>>
  <2>1. X \subseteq ToSet(c.routes)
    BY DEF Exactly
  <2>2. \A r, s \in X : r.pattern = s.pattern
    BY <1>2, <2>1 DEF Exactly
  <2> HIDE DEF X
  <2> QED
    BY <2>1, <2>2, OnlyMatch
<1>4. X = {} => M = W
  <2>1. SUFFICES ASSUME X = {}
                 PROVE  M = W
    OBVIOUS
  <2>2. \A r \in ToSet(c.routes) :
          r.pattern.kind = "exact" => ~Matches(r.pattern, n)
    BY <2>1 DEF Exactly, Matches
  <2>3. \A r \in ToSet(c.routes) :
          r.pattern.kind = "wildcard" =>
            (Matches(r.pattern, n)
               <=> Len(n) > 1 /\ r.pattern.name = Tail(n))
    BY DEF Matches
  <2> QED
    BY <1>2, <2>2, <2>3 DEF Wildly
<1>5. X = {} => \/ M = {} /\ wild = <<>>
                \/ \E r \in M : M = {r} /\ wild = <<r>>
  <2>1. SUFFICES ASSUME X = {}
                 PROVE  \/ M = {} /\ wild = <<>>
                        \/ \E r \in M : M = {r} /\ wild = <<r>>
    OBVIOUS
  <2>2. M \subseteq ToSet(c.routes)
    OBVIOUS
  <2>3. \A r, s \in M : r.pattern = s.pattern
    BY <1>2, <1>4, <2>1, <2>2 DEF Wildly
  <2> HIDE DEF M
  <2> QED
    BY <2>2, <2>3, OnlyMatch
<1> HIDE DEF X, M, exact, wild
<1>6. CASE X # {}
  <2>1. PICK r \in X : X = {r} /\ exact = <<r>>
    BY <1>3, <1>6
  <2>2. SelectEndpoint(c, <<n>>) = <<r.endpoint>>
    BY <1>1, <2>1
  <2> QED
    BY <2>1, <2>2 DEF X
<1>7. CASE X = {} /\ M # {}
  <2>1. PICK r \in M : M = {r} /\ wild = <<r>>
    BY <1>5, <1>7
  <2>2. SelectEndpoint(c, <<n>>) = <<r.endpoint>>
    BY <1>1, <1>3, <1>7, <2>1
  <2> QED
    BY <1>4, <1>7, <2>1, <2>2 DEF X
<1>8. CASE X = {} /\ M = {}
  <2>1. SelectEndpoint(c, <<n>>) = c.default
    BY <1>1, <1>3, <1>5, <1>8
  <2> QED
    BY <1>4, <1>8, <2>1 DEF X
<1> QED
  BY <1>6, <1>7, <1>8

\* The routes that cover a name are those that have it canonically.
LEMMA CoversIs ==
  ASSUME NEW c, Sound(c), NEW n \in Seq(Labels), n # <<>>
  PROVE  /\ {r \in ToSet(c.routes) :
               r.pattern.kind = "exact" /\ Covers(r.pattern, n)}
            = Exactly(c, Canonical(n))
         /\ {r \in ToSet(c.routes) :
               r.pattern.kind = "wildcard" /\ Covers(r.pattern, n)}
            = IF Len(Canonical(n)) > 1 THEN Wildly(c, Tail(Canonical(n))) ELSE {}
<1>1. \A r \in ToSet(c.routes) : \E m \in Seq(Labels) :
        r.pattern.name = Canonical(m) /\ m # <<>>
  <2>1. SUFFICES ASSUME NEW i \in DOMAIN c.routes
                 PROVE  \E m \in Seq(Labels) :
                          c.routes[i].pattern.name = Canonical(m) /\ m # <<>>
    BY DEF ToSet
  <2>2. CanonicalName(c.routes[i].pattern.name)
    BY DEF Sound
  <2>3. c.routes[i].pattern.name \in Seq(Label)
    <3>1. c.routes \in Seq(Route(Label))
      BY DEF Sound
    <3>2. c.routes[i] \in Route(Label)
      BY <3>1
    <3> QED
      BY <3>2 DEF Route
  <2> QED
    BY <2>2, <2>3, NameWritten
<1>2. Tail(n) \in Seq(Labels) /\ Tail(Canonical(n)) = Canonical(Tail(n))
  BY CanonicalTail
<1>3. \A r \in ToSet(c.routes) :
        /\ SameName(r.pattern.name, n) <=> r.pattern.name = Canonical(n)
        /\ SameName(r.pattern.name, Tail(n))
             <=> r.pattern.name = Tail(Canonical(n))
        /\ r.pattern.name # <<>>
  <2>1. SUFFICES ASSUME NEW r \in ToSet(c.routes)
                 PROVE
                 /\ SameName(r.pattern.name, n) <=> r.pattern.name = Canonical(n)
                 /\ SameName(r.pattern.name, Tail(n))
                      <=> r.pattern.name = Tail(Canonical(n))
                 /\ r.pattern.name # <<>>
    OBVIOUS
  <2>2. PICK m \in Seq(Labels) : r.pattern.name = Canonical(m) /\ m # <<>>
    BY <1>1
  <2>3. SameName(Canonical(m), n) <=> Canonical(m) = Canonical(n)
    BY SameNameIs
  <2>4. SameName(Canonical(m), Tail(n)) <=> Canonical(m) = Canonical(Tail(n))
    BY <1>2, SameNameIs
  <2>5. Canonical(m) # <<>>
    BY <2>2, CanonicalFacts
  <2> QED
    BY <1>2, <2>2, <2>3, <2>4, <2>5, Zenon
<1>4. Tail(Canonical(n)) # <<>> => Len(Canonical(n)) > 1
  <2>1. Canonical(n) \in Seq(Label) /\ Canonical(n) # <<>>
    BY CanonicalFacts
  <2> QED
    BY <2>1
<1>5. \A r \in ToSet(c.routes) :
        r.pattern.kind = "exact" /\ Covers(r.pattern, n)
          <=> r.pattern.kind = "exact" /\ r.pattern.name = Canonical(n)
  BY <1>3, Zenon DEF Covers
<1>6. \A r \in ToSet(c.routes) :
        r.pattern.kind = "wildcard" =>
          (Covers(r.pattern, n) <=> SameName(r.pattern.name, Tail(n)))
  BY DEF Covers
<1>7. \A r \in ToSet(c.routes) :
        r.pattern.kind = "wildcard" /\ Covers(r.pattern, n)
          <=> /\ r.pattern.kind = "wildcard" /\ Len(Canonical(n)) > 1
              /\ r.pattern.name = Tail(Canonical(n))
  BY <1>3, <1>4, <1>6, Zenon
<1>8. {r \in ToSet(c.routes) :
         r.pattern.kind = "exact" /\ Covers(r.pattern, n)}
      = Exactly(c, Canonical(n))
  BY <1>5, Zenon DEF Exactly
<1>9. {r \in ToSet(c.routes) :
         r.pattern.kind = "wildcard" /\ Covers(r.pattern, n)}
      = IF Len(Canonical(n)) > 1 THEN Wildly(c, Tail(Canonical(n))) ELSE {}
  <2>1. CASE Len(Canonical(n)) > 1
    BY <1>7, <2>1, Zenon DEF Wildly
  <2>2. CASE ~(Len(Canonical(n)) > 1)
    BY <1>7, <2>2, Zenon
  <2> QED
    BY <2>1, <2>2, Zenon
<1> QED
  BY <1>8, <1>9

\* A client is served by the one endpoint its server name belongs to.
LEMMA SelectIs ==
  ASSUME NEW c, Sound(c), NEW h \in ClientHello, Parses(h)
  PROVE  \/ \E e \in Endpoints(c) : /\ SelectEndpoint(c, Valid(h).sni) = <<e>>
                                    /\ RightEndpoints(c, h) = {e}
         \/ /\ SelectEndpoint(c, Valid(h).sni) = <<>>
            /\ RightEndpoints(c, h) = {}
<1> DEFINE sel == SelectEndpoint(c, Valid(h).sni)
           covering(kind) ==
             {r \in ToSet(c.routes) :
                r.pattern.kind = kind /\ h.sni # <<>> /\ Covers(r.pattern, h.sni[1])}
           best == IF covering("exact") # {} THEN covering("exact")
                   ELSE covering("wildcard")
<1>1. RightEndpoints(c, h) =
        IF best = {} THEN ToSet(c.default) ELSE {r.endpoint : r \in best}
  BY Zenon DEF RightEndpoints
<1>2. \A r \in ToSet(c.routes) : r.endpoint \in Endpoints(c)
  BY SoundRoutes DEF ToSet
<1>3. CASE best = {} /\ sel = c.default
  <2>1. RightEndpoints(c, h) = ToSet(sel)
    BY <1>1, <1>3
  <2>2. CASE c.default = <<>>
    BY <1>3, <2>1, <2>2 DEF ToSet
  <2>3. CASE \E e \in Endpoint : c.default = <<e>>
    <3>1. PICK e \in Endpoint : c.default = <<e>>
      BY <2>3
    <3>2. ToSet(c.default) = {e}
      BY <3>1 DEF ToSet
    <3>3. e \in Endpoints(c)
      BY <3>2, SoundRoutes
    <3> QED
      BY <1>3, <2>1, <3>1, <3>2, <3>3
  <2> QED
    BY <2>2, <2>3, SoundRoutes
<1>4. CASE \E r \in ToSet(c.routes) : best = {r} /\ sel = <<r.endpoint>>
  <2>1. PICK r \in ToSet(c.routes) : best = {r} /\ sel = <<r.endpoint>>
    BY <1>4
  <2>2. RightEndpoints(c, h) = {r.endpoint}
    BY <1>1, <2>1, Zenon
  <2> QED
    BY <1>2, <2>1, <2>2
<1>5. CASE h.sni = <<>>
  <2>1. covering("exact") = {} /\ covering("wildcard") = {}
    BY <1>5, Zenon
  <2>2. Valid(h).sni = <<>>
    BY <1>5 DEF Valid
  <2>3. sel = c.default
    BY <2>2 DEF SelectEndpoint
  <2> QED
    BY <1>3, <2>1, <2>3, Zenon
<1>6. CASE h.sni # <<>>
  <2> DEFINE n == h.sni[1]
             N == Canonical(n)
             W == IF Len(N) > 1 THEN Wildly(c, Tail(N)) ELSE {}
  <2>1. n \in Seq(Labels)
    BY <1>6 DEF ClientHello, Optional
  <2>2. OfBytes(n) # <<>>
    BY <1>6 DEF Parses
  <2>3. n # <<>> /\ OfBytes(n) = N /\ OfBytes(N) = N /\ N # <<>>
    BY <2>1, <2>2, OfBytesIs
  <2>4. Valid(h).sni = <<N>>
    BY <1>6, <2>3 DEF Valid
  <2>5. covering("exact") = Exactly(c, N) /\ covering("wildcard") = W
    BY <1>6, <2>1, <2>3, CoversIs
  <2> HIDE DEF N, W, covering, sel
  <2>6. \/ \E r \in Exactly(c, N) : /\ Exactly(c, N) = {r}
                                    /\ SelectEndpoint(c, <<N>>) = <<r.endpoint>>
        \/ /\ Exactly(c, N) = {}
           /\ \E r \in W : W = {r} /\ SelectEndpoint(c, <<N>>) = <<r.endpoint>>
        \/ /\ Exactly(c, N) = {} /\ W = {}
           /\ SelectEndpoint(c, <<N>>) = c.default
    BY <2>3, SelectNamed DEF W
  <2>7. sel = SelectEndpoint(c, <<N>>)
    BY <2>4 DEF sel
  <2>8. Exactly(c, N) \subseteq ToSet(c.routes) /\ W \subseteq ToSet(c.routes)
    BY DEF Exactly, Wildly, W
  <2> QED
    BY <1>3, <1>4, <2>5, <2>6, <2>7, <2>8
<1> QED
  BY <1>5, <1>6

-----------------------------------------------------------------------------
(* The choice of the parameters.                                           *)

LEMMA FirstBest ==
  ASSUME NEW T, NEW seq \in Seq(T), NEW S, NEW other,
         \A x \in ToSet(seq) : x \in S <=> x \in ToSet(other)
  PROVE  \/ First(seq, S) = <<>> /\ ToSet(seq) \cap ToSet(other) = {}
         \/ \E x \in ToSet(seq) \cap ToSet(other) :
              First(seq, S) = <<x>> /\ BestOf(x, seq, other)
<1>1. CASE First(seq, S) = <<>> /\ \A i \in DOMAIN seq : seq[i] \notin S
  <2>1. ToSet(seq) \cap ToSet(other) = {}
    BY <1>1 DEF ToSet
  <2> QED
    BY <1>1, <2>1
<1>2. CASE \E m \in DOMAIN seq :
             /\ First(seq, S) = <<seq[m]>> /\ seq[m] \in S
             /\ \A j \in 1..(m - 1) : seq[j] \notin S
  <2>1. PICK m \in DOMAIN seq :
          /\ First(seq, S) = <<seq[m]>> /\ seq[m] \in S
          /\ \A j \in 1..(m - 1) : seq[j] \notin S
    BY <1>2
  <2>2. \A i \in DOMAIN seq : seq[i] \in ToSet(seq)
    BY DEF ToSet
  <2>3. \A j \in 1..(m - 1) : j \in DOMAIN seq
    OBVIOUS
  <2>4. \A j \in 1..(m - 1) : seq[j] \notin ToSet(other)
    BY <2>1, <2>2, <2>3
  <2>5. BestOf(seq[m], seq, other)
    BY <2>1, <2>2, <2>4 DEF BestOf
  <2> QED
    BY <2>1, <2>2, <2>5
<1> QED
  BY <1>1, <1>2, FirstIs, Zenon

\* kroopt's own preference decides between the groups of both sides.
LEMMA GroupIs ==
  ASSUME NEW offered \in Seq(Group), NEW allowed \in Seq(Group),
         NEW both, both = ToSet(allowed) \cap ToSet(offered)
  PROVE  \/ SelectGroup(offered, allowed) = <<>> /\ both = {}
         \/ \E g \in both : /\ SelectGroup(offered, allowed) = <<g>>
                            /\ "x25519" \in both => g = "x25519"
<1>1. both \subseteq Group
  BY DEF ToSet
<1>2. /\ GroupPreference \in Seq(Group)
      /\ DOMAIN GroupPreference = {1, 2}
      /\ GroupPreference[1] = "x25519" /\ GroupPreference[2] = "secp256r1"
  BY DEF GroupPreference, Group
<1>3. SelectGroup(offered, allowed) = First(GroupPreference, both)
  BY Zenon DEF SelectGroup
<1>4. \/ /\ First(GroupPreference, both) = <<>>
         /\ \A i \in DOMAIN GroupPreference : GroupPreference[i] \notin both
      \/ \E m \in DOMAIN GroupPreference :
           /\ First(GroupPreference, both) = <<GroupPreference[m]>>
           /\ GroupPreference[m] \in both
           /\ \A j \in 1..(m - 1) : GroupPreference[j] \notin both
  BY <1>2, FirstIs
<1>5. CASE /\ First(GroupPreference, both) = <<>>
           /\ \A i \in DOMAIN GroupPreference : GroupPreference[i] \notin both
  <2>1. both = {}
    BY <1>1, <1>2, <1>5 DEF Group
  <2> QED
    BY <1>3, <1>5, <2>1
<1>6. CASE \E m \in DOMAIN GroupPreference :
           /\ First(GroupPreference, both) = <<GroupPreference[m]>>
           /\ GroupPreference[m] \in both
           /\ \A j \in 1..(m - 1) : GroupPreference[j] \notin both
  <2>1. PICK m \in DOMAIN GroupPreference :
           /\ First(GroupPreference, both) = <<GroupPreference[m]>>
           /\ GroupPreference[m] \in both
           /\ \A j \in 1..(m - 1) : GroupPreference[j] \notin both
    BY <1>6
  <2>2. CASE m = 1
    BY <1>2, <1>3, <2>1, <2>2
  <2>3. CASE m = 2
    <3>1. 1 \in 1..(m - 1)
      BY <2>3
    <3>2. "x25519" \notin both
      BY <1>2, <2>1, <3>1
    <3> QED
      BY <1>3, <2>1, <3>2
  <2> QED
    BY <1>2, <2>2, <2>3
<1> QED
  BY <1>4, <1>5, <1>6

\* The protocol is the best for the side whose preference counts.
LEMMA AlpnIs ==
  ASSUME NEW mode, NEW offered \in Optional(Seq(STRING)),
         NEW allowed \in Seq(STRING),
         NEW p, p = NegotiateAlpn(Preference(mode), offered, allowed)
  PROVE  \/ /\ p = <<>>
            /\ offered # <<>> => ToSet(offered[1]) \cap ToSet(allowed) = {}
         \/ /\ p # <<>>
            /\ IF mode = "clientPreferenceWithinAllowed"
               THEN BestOf(p[1], offered[1], allowed)
               ELSE BestOf(p[1], allowed, offered[1])
<1>1. CASE offered = <<>>
  BY <1>1 DEF NegotiateAlpn
<1>2. CASE offered # <<>> /\ mode = "clientPreferenceWithinAllowed"
  <2>1. p = First(offered[1], ToSet(allowed))
    BY <1>2 DEF NegotiateAlpn, Preference
  <2>2. offered[1] \in Seq(STRING)
    BY <1>2 DEF Optional
  <2>3. \/ p = <<>> /\ ToSet(offered[1]) \cap ToSet(allowed) = {}
        \/ \E x \in ToSet(offered[1]) \cap ToSet(allowed) :
             p = <<x>> /\ BestOf(x, offered[1], allowed)
    BY <2>1, <2>2, FirstBest
  <2> QED
    BY <1>2, <2>3
<1>3. CASE offered # <<>> /\ mode # "clientPreferenceWithinAllowed"
  <2>1. p = First(allowed, ToSet(offered[1]))
    BY <1>3 DEF NegotiateAlpn, Preference
  <2>2. \/ p = <<>> /\ ToSet(allowed) \cap ToSet(offered[1]) = {}
        \/ \E x \in ToSet(allowed) \cap ToSet(offered[1]) :
             p = <<x>> /\ BestOf(x, allowed, offered[1])
    BY <2>1, FirstBest
  <2>3. ToSet(allowed) \cap ToSet(offered[1])
        = ToSet(offered[1]) \cap ToSet(allowed)
    OBVIOUS
  <2> QED
    BY <1>3, <2>2, <2>3
<1> QED
  BY <1>1, <1>2, <1>3

LEMMA EndpointFacts ==
  ASSUME NEW c, Sound(c), NEW e \in Endpoints(c)
  PROVE  /\ e \in Endpoint
         /\ e.schemes \in Seq(Scheme) /\ e.groups \in Seq(Group)
         /\ e.alpn \in Seq(STRING)
         /\ ValidEndpoint(e) /\ NormalGroups(e.groups)
<1>1. e \in Endpoint
  <2>1. ToSet(c.default) \subseteq Endpoint
    <3>1. CASE c.default = <<>>
      BY <3>1 DEF ToSet
    <3>2. CASE \E d \in Endpoint : c.default = <<d>>
      BY <3>2 DEF ToSet
    <3> QED
      BY <3>1, <3>2, SoundRoutes
  <2>2. \A i \in DOMAIN c.routes : c.routes[i].endpoint \in Endpoint
    BY SoundRoutes
  <2> QED
    BY <2>1, <2>2, Zenon DEF Endpoints
<1>2. ValidEndpoint(e) /\ NormalGroups(e.groups)
  BY Zenon DEF Sound
<1> QED
  BY <1>1, <1>2 DEF Endpoint

LEMMA ValidFacts ==
  ASSUME NEW h \in ClientHello, Parses(h)
  PROVE  /\ Valid(h).suite \in ToSet(h.suites)
         /\ Valid(h).shares \in Seq(Group)
         /\ ToSet(Valid(h).shares) = ToSet(h.shares) \cap Group
         /\ ToSet(Valid(h).schemes) = ToSet(h.schemes) \cap Scheme
         /\ Valid(h).alpn = h.alpn /\ h.alpn \in Optional(Seq(STRING))
<1>1. /\ h.suites \in Seq(STRING) /\ h.shares \in Seq(STRING)
      /\ h.schemes \in Seq(STRING) /\ h.alpn \in Optional(Seq(STRING))
  BY DEF ClientHello
<1>2. /\ Valid(h).suite = First(h.suites, Suite)[1]
      /\ Valid(h).shares = Known(h.shares, Group)
      /\ Valid(h).schemes = Known(h.schemes, Scheme)
      /\ Valid(h).alpn = h.alpn
  BY DEF Valid
<1>3. \E i \in DOMAIN h.suites : h.suites[i] \in Suite
  BY Zenon DEF Parses, KnownSuite
<1>4. \E m \in DOMAIN h.suites : First(h.suites, Suite) = <<h.suites[m]>>
  BY <1>1, <1>3, FirstIs
<1>5. First(h.suites, Suite)[1] \in ToSet(h.suites)
  BY <1>4 DEF ToSet
<1>6. /\ Known(h.shares, Group) \in Seq(Group)
      /\ ToSet(Known(h.shares, Group)) = ToSet(h.shares) \cap Group
      /\ ToSet(Known(h.schemes, Scheme)) = ToSet(h.schemes) \cap Scheme
  BY <1>1, KnownKeeps
<1> QED
  BY <1>1, <1>2, <1>5, <1>6

-----------------------------------------------------------------------------
(* The outcome of a negotiation.                                           *)

\* What ParametersAgreed says of one endpoint.
Agreed(c, h, e, p) ==
  /\ p.suite \in ToSet(h.suites)
  /\ BestOf(p.scheme, e.schemes, h.schemes)
  /\ p.group \in ToSet(e.groups) /\ p.group \in ToSet(h.shares)
  /\ {"x25519"} = {"x25519"} \cap ToSet(e.groups) \cap ToSet(h.shares)
     => p.group = "x25519"
  /\ IF p.alpn # <<>>
     THEN IF c.mode = "clientPreferenceWithinAllowed"
          THEN BestOf(p.alpn[1], h.alpn[1], e.alpn)
          ELSE BestOf(p.alpn[1], e.alpn, h.alpn[1])
     ELSE h.alpn # <<>> =>
            /\ ToSet(h.alpn[1]) \cap ToSet(e.alpn) = {}
            /\ c.mode # "requireOverlap"

\* What RefusedForCause says of one endpoint.
Cause(c, h, e) ==
  \/ ToSet(e.schemes) \cap ToSet(h.schemes) = {}
  \/ ToSet(e.groups) \cap ToSet(h.shares) = {}
  \/ /\ c.mode = "requireOverlap" /\ h.alpn # <<>>
     /\ ToSet(h.alpn[1]) \cap ToSet(e.alpn) = {}

\* The negotiation under one endpoint.
LEMMA NegotiateIs ==
  ASSUME NEW c, NEW v, NEW e, SelectEndpoint(c, v.sni) = <<e>>,
         NEW scheme, scheme = First(e.schemes, ToSet(v.schemes)),
         NEW alpn, alpn = NegotiateAlpn(Preference(c.mode), v.alpn, e.alpn),
         NEW group, group = SelectGroup(v.shares, e.groups)
  PROVE  /\ scheme = <<>>
              => Negotiate(c, v) = Refuse("unsupportedSignatureScheme")
         /\ scheme # <<>> /\ v.alpn # <<>> /\ alpn = <<>>
              /\ c.mode = "requireOverlap"
              => Negotiate(c, v) = Refuse("noApplicationProtocol")
         /\ scheme # <<>> /\ ~(v.alpn # <<>> /\ alpn = <<>>
                               /\ c.mode = "requireOverlap")
              /\ group = <<>>
              => Negotiate(c, v) = Refuse("unsupportedGroup")
         /\ scheme # <<>> /\ ~(v.alpn # <<>> /\ alpn = <<>>
                               /\ c.mode = "requireOverlap")
              /\ group # <<>>
              => Negotiate(c, v) =
                   [outcome |-> "negotiated", suite |-> v.suite,
                    group |-> group[1], scheme |-> scheme[1],
                    cert |-> e.chain, alpn |-> alpn]
<1>1. <<e>> # <<>> /\ <<e>>[1] = e
  OBVIOUS
<1>2. Negotiate(c, v) =
        IF scheme = <<>> THEN Refuse("unsupportedSignatureScheme")
        ELSE IF v.alpn # <<>> /\ alpn = <<>> /\ c.mode = "requireOverlap"
        THEN Refuse("noApplicationProtocol")
        ELSE IF group = <<>> THEN Refuse("unsupportedGroup")
        ELSE [outcome |-> "negotiated", suite |-> v.suite, group |-> group[1],
              scheme |-> scheme[1], cert |-> e.chain, alpn |-> alpn]
  BY <1>1, Zenon DEF Negotiate, NoOverlapFatal
<1> QED
  BY <1>2, Zenon

LEMMA OutcomeIs ==
  ASSUME NEW c, Sound(c), NEW h \in ClientHello, Parses(h),
         NEW p, p = Negotiate(c, Valid(h))
  PROVE  \/ \E e \in Endpoints(c) :
              /\ RightEndpoints(c, h) = {e}
              /\ p.outcome = "negotiated" /\ p.cert = e.chain
              /\ Agreed(c, h, e, p)
         \/ /\ p.outcome = "refused"
            /\ \A e \in RightEndpoints(c, h) : Cause(c, h, e)
<1> DEFINE v == Valid(h)
<1>1. CASE SelectEndpoint(c, v.sni) = <<>> /\ RightEndpoints(c, h) = {}
  <2>1. p = Refuse("unsupportedSignatureScheme")
    BY <1>1 DEF Negotiate
  <2>2. p.outcome = "refused"
    BY <2>1 DEF Refuse
  <2> QED
    BY <1>1, <2>2
<1>2. CASE \E e \in Endpoints(c) : /\ SelectEndpoint(c, v.sni) = <<e>>
                                   /\ RightEndpoints(c, h) = {e}
  <2>1. PICK e \in Endpoints(c) : /\ SelectEndpoint(c, v.sni) = <<e>>
                                  /\ RightEndpoints(c, h) = {e}
    BY <1>2
  <2> DEFINE scheme == First(e.schemes, ToSet(v.schemes))
             alpn == NegotiateAlpn(Preference(c.mode), v.alpn, e.alpn)
             group == SelectGroup(v.shares, e.groups)
             missed == v.alpn # <<>> /\ alpn = <<>> /\ c.mode = "requireOverlap"
  <2>2. /\ e.schemes \in Seq(Scheme) /\ e.groups \in Seq(Group)
        /\ e.alpn \in Seq(STRING)
    BY EndpointFacts
  <2>3. /\ v.suite \in ToSet(h.suites)
        /\ v.shares \in Seq(Group)
        /\ ToSet(v.shares) = ToSet(h.shares) \cap Group
        /\ ToSet(v.schemes) = ToSet(h.schemes) \cap Scheme
        /\ v.alpn = h.alpn /\ h.alpn \in Optional(Seq(STRING))
    BY ValidFacts
  <2>4. \/ scheme = <<>> /\ ToSet(e.schemes) \cap ToSet(h.schemes) = {}
        \/ \E x : scheme = <<x>> /\ BestOf(x, e.schemes, h.schemes)
    <3>1. \A x \in ToSet(e.schemes) : x \in Scheme
      BY <2>2 DEF ToSet
    <3>2. \A x \in ToSet(e.schemes) :
            x \in ToSet(v.schemes) <=> x \in ToSet(h.schemes)
      BY <2>3, <3>1
    <3> HIDE DEF v
    <3> QED
      BY <2>2, <3>2, FirstBest
  <2>5. ToSet(e.groups) \cap ToSet(v.shares) = ToSet(e.groups) \cap ToSet(h.shares)
    <3>1. \A x \in ToSet(e.groups) : x \in Group
      BY <2>2 DEF ToSet
    <3> QED
      BY <2>3, <3>1
  <2>6. LET both == ToSet(e.groups) \cap ToSet(h.shares)
        IN  \/ group = <<>> /\ both = {}
            \/ \E g \in both : /\ group = <<g>>
                               /\ "x25519" \in both => g = "x25519"
    <3> HIDE DEF v
    <3> QED
      BY <2>2, <2>3, <2>5, GroupIs
  <2>7. \/ /\ alpn = <<>>
           /\ h.alpn # <<>> => ToSet(h.alpn[1]) \cap ToSet(e.alpn) = {}
        \/ /\ alpn # <<>>
           /\ IF c.mode = "clientPreferenceWithinAllowed"
              THEN BestOf(alpn[1], h.alpn[1], e.alpn)
              ELSE BestOf(alpn[1], e.alpn, h.alpn[1])
    <3> HIDE DEF v
    <3> QED
      BY <2>2, <2>3, AlpnIs
  <2> HIDE DEF v
  <2>8. /\ scheme = <<>> => p = Refuse("unsupportedSignatureScheme")
        /\ scheme # <<>> /\ missed => p = Refuse("noApplicationProtocol")
        /\ scheme # <<>> /\ ~missed /\ group = <<>>
             => p = Refuse("unsupportedGroup")
        /\ scheme # <<>> /\ ~missed /\ group # <<>>
             => p = [outcome |-> "negotiated", suite |-> v.suite,
                     group |-> group[1], scheme |-> scheme[1],
                     cert |-> e.chain, alpn |-> alpn]
    BY <2>1, NegotiateIs, ZenonT(30) DEF v
  <2>9. \A error : Refuse(error).outcome = "refused"
    BY DEF Refuse
  <2> HIDE DEF scheme, alpn, group
  <2>10. CASE scheme = <<>>
    <3>1. Cause(c, h, e)
      BY <2>4, <2>10, Zenon DEF Cause
    <3> QED
      BY <2>1, <2>8, <2>9, <2>10, <3>1
  <2>11. CASE scheme # <<>> /\ missed
    <3>1. Cause(c, h, e)
      BY <2>3, <2>7, <2>11 DEF Cause
    <3> QED
      BY <2>1, <2>8, <2>9, <2>11, <3>1
  <2>12. CASE scheme # <<>> /\ ~missed /\ group = <<>>
    <3>1. Cause(c, h, e)
      BY <2>6, <2>12 DEF Cause
    <3> QED
      BY <2>1, <2>8, <2>9, <2>12, <3>1
  <2>13. CASE scheme # <<>> /\ ~missed /\ group # <<>>
    <3>1. /\ p.outcome = "negotiated" /\ p.suite = v.suite
          /\ p.group = group[1] /\ p.scheme = scheme[1]
          /\ p.cert = e.chain /\ p.alpn = alpn
      BY <2>8, <2>13
    <3>2. BestOf(p.scheme, e.schemes, h.schemes)
      BY <2>4, <2>13, <3>1
    <3>3. /\ p.group \in ToSet(e.groups) /\ p.group \in ToSet(h.shares)
          /\ {"x25519"} = {"x25519"} \cap ToSet(e.groups) \cap ToSet(h.shares)
             => p.group = "x25519"
      BY <2>6, <2>13, <3>1
    <3>4. IF p.alpn # <<>>
          THEN IF c.mode = "clientPreferenceWithinAllowed"
               THEN BestOf(p.alpn[1], h.alpn[1], e.alpn)
               ELSE BestOf(p.alpn[1], e.alpn, h.alpn[1])
          ELSE h.alpn # <<>> =>
                 /\ ToSet(h.alpn[1]) \cap ToSet(e.alpn) = {}
                 /\ c.mode # "requireOverlap"
      BY <2>3, <2>7, <2>13, <3>1
    <3>5. Agreed(c, h, e, p)
      BY <2>3, <3>1, <3>2, <3>3, <3>4, Zenon DEF Agreed
    <3> QED
      BY <2>1, <3>1, <3>5
  <2> QED
    BY <2>10, <2>11, <2>12, <2>13
<1> QED
  BY <1>1, <1>2, SelectIs

-----------------------------------------------------------------------------
(* Every route of a sound configuration has a client.                      *)

\* The label of AnyClient that no name of a configuration has.
AnyLabel == [text |-> "any", upper |-> FALSE, form |-> "plain"]

LEMMA WildcardName ==
  ASSUME NEW c, Sound(c), NEW n \in Seq(Label), CanonicalName(n),
         NEW N, N = <<AnyLabel>> \o n, Len(N) <= MaxLabels
  PROVE  /\ N # <<>> /\ OfBytes(N) = N /\ Len(N) > 1 /\ Tail(N) = n
         /\ Exactly(c, N) = {}
<1> DEFINE A == AnyLabel
<1>1. /\ A.text = "any" /\ A.upper = FALSE /\ A.form = "plain"
      /\ Lower(A) = A
  <2> DEFINE Like == [text : {"any"}, upper : BOOLEAN, form : {"plain"}]
  <2>1. A \in Like /\ A.upper = FALSE
    BY DEF AnyLabel
  <2>2. \A l \in Like : /\ l.text = "any" /\ l.form = "plain"
                        /\ l.upper = FALSE => Lower(l) = l
    BY DEF Lower
  <2> QED
    BY <2>1, <2>2, Zenon
<1> HIDE DEF A
<1> DEFINE T == Label \cup {A}
<1>2. /\ n \in Seq(T) /\ <<A>> \in Seq(T) /\ n # <<>> /\ N = <<A>> \o n
  BY DEF CanonicalName, A
<1> HIDE DEF T
<1>3. /\ N \in Seq(T) /\ Len(N) = Len(n) + 1 /\ Len(n) > 0 /\ Len(n) \in Nat
      /\ N[1] = A /\ \A i \in 1..Len(n) : N[i + 1] = n[i]
      /\ Tail(N) = n /\ DOMAIN N = 1..(Len(n) + 1) /\ DOMAIN n = 1..Len(n)
  BY <1>2
<1>4. \A i \in 1..Len(n) : \E l \in Labels : n[i] = Lower(l)
  BY <1>3 DEF CanonicalName
<1>5. \A i \in 1..Len(n) : n[i].form \in {"plain", "octet"}
  <2>1. PICK m \in Seq(Labels) : n = Canonical(m) /\ m # <<>>
    BY NameWritten
  <2>2. n = OfBytes(n) /\ n # <<>>
    BY DEF CanonicalName
  <2>3. \A i \in DOMAIN n : n[i].form \in {"plain", "octet"}
    BY <2>2, Zenon DEF OfBytes
  <2> QED
    BY <1>3, <2>3
<1>6. \A i \in DOMAIN N : N[i].form \in {"plain", "octet"} /\ Lower(N[i]) = N[i]
  <2>1. \A i \in 1..Len(n) : Lower(n[i]) = n[i]
    BY <1>4, LabelFacts
  <2>2. ASSUME NEW i \in DOMAIN N
        PROVE  N[i].form \in {"plain", "octet"} /\ Lower(N[i]) = N[i]
    <3>1. CASE i = 1
      BY <1>1, <1>3, <3>1
    <3>2. CASE i # 1
      <4>1. i - 1 \in 1..Len(n) /\ (i - 1) + 1 = i
        BY <1>3, <3>2
      <4>2. N[i] = n[i - 1]
        BY <1>3, <4>1
      <4> QED
        BY <1>5, <2>1, <4>1, <4>2
    <3> QED
      BY <3>1, <3>2
  <2> QED
    BY <2>2
<1>7. ~AddressLiteral(N)
  <2>1. N[1].form # "octet" /\ 1 \in DOMAIN N
    BY <1>1, <1>3
  <2> QED
    BY <2>1, Zenon DEF AddressLiteral
<1>8. Canonical(N) = N
  <2>1. Canonical(N) = [i \in DOMAIN N |-> Lower(N[i])]
    BY Zenon DEF Canonical, Lower
  <2>2. Canonical(N) = [i \in DOMAIN N |-> N[i]]
    BY <1>6, <2>1
  <2>3. \A f \in Seq(T) : f = [i \in DOMAIN f |-> f[i]]
    OBVIOUS
  <2> QED
    BY <1>3, <2>2, <2>3, Zenon
<1>9. OfBytes(N) = N
  BY <1>6, <1>7, <1>8, Zenon DEF OfBytes
<1>10. Exactly(c, N) = {}
  <2>1. SUFFICES ASSUME NEW i \in DOMAIN c.routes,
                        c.routes[i].pattern.name = N
                 PROVE  FALSE
    BY DEF Exactly, ToSet
  <2>2. \A k \in DOMAIN N : \E l \in Labels : N[k] = Lower(l)
    <3>1. CanonicalName(c.routes[i].pattern.name)
      BY DEF Sound
    <3>2. CanonicalName(N)
      BY <2>1, <3>1
    <3> QED
      BY <3>2, Zenon DEF CanonicalName
  <2>3. PICK l \in Labels : A = Lower(l)
    BY <1>3, <2>2
  <2>4. l.text = "any"
    BY <1>1, <2>3, LabelFacts
  <2> QED
    BY <2>4, LabelsAssumption
<1> QED
  BY <1>3, <1>9, <1>10

LEMMA ExactSelected ==
  ASSUME NEW c, Sound(c), NEW n, n # <<>>, OfBytes(n) = n,
         NEW r \in Exactly(c, n)
  PROVE  SelectEndpoint(c, <<n>>) = <<r.endpoint>>
<1> DEFINE W == IF Len(n) > 1 THEN Wildly(c, Tail(n)) ELSE {}
<1>1. W = IF Len(n) > 1 THEN Wildly(c, Tail(n)) ELSE {}
  OBVIOUS
<1> HIDE DEF W
<1> QED
  BY <1>1, SelectNamed

LEMMA WildSelected ==
  ASSUME NEW c, Sound(c), NEW n, n # <<>>, OfBytes(n) = n, Len(n) > 1,
         Exactly(c, n) = {}, NEW r \in Wildly(c, Tail(n))
  PROVE  SelectEndpoint(c, <<n>>) = <<r.endpoint>>
<1> DEFINE W == IF Len(n) > 1 THEN Wildly(c, Tail(n)) ELSE {}
<1>1. W = IF Len(n) > 1 THEN Wildly(c, Tail(n)) ELSE {}
  OBVIOUS
<1>2. r \in W
  OBVIOUS
<1> HIDE DEF W
<1> QED
  BY <1>1, <1>2, SelectNamed

\* The endpoint of a route is selected for the name AnyClient asks for.
LEMMA RouteSelected ==
  ASSUME NEW c, Sound(c), NEW i \in DOMAIN c.routes, NEW name,
         name = IF c.routes[i].pattern.kind = "exact"
                THEN c.routes[i].pattern.name
                ELSE <<AnyLabel>> \o c.routes[i].pattern.name,
         Len(name) <= MaxLabels
  PROVE  SelectEndpoint(c, <<name>>) = <<c.routes[i].endpoint>>
<1> DEFINE r == c.routes[i]
<1>1. CanonicalName(r.pattern.name) /\ r \in ToSet(c.routes)
  BY DEF Sound, ToSet
<1>2. r.pattern.name \in Seq(Label)
  <2>1. c.routes \in Seq(Route(Label))
    BY DEF Sound
  <2>2. r \in Route(Label)
    BY <2>1
  <2> QED
    BY <2>2 DEF Route
<1>3. r.pattern.kind \in {"exact", "wildcard"}
  BY SoundRoutes
<1> HIDE DEF r
<1>4. CASE r.pattern.kind = "exact"
  <2>1. name = r.pattern.name
    BY <1>4 DEF r
  <2>2. name # <<>> /\ OfBytes(name) = name
    BY <1>1, <2>1 DEF CanonicalName
  <2>3. r \in Exactly(c, name)
    BY <1>1, <1>4, <2>1 DEF Exactly
  <2>4. SelectEndpoint(c, <<name>>) = <<r.endpoint>>
    BY <2>2, <2>3, ExactSelected, Zenon
  <2> QED
    BY <2>4 DEF r
<1>5. CASE r.pattern.kind = "wildcard"
  <2>1. name = <<AnyLabel>> \o r.pattern.name
    BY <1>5 DEF r
  <2>2. /\ name # <<>> /\ OfBytes(name) = name /\ Len(name) > 1
        /\ Tail(name) = r.pattern.name /\ Exactly(c, name) = {}
    BY <1>1, <1>2, <2>1, WildcardName
  <2>3. r \in Wildly(c, Tail(name))
    BY <1>1, <1>5, <2>2 DEF Wildly
  <2>4. SelectEndpoint(c, <<name>>) = <<r.endpoint>>
    BY <2>2, <2>3, WildSelected, Zenon
  <2> QED
    BY <2>4 DEF r
<1> QED
  BY <1>3, <1>4, <1>5

LEMMA RouteServes ==
  ASSUME NEW c, Sound(c), NEW i \in DOMAIN c.routes, NEW name,
         SelectEndpoint(c, <<name>>) = <<c.routes[i].endpoint>>
  PROVE  /\ Negotiate(c, AnyClient(name)).outcome = "negotiated"
         /\ Negotiate(c, AnyClient(name)).cert = c.routes[i].endpoint.chain
<1> DEFINE e == c.routes[i].endpoint
           v == AnyClient(name)
           scheme == First(e.schemes, ToSet(v.schemes))
           alpn == NegotiateAlpn(Preference(c.mode), v.alpn, e.alpn)
           group == SelectGroup(v.shares, e.groups)
<1>1. e \in Endpoints(c)
  BY SoundRoutes
<1>2. /\ e.schemes \in Seq(Scheme) /\ e.groups \in Seq(Group)
      /\ ValidEndpoint(e) /\ NormalGroups(e.groups)
  BY <1>1, EndpointFacts
<1>3. /\ v.sni = <<name>> /\ v.alpn = <<>> /\ v.shares = GroupPreference
      /\ v.schemes
         = <<"ed25519", "ecdsaSecp256r1Sha256", "rsaPssRsaeSha256">>
  BY DEF AnyClient
<1> HIDE DEF e, v
<1>4. scheme # <<>>
  <2>1. \A s \in Scheme : s \in ToSet(v.schemes)
    <3> DEFINE all == <<"ed25519", "ecdsaSecp256r1Sha256", "rsaPssRsaeSha256">>
    <3>1. /\ DOMAIN all = 1..3 /\ all[1] = "ed25519"
          /\ all[2] = "ecdsaSecp256r1Sha256" /\ all[3] = "rsaPssRsaeSha256"
      OBVIOUS
    <3>2. all[1] \in ToSet(all) /\ all[2] \in ToSet(all) /\ all[3] \in ToSet(all)
      BY <3>1 DEF ToSet
    <3> HIDE DEF all
    <3>3. \A s \in Scheme : s \in ToSet(all)
      BY <3>1, <3>2 DEF Scheme
    <3> QED
      BY <1>3, <3>3 DEF all
  <2>2. ToSet(e.schemes) # {}
    BY <1>2 DEF ValidEndpoint
  <2>3. PICK k \in DOMAIN e.schemes : TRUE
    BY <2>2 DEF ToSet
  <2>4. e.schemes[k] \in ToSet(v.schemes)
    BY <1>2, <2>1, <2>3
  <2>5. \E m \in DOMAIN e.schemes : scheme = <<e.schemes[m]>>
    BY <1>2, <2>3, <2>4, FirstIs
  <2> QED
    BY <2>5
<1>5. group # <<>>
  <2>1. /\ GroupPreference \in Seq(Group)
        /\ DOMAIN GroupPreference = {1, 2}
        /\ GroupPreference[1] = "x25519" /\ GroupPreference[2] = "secp256r1"
    BY DEF GroupPreference, Group
  <2>2. GroupPreference[1] \in ToSet(GroupPreference)
        /\ GroupPreference[2] \in ToSet(GroupPreference)
    BY <2>1 DEF ToSet
  <2>3. \A g \in Group : g \in ToSet(GroupPreference)
    BY <2>1, <2>2 DEF Group
  <2>4. e.groups # <<>>
    BY <1>2 DEF NormalGroups
  <2>5. e.groups[1] \in Group /\ 1 \in DOMAIN e.groups
    BY <1>2, <2>4
  <2>6. e.groups[1] \in ToSet(e.groups)
    BY <2>5 DEF ToSet
  <2>7. ToSet(e.groups) \cap ToSet(GroupPreference) # {}
    BY <2>3, <2>5, <2>6
  <2> DEFINE both == ToSet(e.groups) \cap ToSet(GroupPreference)
  <2>8. \E g : SelectGroup(GroupPreference, e.groups) = <<g>>
    <3>1. both # {} /\ both = ToSet(e.groups) \cap ToSet(GroupPreference)
      BY <2>7
    <3> HIDE DEF both
    <3>2. \/ SelectGroup(GroupPreference, e.groups) = <<>> /\ both = {}
          \/ \E g \in both : SelectGroup(GroupPreference, e.groups) = <<g>>
      BY <1>2, <2>1, <3>1, GroupIs
    <3> QED
      BY <3>1, <3>2
  <2> QED
    BY <1>3, <2>8
<1> HIDE DEF scheme, alpn, group
<1>6. SelectEndpoint(c, v.sni) = <<e>>
  BY <1>3 DEF e
<1>7. Negotiate(c, v) = [outcome |-> "negotiated", suite |-> v.suite,
                         group |-> group[1], scheme |-> scheme[1],
                         cert |-> e.chain, alpn |-> alpn]
  BY <1>3, <1>4, <1>5, <1>6, NegotiateIs, Zenon DEF scheme, group, alpn
<1> QED
  BY <1>7 DEF v, e

-----------------------------------------------------------------------------
(* The invariant.                                                          *)

\* A connection keeps a sound configuration, and its outcome is what that
\* configuration and its ClientHello give.
ConnSound(k) ==
  /\ k = [config |-> k.config, hello |-> k.hello, params |-> k.params]
  /\ Sound(k.config)
  /\ \/ k.hello = <<>> /\ k.params = NoParameters
     \/ \E h \in Hellos :
          /\ k.hello = <<h>>
          /\ k.params = IF Parses(h) THEN Negotiate(k.config, Valid(h))
                        ELSE Refuse("decode")

NegotiationInv ==
  /\ server # <<>> => Sound(server[1])
  /\ conn # <<>> => ConnSound(conn[1])

LEMMA NegotiationStep ==
  ASSUME NegotiationInv, [NegotiationNext]_negotiationVars
  PROVE  NegotiationInv'
<1>1. ASSUME NEW cfg \in Configs, Load(cfg)
      PROVE  NegotiationInv'
  <2>1. Sound([cfg EXCEPT !.routes = ValidateSniRoutes(@)])
    BY <1>1, LoadedIsSound DEF Load
  <2>2. /\ server' = <<[cfg EXCEPT !.routes = ValidateSniRoutes(@)]>>
        /\ conn' = conn
    BY <1>1 DEF Load
  <2>3. server'[1] = [cfg EXCEPT !.routes = ValidateSniRoutes(@)]
    BY <2>2
  <2> QED
    BY <2>1, <2>2, <2>3, Zenon DEF NegotiationInv
<1>2. CASE Accept
  <2> DEFINE k == [config |-> server[1], hello |-> <<>>, params |-> NoParameters]
  <2>1. server # <<>> /\ server' = server /\ conn' = <<k>>
    BY <1>2 DEF Accept
  <2>2. /\ k.config = server[1] /\ k.hello = <<>> /\ k.params = NoParameters
    OBVIOUS
  <2>3. k = [config |-> k.config, hello |-> k.hello, params |-> k.params]
    OBVIOUS
  <2> HIDE DEF k
  <2>4. ConnSound(k)
    BY <2>1, <2>2, <2>3, Zenon DEF ConnSound, NegotiationInv
  <2>5. conn'[1] = k
    BY <2>1
  <2> QED
    BY <2>1, <2>4, <2>5, Zenon DEF NegotiationInv
<1>3. ASSUME NEW h \in Hellos, Hello(h)
      PROVE  NegotiationInv'
  <2> DEFINE old == conn[1]
             k == [old EXCEPT !.hello = <<h>>,
                     !.params = IF Parses(h) THEN Negotiate(old.config, Valid(h))
                                ELSE Refuse("decode")]
  <2>1. conn # <<>> /\ server' = server /\ conn' = <<k>>
    BY <1>3 DEF Hello
  <2>2. ConnSound(old)
    BY <2>1 DEF NegotiationInv
  <2>3. old = [config |-> old.config, hello |-> old.hello,
               params |-> old.params]
        /\ Sound(old.config)
    BY <2>2, Zenon DEF ConnSound
  <2> DEFINE p == IF Parses(h) THEN Negotiate(old.config, Valid(h))
                  ELSE Refuse("decode")
  <2> HIDE DEF old, p
  <2>4. k = [config |-> old.config, hello |-> <<h>>, params |-> p]
    <3>1. k = [old EXCEPT !.hello = <<h>>, !.params = p]
      BY DEF p
    <3> HIDE DEF k
    <3>2. old \in [config : {old.config}, hello : {old.hello},
                   params : {old.params}]
      BY <2>3
    <3> QED
      BY <3>1, <3>2
  <2>5. /\ k.config = old.config /\ k.hello = <<h>> /\ k.params = p
        /\ k = [config |-> k.config, hello |-> k.hello, params |-> k.params]
    BY <2>4
  <2> HIDE DEF k
  <2>6. ConnSound(k)
    BY <2>3, <2>5, Zenon DEF ConnSound, p
  <2>7. conn'[1] = k
    BY <2>1
  <2> QED
    BY <2>1, <2>6, <2>7, Zenon DEF NegotiationInv
<1>4. CASE Disconnect
  BY <1>4 DEF Disconnect, NegotiationInv
<1>5. CASE UNCHANGED negotiationVars
  BY <1>5 DEF negotiationVars, NegotiationInv
<1> QED
  BY <1>1, <1>2, <1>3, <1>4, <1>5 DEF NegotiationNext

\* A configuration in force or kept by a connection is validated, and the
\* outcome of a connection is the one Negotiate gives for its configuration.
THEOREM NegotiationInvariant == NegotiationSpec => []NegotiationInv
<1>1. NegotiationInit => NegotiationInv
  BY DEF NegotiationInit, NegotiationInv
<1>2. NegotiationInv /\ [NegotiationNext]_negotiationVars => NegotiationInv'
  BY NegotiationStep
<1> QED
  BY <1>1, <1>2, PTL DEF NegotiationSpec

\* What a connection has once its client spoke.
LEMMA ConnOutcome ==
  ASSUME NegotiationInv, Negotiated \/ Refused,
         NEW c, c = conn[1].config, NEW h, h = conn[1].hello[1],
         NEW p, p = conn[1].params
  PROVE  /\ h \in ClientHello /\ Sound(c)
         /\ p = IF Parses(h) THEN Negotiate(c, Valid(h)) ELSE Refuse("decode")
<1>1. ConnSound(conn[1])
  BY DEF NegotiationInv, Negotiated, Refused
<1>2. p.outcome \in {"negotiated", "refused"}
  BY DEF Negotiated, Refused
<1>3. NoParameters.outcome = "pending"
  BY DEF NoParameters
<1>4. p # NoParameters
  BY <1>2, <1>3
<1>5. PICK g \in Hellos :
        /\ conn[1].hello = <<g>>
        /\ p = IF Parses(g) THEN Negotiate(c, Valid(g)) ELSE Refuse("decode")
  BY <1>1, <1>4, Zenon DEF ConnSound
<1>6. h = g
  BY <1>5
<1> QED
  BY <1>1, <1>5, <1>6, HellosAssumption, Zenon DEF ConnSound

LEMMA ConnNegotiated ==
  ASSUME NegotiationInv, Negotiated,
         NEW c, c = conn[1].config, NEW h, h = conn[1].hello[1],
         NEW p, p = conn[1].params
  PROVE  \E e \in Endpoints(c) :
           /\ RightEndpoints(c, h) = {e} /\ p.cert = e.chain
           /\ Agreed(c, h, e, p)
<1>1. /\ h \in ClientHello /\ Sound(c)
      /\ p = IF Parses(h) THEN Negotiate(c, Valid(h)) ELSE Refuse("decode")
  BY ConnOutcome
<1>2. p.outcome = "negotiated"
  BY DEF Negotiated
<1>3. Parses(h)
  <2>1. Refuse("decode").outcome = "refused"
    BY DEF Refuse
  <2> QED
    BY <1>1, <1>2, <2>1
<1> QED
  BY <1>1, <1>2, <1>3, OutcomeIs

\* The certificate shown is that of the one endpoint the name belongs to,
\* under the configuration the connection was accepted with.
THEOREM OwnEndpointCorrect == NegotiationSpec => []OwnEndpoint
<1>1. NegotiationInv => OwnEndpoint
  <2>1. SUFFICES ASSUME NegotiationInv, Negotiated
                 PROVE  {e.chain : e \in RightEndpoints(conn[1].config,
                                                        conn[1].hello[1])}
                        = {conn[1].params.cert}
    BY DEF OwnEndpoint
  <2>2. PICK e \in Endpoints(conn[1].config) :
          /\ RightEndpoints(conn[1].config, conn[1].hello[1]) = {e}
          /\ conn[1].params.cert = e.chain
    BY <2>1, ConnNegotiated
  <2> QED
    BY <2>2, Zenon
<1> QED
  BY <1>1, NegotiationInvariant, PTL

\* Suite, group, scheme and protocol are the best both sides know.
THEOREM ParametersCorrect == NegotiationSpec => []ParametersAgreed
<1>1. NegotiationInv => ParametersAgreed
  <2>1. SUFFICES ASSUME NegotiationInv, Negotiated
                 PROVE  \A e \in RightEndpoints(conn[1].config,
                                                conn[1].hello[1]) :
                          Agreed(conn[1].config, conn[1].hello[1], e,
                                 conn[1].params)
    BY Zenon DEF ParametersAgreed, Agreed
  <2>2. PICK e \in Endpoints(conn[1].config) :
          /\ RightEndpoints(conn[1].config, conn[1].hello[1]) = {e}
          /\ Agreed(conn[1].config, conn[1].hello[1], e, conn[1].params)
    BY <2>1, ConnNegotiated
  <2> QED
    BY <2>2
<1> QED
  BY <1>1, NegotiationInvariant, PTL

\* A refusal has a cause that lies in the lists of both sides.
THEOREM RefusalsCorrect == NegotiationSpec => []RefusedForCause
<1>1. NegotiationInv => RefusedForCause
  <2>1. SUFFICES ASSUME NegotiationInv, Refused, Parses(conn[1].hello[1])
                 PROVE  \A e \in RightEndpoints(conn[1].config,
                                                conn[1].hello[1]) :
                          Cause(conn[1].config, conn[1].hello[1], e)
    BY Zenon DEF RefusedForCause, Cause
  <2> DEFINE c == conn[1].config
             h == conn[1].hello[1]
             p == conn[1].params
  <2>2. h \in ClientHello /\ Sound(c) /\ p = Negotiate(c, Valid(h))
    BY <2>1, ConnOutcome
  <2>3. p.outcome = "refused"
    BY <2>1 DEF Refused
  <2> HIDE DEF c, h, p
  <2>4. Parses(h)
    BY <2>1 DEF h
  <2>5. \A e \in RightEndpoints(c, h) : Cause(c, h, e)
    BY <2>2, <2>3, <2>4, OutcomeIs
  <2> QED
    BY <2>5 DEF c, h
<1> QED
  BY <1>1, NegotiationInvariant, PTL

\* Every route of a configuration in force serves some client.
THEOREM RoutesServeCorrect == NegotiationSpec => []EveryRouteServes
<1>1. NegotiationInv => EveryRouteServes
  <2>1. SUFFICES ASSUME NegotiationInv, server # <<>>,
                        NEW i \in DOMAIN server[1].routes, NEW name,
                        name = IF server[1].routes[i].pattern.kind = "exact"
                               THEN server[1].routes[i].pattern.name
                               ELSE <<AnyLabel>>
                                    \o server[1].routes[i].pattern.name,
                        Len(name) <= MaxLabels
                 PROVE  /\ Negotiate(server[1], AnyClient(name)).outcome
                           = "negotiated"
                        /\ Negotiate(server[1], AnyClient(name)).cert
                           = server[1].routes[i].endpoint.chain
    BY Zenon DEF EveryRouteServes, AnyLabel
  <2>2. Sound(server[1])
    BY <2>1 DEF NegotiationInv
  <2>3. SelectEndpoint(server[1], <<name>>) = <<server[1].routes[i].endpoint>>
    BY <2>1, <2>2, RouteSelected
  <2> QED
    BY <2>1, <2>2, <2>3, RouteServes
<1> QED
  BY <1>1, NegotiationInvariant, PTL
=============================================================================
