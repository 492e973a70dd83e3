-------------------------- MODULE TlsStreamProofs ---------------------------
(***************************************************************************)
(* Proofs about the path of the octets: what the client wrote is framed in *)
(* order and whole, no octet is lost on the way, and the replies arrive as *)
(* produced.  They hold in every reachable state for any scripts, limits   *)
(* and capacities.                                                         *)
(***************************************************************************)
EXTENDS TlsStream, ListFacts

Octets == Seq(Nat)
Record == [type : Nat, length : Nat, body : Octets]
Failure == {"no", "budget", "reasm", "type", "oversize", "eof"}
Core == [reasm : Octets, seen : Nat, messages : Seq(Octets), failed : Failure]

StreamType ==
  /\ toServer \in Octets /\ toClient \in Octets
  /\ script \in Scripts /\ written \in 0..Len(Stream) /\ got \in Octets
  /\ reactorIn \in Octets /\ reactorOut \in Octets
  /\ inbound \in Octets /\ taken \in Seq(Record) /\ core \in Core
  /\ produced \in Octets

-----------------------------------------------------------------------------
(* Lists of octets.                                                        *)

LEMMA MinOfTwo ==
  ASSUME NEW a \in Int, NEW b \in Int
  PROVE  Min({a, b}) = IF a <= b THEN a ELSE b
<1>1. CASE a <= b
  <2>1. \E x \in {a, b} : \A y \in {a, b} : x <= y
    BY <1>1
  <2> QED
    BY <1>1, <2>1 DEF Min
<1>2. CASE ~(a <= b)
  <2>1. \E x \in {a, b} : \A y \in {a, b} : x <= y
    BY <1>2
  <2> QED
    BY <1>2, <2>1 DEF Min
<1> QED
  BY <1>1, <1>2

\* A list is what it begins with and the rest.
LEMMA CutInTwo ==
  ASSUME NEW S, NEW s \in Seq(S), NEW k \in 0..Len(s)
  PROVE  /\ SubSeq(s, 1, k) \in Seq(S) /\ DropFirst(s, k) \in Seq(S)
         /\ SubSeq(s, 1, k) \o DropFirst(s, k) = s
         /\ Len(SubSeq(s, 1, k)) = k /\ Len(DropFirst(s, k)) = Len(s) - k
<1>1. SubSeq(s, 1, k) \o SubSeq(s, k + 1, Len(s)) = SubSeq(s, 1, Len(s))
  <2>1. /\ 1 \in 1..(Len(s) + 1) /\ k \in (1 - 1)..Len(s)
        /\ Len(s) \in k..Len(s)
    OBVIOUS
  <2> QED
    BY <2>1, ConcatAdjacentSubSeq
<1>2. SubSeq(s, 1, Len(s)) = s
  OBVIOUS
<1>3. SubSeq(s, 1, k) \in Seq(S) /\ SubSeq(s, k + 1, Len(s)) \in Seq(S)
  OBVIOUS
<1>4. Len(SubSeq(s, 1, k)) = k /\ Len(SubSeq(s, k + 1, Len(s))) = Len(s) - k
  OBVIOUS
<1> QED
  BY <1>1, <1>2, <1>3, <1>4 DEF DropFirst

LEMMA Assoc ==
  ASSUME NEW S
  PROVE  \A a, b, c \in Seq(S) : (a \o b) \o c = a \o (b \o c)
BY ConcatAssociative

LEMMA OctetsAssoc ==
  \A a, b, c \in Octets : (a \o b) \o c = a \o (b \o c)
BY Assoc DEF Octets

LEMMA Joined ==
  ASSUME NEW S
  PROVE  \A a, b \in Seq(S) : a \o b \in Seq(S) /\ Len(a \o b) = Len(a) + Len(b)
BY ConcatProperties

\* The members of a list mapped, one more member being one more image.
LEMMA EncodeAppend ==
  ASSUME NEW rs \in Seq(Record), NEW r \in Record
  PROVE  /\ EncodeAll(rs) \in Octets /\ Encode(r) \in Octets
         /\ EncodeAll(Append(rs, r)) = EncodeAll(rs) \o Encode(r)
<1> DEFINE E(x) == [i \in DOMAIN x |-> Encode(x[i])]
<1>1. \A x \in Record : Encode(x) \in Octets
  <2>1. SUFFICES ASSUME NEW x \in Record
                 PROVE  Encode(x) \in Octets
    OBVIOUS
  <2>2. x.type \in Nat /\ x.length \in Nat /\ x.body \in Octets
    BY DEF Record
  <2>3. <<x.type, x.length>> \in Octets
    BY <2>2 DEF Octets
  <2> QED
    BY <2>2, <2>3, Joined DEF Encode, Octets
<1> HIDE DEF Octets
<1>2. E(rs) \in Seq(Octets)
  BY <1>1
<1>3. E(Append(rs, r)) = Append(E(rs), Encode(r))
  BY <1>1
<1>4. FlattenSeq(E(rs)) \in Octets
  BY <1>2, FlattenType DEF Octets
<1>5. FlattenSeq(Append(E(rs), Encode(r))) = FlattenSeq(E(rs)) \o Encode(r)
  BY <1>1, <1>2, FlattenAppend DEF Octets
<1> QED
  BY <1>1, <1>3, <1>4, <1>5 DEF EncodeAll

LEMMA EncodeNone == EncodeAll(<<>>) = <<>> /\ HandshakeOctets(<<>>) = <<>>
BY FlattenEmpty DEF EncodeAll, HandshakeOctets

LEMMA HandshakeAppend ==
  ASSUME NEW rs \in Seq(Record), NEW r \in Record
  PROVE  /\ HandshakeOctets(rs) \in Octets
         /\ HandshakeOctets(Append(rs, r))
              = HandshakeOctets(rs)
                  \o (IF r.type = Handshake THEN r.body ELSE <<>>)
<1> DEFINE B(x) == IF x.type = Handshake THEN x.body ELSE <<>>
           E(x) == [i \in DOMAIN x |-> B(x[i])]
<1>1. \A x \in Record : B(x) \in Octets
  BY DEF Record, Octets
<1> HIDE DEF Octets, B
<1>2. E(rs) \in Seq(Octets)
  BY <1>1
<1>3. E(Append(rs, r)) = Append(E(rs), B(r))
  BY <1>1
<1>4. FlattenSeq(E(rs)) \in Octets
  BY <1>2, FlattenType DEF Octets
<1>5. FlattenSeq(Append(E(rs), B(r))) = FlattenSeq(E(rs)) \o B(r)
  BY <1>1, <1>2, FlattenAppend DEF Octets
<1> QED
  BY <1>3, <1>4, <1>5 DEF HandshakeOctets, B

LEMMA EncodeType ==
  ASSUME NEW rs \in Seq(Record)
  PROVE  EncodeAll(rs) \in Octets
<1>1. [type |-> 0, length |-> 0, body |-> <<>>] \in Record
  BY DEF Record, Octets
<1> QED
  BY <1>1, EncodeAppend

LEMMA ScriptType ==
  ASSUME script \in Scripts
  PROVE  script \in Seq(Record) /\ Stream \in Octets
<1>1. script \in Seq(Record)
  BY ScriptsAssumption, Zenon DEF Record, Octets
<1> QED
  BY <1>1, EncodeType DEF Stream

\* The octets of the records after the first k begin with those of the next.
LEMMA NextRecord ==
  ASSUME NEW rs \in Seq(Record), NEW k \in Nat, k < Len(rs)
  PROVE  \E u \in Octets :
           EncodeAll(rs) = (EncodeAll(SubSeq(rs, 1, k)) \o Encode(rs[k + 1])) \o u
<1> DEFINE E(x) == [i \in DOMAIN x |-> Encode(x[i])]
           m == k + 1
<1>1. \A x \in Record : Encode(x) \in Octets
  BY EncodeAppend, EmptySeq
<1> HIDE DEF Octets
<1>2. E(rs) \in Seq(Octets) /\ Len(E(rs)) = Len(rs)
  BY <1>1
<1>3. /\ E(SubSeq(rs, 1, k)) = SubSeq(E(rs), 1, k)
      /\ E(rs)[m] = Encode(rs[m])
  BY <1>1, <1>2
<1>4. m \in Nat /\ m <= Len(rs)
  OBVIOUS
<1>5. FlattenSeq(SubSeq(E(rs), 1, m)) = FlattenSeq(SubSeq(E(rs), 1, k)) \o E(rs)[m]
  <2> HIDE DEF E
  <2> QED
    BY <1>2, FlattenStep DEF Octets
<1> HIDE DEF E, m
<1>6. PICK u \in Octets :
        FlattenSeq(E(rs)) = FlattenSeq(SubSeq(E(rs), 1, m)) \o u
  BY <1>2, <1>4, FlattenPrefix DEF Octets
<1>7. FlattenSeq(E(rs)) = (FlattenSeq(E(SubSeq(rs, 1, k))) \o Encode(rs[m])) \o u
  BY <1>3, <1>5, <1>6, Zenon
<1> QED
  BY <1>7, Zenon DEF EncodeAll, E, m

\* A whole record at the beginning of the buffer, taken off it.
LEMMA Framed ==
  ASSUME NEW buf \in Octets, Len(buf) >= 2, Len(buf) >= 2 + buf[2],
         NEW r, r = [type |-> buf[1], length |-> buf[2],
                     body |-> SubSeq(buf, 3, 2 + buf[2])]
  PROVE  /\ r \in Record /\ Len(r.body) = r.length
         /\ DropFirst(buf, 2 + buf[2]) \in Octets
         /\ Encode(r) \o DropFirst(buf, 2 + buf[2]) = buf
<1> DEFINE n == 2 + buf[2]
<1>1. buf[1] \in Nat /\ buf[2] \in Nat /\ n \in 2..Len(buf)
  BY DEF Octets
<1>2. /\ SubSeq(buf, 3, n) \in Octets /\ Len(SubSeq(buf, 3, n)) = n - 2
      /\ \A i \in 1..(n - 2) : SubSeq(buf, 3, n)[i] = buf[i + 2]
  BY SMTT(30), <1>1 DEF Octets
<1>3. r \in Record /\ Len(r.body) = r.length
  BY <1>1, <1>2 DEF Record
<1>4. <<buf[1], buf[2]>> = SubSeq(buf, 1, 2)
  <2>1. /\ SubSeq(buf, 1, 2) \in Seq(Nat) /\ Len(SubSeq(buf, 1, 2)) = 2
        /\ SubSeq(buf, 1, 2)[1] = buf[1] /\ SubSeq(buf, 1, 2)[2] = buf[2]
    BY DEF Octets
  <2> QED
    BY <1>1, <2>1
<1>5. SubSeq(buf, 1, 2) \o SubSeq(buf, 2 + 1, n) = SubSeq(buf, 1, n)
  BY SMTT(30), <1>1, ConcatAdjacentSubSeq DEF Octets
<1>6. Encode(r) = SubSeq(buf, 1, n)
  <2>1. 2 + 1 = 3
    OBVIOUS
  <2>2. r.type = buf[1] /\ r.length = buf[2] /\ r.body = SubSeq(buf, 3, n)
    BY Zenon
  <2> HIDE DEF n
  <2>3. Encode(r) = <<buf[1], buf[2]>> \o SubSeq(buf, 3, n)
    BY <2>2, Zenon DEF Encode
  <2> QED
    BY <1>4, <1>5, <2>1, <2>3, Zenon
<1>7. n \in 0..Len(buf)
  BY <1>1
<1>8. /\ DropFirst(buf, n) \in Octets
      /\ SubSeq(buf, 1, n) \o DropFirst(buf, n) = buf
  BY <1>7, CutInTwo DEF Octets
<1> QED
  BY <1>3, <1>6, <1>8

LEMMA At ==
  ASSUME NEW S
  PROVE  \A a, b \in Seq(S) :
           /\ \A i \in 1..Len(a) : (a \o b)[i] = a[i]
           /\ \A i \in 1..Len(b) : (a \o b)[Len(a) + i] = b[i]
<1>1. SUFFICES ASSUME NEW a \in Seq(S), NEW b \in Seq(S)
               PROVE  /\ \A i \in 1..Len(a) : (a \o b)[i] = a[i]
                      /\ \A i \in 1..Len(b) : (a \o b)[Len(a) + i] = b[i]
  OBVIOUS
<1> QED
  OBVIOUS

\* A buffer that continues the records taken begins as the next record does.
LEMMA Aligned ==
  ASSUME NEW rs \in Seq(Record), NEW k \in Nat, k <= Len(rs),
         NEW buf \in Octets, NEW rest \in Octets, Len(buf) >= 2,
         NEW w \in 0..Len(EncodeAll(rs)),
         EncodeAll(SubSeq(rs, 1, k)) \o (buf \o rest)
           = SubSeq(EncodeAll(rs), 1, w)
  PROVE  /\ k < Len(rs)
         /\ buf[1] = rs[k + 1].type /\ buf[2] = rs[k + 1].length
         /\ \A i \in 1..Len(rs[k + 1].body) :
              i + 2 <= Len(buf) => buf[i + 2] = rs[k + 1].body[i]
<1> DEFINE stream == EncodeAll(rs)
           before == EncodeAll(SubSeq(rs, 1, k))
           n == Len(before)
<1>1. /\ stream \in Octets /\ before \in Octets /\ n \in Nat
      /\ Len(stream) \in Nat /\ Len(buf) \in Nat
  <2>1. SubSeq(rs, 1, k) \in Seq(Record)
    OBVIOUS
  <2>2. stream \in Octets /\ before \in Octets
    BY <2>1, EncodeType
  <2> HIDE DEF stream, before
  <2> QED
    BY <2>2 DEF Octets
<1>2. before \o (buf \o rest) = SubSeq(stream, 1, w) /\ w \in 0..Len(stream)
  OBVIOUS
<1> HIDE DEF stream
<1>3. n + Len(buf) <= w
  <2> HIDE DEF before
  <2>1. Len(before \o (buf \o rest)) = n + (Len(buf) + Len(rest))
    BY <1>1, Joined DEF Octets
  <2>2. Len(SubSeq(stream, 1, w)) = w
    BY <1>1, <1>2 DEF Octets
  <2>3. Len(rest) \in Nat
    BY DEF Octets
  <2> QED
    BY <1>1, <1>2, <2>1, <2>2, <2>3
<1>4. \A i \in 1..Len(buf) : stream[n + i] = buf[i]
  <2> HIDE DEF before
  <2>1. SUFFICES ASSUME NEW i \in 1..Len(buf)
                 PROVE  stream[n + i] = buf[i]
    OBVIOUS
  <2>2. SubSeq(stream, 1, w)[n + i] = stream[n + i]
    <3>1. n + i \in 1..w /\ w \in 0..Len(stream)
      BY <1>1, <1>2, <1>3
    <3> QED
      BY <1>1, <3>1 DEF Octets
  <2>3. buf \o rest \in Octets /\ i \in 1..Len(buf \o rest)
    BY DEF Octets
  <2>4. (before \o (buf \o rest))[n + i] = (buf \o rest)[i]
    BY <1>1, <2>3, At DEF Octets
  <2>5. (buf \o rest)[i] = buf[i]
    BY At DEF Octets
  <2> QED
    BY <1>2, <2>2, <2>4, <2>5
<1>5. k < Len(rs)
  <2>1. CASE k = Len(rs)
    <3>1. before = stream
      <4>1. SubSeq(rs, 1, Len(rs)) = rs
        OBVIOUS
      <4> QED
        BY <2>1, <4>1, Zenon DEF stream
    <3> HIDE DEF before, stream
    <3> QED
      BY <1>1, <1>2, <1>3, <3>1
  <2> QED
    BY <2>1
<1> DEFINE r == rs[k + 1]
<1>6. r \in Record /\ Encode(r) \in Octets
  BY <1>5, EncodeAppend
<1>7. /\ Len(Encode(r)) = 2 + Len(r.body) /\ r.body \in Octets
      /\ Len(r.body) \in Nat
      /\ Encode(r)[1] = r.type /\ Encode(r)[2] = r.length
      /\ \A i \in 1..Len(r.body) : Encode(r)[2 + i] = r.body[i]
  <2> HIDE DEF r
  <2>1. r.type \in Nat /\ r.length \in Nat /\ r.body \in Seq(Nat)
    BY <1>6 DEF Record, Octets
  <2> QED
    BY SMTT(30), <2>1 DEF Encode, Octets
<1>8. PICK u \in Octets : stream = (before \o Encode(r)) \o u
  BY <1>5, NextRecord DEF stream
<1> HIDE DEF before, r
<1>9. \A i \in 1..Len(Encode(r)) : stream[n + i] = Encode(r)[i]
  <2>1. SUFFICES ASSUME NEW i \in 1..Len(Encode(r))
                 PROVE  stream[n + i] = Encode(r)[i]
    OBVIOUS
  <2>2. /\ before \o Encode(r) \in Octets
        /\ Len(before \o Encode(r)) = n + Len(Encode(r))
    BY <1>1, <1>6, Joined DEF Octets
  <2>l. Len(Encode(r)) \in Nat
    BY <1>7
  <2>3. n + i \in 1..Len(before \o Encode(r))
    BY <1>1, <2>2, <2>l
  <2>4. stream[n + i] = (before \o Encode(r))[n + i]
    BY <1>8, <2>2, <2>3, At DEF Octets
  <2>5. (before \o Encode(r))[n + i] = Encode(r)[i]
    BY <1>1, <1>6, At DEF Octets
  <2> QED
    BY <2>4, <2>5
<1>10. buf[1] = r.type /\ buf[2] = r.length
  <2>1. /\ 1 \in 1..Len(buf) /\ 2 \in 1..Len(buf)
        /\ 1 \in 1..Len(Encode(r)) /\ 2 \in 1..Len(Encode(r))
    BY <1>1, <1>7
  <2> QED
    BY <1>4, <1>7, <1>9, <2>1, Zenon
<1>11. \A i \in 1..Len(r.body) : i + 2 <= Len(buf) => buf[i + 2] = r.body[i]
  <2>1. SUFFICES ASSUME NEW i \in 1..Len(r.body), i + 2 <= Len(buf)
                 PROVE  buf[i + 2] = r.body[i]
    OBVIOUS
  <2>2. i + 2 \in 1..Len(buf) /\ i + 2 \in 1..Len(Encode(r)) /\ i + 2 = 2 + i
    BY SMTT(30), <1>1, <1>7, <2>1
  <2>3. stream[n + (i + 2)] = buf[i + 2] /\ stream[n + (i + 2)] = Encode(r)[i + 2]
    BY <1>4, <1>9, <2>2
  <2> QED
    BY <1>7, <2>2, <2>3
<1> QED
  BY <1>5, <1>10, <1>11 DEF r

-----------------------------------------------------------------------------
(* The core.                                                               *)

\* What MessagesAsWritten says of a core that was carried these octets of
\* handshake messages.
Sound(c, octets) ==
  /\ \A i \in DOMAIN c.messages :
       MessageAt(c.messages[i]) = Len(c.messages[i])
  /\ c.failed \notin {"budget", "reasm"} =>
       FlattenSeq(c.messages) \o c.reasm = octets
  /\ c.failed = "reasm" =>
       Len(octets) > MaxReasm + Len(FlattenSeq(c.messages))
  /\ IF c.failed = "budget" THEN Len(octets) > MaxHandshakeBytes
     ELSE c.seen = Len(octets) /\ c.seen <= MaxHandshakeBytes

\* The message a buffer begins with is a message of its own.
LEMMA MessageTaken ==
  ASSUME NEW buf \in Octets, NEW n, n = MessageAt(buf), n # 0
  PROVE  /\ n \in 0..Len(buf)
         /\ MessageAt(SubSeq(buf, 1, n)) = n
         /\ Len(SubSeq(buf, 1, n)) = n
<1>1. /\ Len(buf) \in Nat /\ Len(buf) >= 2 /\ buf[2] \in Nat
      /\ n = 2 + buf[2] /\ n <= Len(buf)
  BY DEF MessageAt, Octets
<1>2. Len(SubSeq(buf, 1, n)) = n /\ SubSeq(buf, 1, n)[2] = buf[2]
  BY <1>1 DEF Octets
<1> QED
  BY <1>1, <1>2 DEF MessageAt

LEMMA HandshakeKeeps ==
  ASSUME NEW c \in Core, c.failed = "no", NEW octets \in Octets,
         Sound(c, octets), NEW b \in Octets
  PROVE  LET d == HandshakeRecord(c, b)
         IN  /\ d \in Core /\ Sound(d, octets \o b) /\ d.failed # "oversize"
<1> DEFINE d == HandshakeRecord(c, b)
           buf == c.reasm \o b
           n == MessageAt(buf)
           F == FlattenSeq(c.messages)
           all == octets \o b
<1>1. /\ c.reasm \in Octets /\ c.seen \in Nat /\ c.messages \in Seq(Octets)
      /\ c = [reasm |-> c.reasm, seen |-> c.seen, messages |-> c.messages,
              failed |-> c.failed]
  BY DEF Core, Failure
<1>2. F \in Octets
  BY <1>1, FlattenType DEF Octets
<1>3. /\ \A i \in DOMAIN c.messages :
           MessageAt(c.messages[i]) = Len(c.messages[i])
      /\ F \o c.reasm = octets
      /\ c.seen = Len(octets) /\ c.seen <= MaxHandshakeBytes
  BY DEF Sound
<1>4. /\ buf \in Octets /\ Len(buf) = Len(c.reasm) + Len(b)
      /\ all \in Octets /\ Len(all) = Len(octets) + Len(b)
      /\ Len(octets) = Len(F) + Len(c.reasm)
      /\ Len(b) \in Nat /\ Len(F) \in Nat /\ Len(c.reasm) \in Nat
      /\ Len(octets) \in Nat
  BY <1>1, <1>2, <1>3, Joined DEF Octets
<1>5. F \o buf = all
  BY <1>1, <1>2, <1>3, OctetsAssoc, Zenon
<1>6. Charge(c, b) = Len(all) /\ Charge(c, b) \in Nat
  BY <1>1, <1>3, <1>4 DEF Charge
<1> HIDE DEF buf, F, all
<1> SUFFICES d \in Core /\ Sound(d, all) /\ d.failed # "oversize"
  BY Zenon DEF all
<1>7. CASE Charge(c, b) > MaxHandshakeBytes
  <2>1. d = [c EXCEPT !.failed = "budget"]
    BY <1>7 DEF HandshakeRecord
  <2> HIDE DEF d
  <2>2. /\ d \in Core /\ d.failed = "budget" /\ d.messages = c.messages
    BY <2>1 DEF Core, Failure
  <2> QED
    BY <1>3, <1>6, <1>7, <2>2 DEF Sound
<1>8. CASE ~(Charge(c, b) > MaxHandshakeBytes) /\ Len(buf) > MaxReasm
  <2>1. d = [c EXCEPT !.failed = "reasm", !.seen = Charge(c, b)]
    BY <1>8 DEF HandshakeRecord, buf
  <2> HIDE DEF d
  <2>2. /\ d \in Core /\ d.failed = "reasm" /\ d.messages = c.messages
        /\ d.seen = Charge(c, b)
    BY <1>6, <2>1 DEF Core, Failure
  <2>3. Len(all) > MaxReasm + Len(F)
    BY <1>4, <1>8, StreamBounds
  <2>4. d.seen = Len(all) /\ d.seen <= MaxHandshakeBytes
    BY <1>6, <1>8, <2>2, StreamBounds
  <2> QED
    BY <1>3, <2>2, <2>3, <2>4, Zenon DEF Sound, F
<1>9. CASE ~(Charge(c, b) > MaxHandshakeBytes) /\ ~(Len(buf) > MaxReasm) /\ n = 0
  <2>1. d = [c EXCEPT !.seen = Charge(c, b), !.reasm = buf]
    BY <1>9 DEF HandshakeRecord, buf
  <2> HIDE DEF d
  <2>2. /\ d \in Core /\ d.failed = "no" /\ d.messages = c.messages
        /\ d.seen = Charge(c, b) /\ d.reasm = buf
    BY <1>4, <1>6, <2>1 DEF Core, Failure
  <2>3. d.seen = Len(all) /\ d.seen <= MaxHandshakeBytes
    BY <1>6, <1>9, <2>2, StreamBounds
  <2> QED
    BY <1>3, <1>5, <2>2, <2>3, Zenon DEF Sound, F
<1>10. CASE ~(Charge(c, b) > MaxHandshakeBytes) /\ ~(Len(buf) > MaxReasm) /\ n # 0
  <2> DEFINE m == SubSeq(buf, 1, n)
             tail == DropFirst(buf, n)
  <2>1. d = [c EXCEPT !.seen = Charge(c, b), !.reasm = tail,
                      !.messages = Append(@, m)]
    BY <1>10 DEF HandshakeRecord, buf
  <2> HIDE DEF d
  <2>2. n \in 0..Len(buf) /\ MessageAt(m) = n /\ Len(m) = n
    BY <1>4, <1>10, MessageTaken
  <2> HIDE DEF n
  <2>3. m \in Octets /\ tail \in Octets /\ m \o tail = buf
    BY <1>4, <2>2, CutInTwo DEF Octets
  <2> HIDE DEF m, tail
  <2>4. /\ d \in Core /\ d.failed = "no" /\ d.messages = Append(c.messages, m)
        /\ d.seen = Charge(c, b) /\ d.reasm = tail
    <3>1. Append(c.messages, m) \in Seq(Octets)
      BY <1>1, <2>3
    <3> QED
      BY <1>1, <1>6, <2>1, <2>3, <3>1 DEF Core
  <2>5. d.seen = Len(all) /\ d.seen <= MaxHandshakeBytes
    BY <1>6, <1>10, <2>4, StreamBounds
  <2>6. \A i \in DOMAIN d.messages : MessageAt(d.messages[i]) = Len(d.messages[i])
    <3>1. SUFFICES ASSUME NEW i \in DOMAIN d.messages
                   PROVE  MessageAt(d.messages[i]) = Len(d.messages[i])
      OBVIOUS
    <3>2. \/ i \in DOMAIN c.messages /\ d.messages[i] = c.messages[i]
          \/ d.messages[i] = m
      BY <1>1, <2>3, <2>4
    <3> QED
      BY <1>3, <2>2, <3>2, Zenon
  <2>7. FlattenSeq(d.messages) = F \o m
    BY <1>1, <2>3, <2>4, FlattenAppend DEF Octets, F
  <2>8. (F \o m) \o tail = F \o (m \o tail)
    BY <1>2, <2>3, OctetsAssoc, Zenon
  <2>9. FlattenSeq(d.messages) \o d.reasm = all
    BY <1>5, <2>3, <2>4, <2>7, <2>8, Zenon
  <2> QED
    BY <2>4, <2>5, <2>6, <2>9, Zenon DEF Sound
<1> QED
  BY <1>7, <1>8, <1>9, <1>10

\* A record leaves the core sound for the octets it carried.
LEMMA RouteKeeps ==
  ASSUME NEW c \in Core, c.failed = "no", NEW rs \in Seq(Record),
         Sound(c, HandshakeOctets(rs)), NEW r \in Record
  PROVE  LET d == Route(c, r)
         IN  /\ d \in Core /\ Sound(d, HandshakeOctets(Append(rs, r)))
             /\ d.failed # "oversize"
<1> DEFINE d == Route(c, r)
           octets == HandshakeOctets(rs)
<1>1. /\ octets \in Octets /\ r.body \in Octets
      /\ HandshakeOctets(Append(rs, r))
           = octets \o (IF r.type = Handshake THEN r.body ELSE <<>>)
  BY HandshakeAppend DEF Record
<1> HIDE DEF octets
<1>2. CASE r.type = Handshake
  <2>1. d = HandshakeRecord(c, r.body)
    BY <1>2 DEF Route
  <2> HIDE DEF d
  <2>2. d \in Core /\ Sound(d, octets \o r.body) /\ d.failed # "oversize"
    BY <1>1, <2>1, HandshakeKeeps DEF octets
  <2> QED
    BY <1>1, <1>2, <2>2 DEF d
<1>3. CASE r.type # Handshake
  <2>1. HandshakeOctets(Append(rs, r)) = octets
    BY <1>1, <1>3, ConcatEmptySeq DEF Octets
  <2>2. d = c \/ d = [c EXCEPT !.failed = "type"]
    BY <1>3 DEF Route
  <2> HIDE DEF d
  <2>3. /\ d \in Core /\ d.messages = c.messages /\ d.seen = c.seen
        /\ d.reasm = c.reasm /\ d.failed \in {"no", "type"}
    BY <2>2 DEF Core, Failure
  <2>4. Sound(d, octets)
    BY <2>3, Zenon DEF Sound, octets
  <2> QED
    BY <2>1, <2>3, <2>4 DEF d
<1> QED
  BY <1>2, <1>3

-----------------------------------------------------------------------------
(* The inductive invariant: the three properties, with the octets on their *)
(* way taken together.                                                     *)

Delivered == got \o (toClient \o reactorOut) = produced

Ahead == inbound \o (reactorIn \o toServer)

Kept ==
  core.failed = "no" => EncodeAll(taken) \o Ahead = SubSeq(Stream, 1, written)

TakenAsWritten ==
  /\ Len(taken) <= Len(script) /\ taken = SubSeq(script, 1, Len(taken))
  /\ core.failed = "oversize" => script[Len(taken) + 1].length > MaxRecord

CoreSound == Sound(core, HandshakeOctets(taken))

StreamInv == StreamType /\ Delivered /\ Kept /\ TakenAsWritten /\ CoreSound

LEMMA FramingKeeps ==
  ASSUME TakenAsWritten, CoreSound, UNCHANGED <<script, taken, core>>
  PROVE  TakenAsWritten' /\ CoreSound'
BY Zenon DEF TakenAsWritten, CoreSound

\* handleTransportBytes keeps every octet, and takes a record as written.
LEMMA FeedKeeps ==
  ASSUME StreamInv, NEW bytes \in Octets, Feed(bytes),
         reactorIn' \in Octets, reactorIn = bytes \o reactorIn',
         UNCHANGED <<toServer, toClient, script, written, got>>
  PROVE  StreamInv'
<1> DEFINE buf == inbound \o bytes
           rest == reactorIn' \o toServer
           before == EncodeAll(taken)
           k == Len(taken)
<1>1. /\ toServer \in Octets /\ toClient \in Octets /\ script \in Scripts
      /\ written \in 0..Len(Stream) /\ got \in Octets
      /\ reactorOut \in Octets /\ inbound \in Octets
      /\ taken \in Seq(Record) /\ core \in Core /\ produced \in Octets
  BY DEF StreamInv, StreamType
<1>2. script \in Seq(Record) /\ Stream \in Octets /\ k \in Nat
  BY <1>1, ScriptType
<1>3. buf \in Octets /\ rest \in Octets /\ before \in Octets
  BY <1>1, Joined, EncodeType DEF Octets
<1>4. Delivered /\ TakenAsWritten /\ CoreSound
  BY DEF StreamInv
<1>5. core.failed = "no" => before \o (buf \o rest) = SubSeq(Stream, 1, written)
  <2>1. inbound \o ((bytes \o reactorIn') \o toServer) = buf \o rest
    <3>1. (bytes \o reactorIn') \o toServer = bytes \o rest
      <4>1. PICK r \in Octets : r = reactorIn'
        OBVIOUS
      <4>2. PICK t \in Octets : t = toServer
        BY <1>1
      <4>3. (bytes \o r) \o t = bytes \o (r \o t)
        BY OctetsAssoc
      <4> QED
        BY <4>1, <4>2, <4>3, Zenon
    <3>2. buf \o rest = inbound \o (bytes \o rest)
      <4> HIDE DEF rest
      <4>1. inbound \in Octets /\ rest \in Octets
        BY <1>1, <1>3
      <4> QED
        BY <4>1, OctetsAssoc, Zenon
    <3> QED
      BY <3>1, <3>2, Zenon
  <2>2. Ahead = buf \o rest
    BY <2>1, Zenon DEF Ahead
  <2> QED
    BY <2>2, Zenon DEF StreamInv, Kept
<1>6. CASE core.failed # "no"
  <2>1. UNCHANGED <<inbound, taken, core, reactorOut, produced>>
    BY <1>6 DEF Feed
  <2>2. StreamType'
    BY <1>1, <2>1 DEF StreamType, Stream
  <2>3. Delivered'
    BY <1>4, <2>1 DEF Delivered
  <2>4. Kept'
    BY <1>6, <2>1 DEF Kept
  <2>5. TakenAsWritten' /\ CoreSound'
    BY <1>4, <2>1, FramingKeeps
  <2> QED
    BY <2>2, <2>3, <2>4, <2>5 DEF StreamInv
<1>7. CASE core.failed = "no" /\ RecordAt(buf) = "partial"
  <2>1. inbound' = buf /\ UNCHANGED <<taken, core, reactorOut, produced>>
    BY <1>7 DEF Feed
  <2>2. StreamType'
    BY <1>1, <1>3, <2>1 DEF StreamType, Stream
  <2>3. Delivered'
    BY <1>4, <2>1 DEF Delivered
  <2>4. Kept'
    BY <1>5, <1>7, <2>1 DEF Kept, Ahead, Stream
  <2>5. TakenAsWritten' /\ CoreSound'
    BY <1>4, <2>1, FramingKeeps
  <2> QED
    BY <2>2, <2>3, <2>4, <2>5 DEF StreamInv
<1>8. /\ before = EncodeAll(SubSeq(script, 1, k)) /\ k <= Len(script)
      /\ written \in 0..Len(EncodeAll(script)) /\ Stream = EncodeAll(script)
  BY <1>1, <1>4, Zenon DEF TakenAsWritten, Stream
<1>9. ASSUME core.failed = "no", Len(buf) >= 2
       PROVE  /\ k < Len(script)
              /\ buf[1] = script[k + 1].type /\ buf[2] = script[k + 1].length
              /\ \A i \in 1..Len(script[k + 1].body) :
                   i + 2 <= Len(buf) => buf[i + 2] = script[k + 1].body[i]
  <2>1. EncodeAll(SubSeq(script, 1, k)) \o (buf \o rest)
          = SubSeq(EncodeAll(script), 1, written)
    BY <1>5, <1>8, <1>9, Zenon
  <2> HIDE DEF k, buf, rest, before
  <2>2. /\ script \in Seq(Record) /\ k \in Nat /\ k <= Len(script)
        /\ buf \in Octets /\ rest \in Octets
        /\ written \in 0..Len(EncodeAll(script))
    BY <1>2, <1>3, <1>8
  <2> QED
    <3>1. core.failed = "no" /\ Len(buf) >= 2
      BY <1>9
    <3> QED
      BY <2>1, <2>2, <3>1, Aligned, ZenonT(30)
<1>10. CASE core.failed = "no" /\ RecordAt(buf) = "oversize"
  <2>1. /\ inbound' = buf /\ core' = [core EXCEPT !.failed = "oversize"]
        /\ UNCHANGED <<taken, reactorOut, produced>>
    BY <1>10 DEF Feed
  <2>2. /\ core' \in Core /\ core'.failed = "oversize"
        /\ core'.messages = core.messages /\ core'.seen = core.seen
        /\ core'.reasm = core.reasm
    BY <1>1, <2>1 DEF Core, Failure
  <2>3. Len(buf) >= 2 /\ buf[2] > MaxRecord
    BY <1>3, <1>10 DEF RecordAt, Octets
  <2>4. buf[2] = script[k + 1].length
    BY <1>10, <1>9, <2>3, Zenon
  <2>5. StreamType'
    BY <1>1, <1>3, <2>1, <2>2 DEF StreamType, Stream
  <2>6. Delivered'
    BY <1>4, <2>1 DEF Delivered
  <2>7. Kept'
    BY <2>2 DEF Kept
  <2>8. TakenAsWritten'
    BY <1>4, <2>1, <2>3, <2>4 DEF TakenAsWritten
  <2>9. CoreSound'
    BY <1>4, <1>10, <2>1, <2>2, Zenon DEF CoreSound, Sound
  <2> QED
    BY <2>5, <2>6, <2>7, <2>8, <2>9 DEF StreamInv
<1>11. CASE core.failed = "no" /\ RecordAt(buf) = "whole"
  <2> DEFINE r == [type |-> buf[1], length |-> buf[2],
                   body |-> SubSeq(buf, 3, 2 + buf[2])]
             tail == DropFirst(buf, 2 + buf[2])
  <2>1. /\ inbound' = tail /\ taken' = Append(taken, r)
        /\ core' = Route(core, r)
        /\ \/ reactorOut' = reactorOut \o Reply /\ produced' = produced \o Reply
           \/ UNCHANGED <<reactorOut, produced>>
    BY <1>11 DEF Feed
  <2>2. /\ Len(buf) >= 2 /\ Len(buf) >= 2 + buf[2] /\ buf[2] <= MaxRecord
    <3>1. Len(buf) \in Nat
      BY <1>3 DEF Octets
    <3>2. Len(buf) >= 2
      BY <1>11, <3>1 DEF RecordAt
    <3>3. buf[2] \in Nat
      BY <1>3, <3>1, <3>2 DEF Octets
    <3> QED
      BY <1>11, <3>1, <3>2, <3>3, StreamBounds DEF RecordAt
  <2> HIDE DEF buf
  <2>3. /\ r \in Record /\ Len(r.body) = r.length /\ tail \in Octets
        /\ Encode(r) \o tail = buf
    BY <1>3, <2>2, Framed
  <2>4. /\ k < Len(script)
        /\ buf[1] = script[k + 1].type /\ buf[2] = script[k + 1].length
        /\ \A i \in 1..Len(script[k + 1].body) :
             i + 2 <= Len(buf) => buf[i + 2] = script[k + 1].body[i]
    BY <1>11, <1>9, <2>2, Zenon
  <2>5. r = script[k + 1]
    <3> DEFINE s == script[k + 1]
    <3>1. s \in Record /\ (s.length = Len(s.body) \/ s.length > MaxRecord)
      <4>1. k + 1 \in DOMAIN script
        BY <1>2, <2>4
      <4>2. s.length = Len(s.body) \/ s.length > MaxRecord
        BY <1>1, <4>1, ScriptsAssumption, Zenon
      <4>3. s \in Record
        BY <1>2, <2>4
      <4> QED
        BY <4>2, <4>3
    <3> HIDE DEF s
    <3>2. /\ buf[1] = s.type /\ buf[2] = s.length
          /\ \A i \in 1..Len(s.body) : i + 2 <= Len(buf) => buf[i + 2] = s.body[i]
      BY <2>4 DEF s
    <3>3. /\ s.body \in Octets /\ s.length \in Nat
          /\ s = [type |-> s.type, length |-> s.length, body |-> s.body]
      BY <3>1 DEF Record
    <3>4. s.length = Len(s.body)
      BY <2>2, <3>1, <3>2, <3>3, StreamBounds
    <3>5. /\ r.body \in Octets /\ r.type = s.type /\ r.length = s.length
          /\ r.body = SubSeq(buf, 3, 2 + buf[2])
      BY <2>3, <3>2 DEF Record
    <3>6. \A i \in 1..Len(s.body) : r.body[i] = s.body[i]
      <4>1. SUFFICES ASSUME NEW i \in 1..Len(s.body)
                     PROVE  r.body[i] = s.body[i]
        OBVIOUS
      <4>2. Len(buf) \in Nat /\ i + 2 <= Len(buf) /\ buf[2] = Len(s.body)
        BY SMTT(30), <1>3, <2>2, <3>2, <3>3, <3>4 DEF Octets
      <4>3. SubSeq(buf, 3, 2 + buf[2])[i] = buf[i + 2]
        <5> DEFINE n == 2 + buf[2]
        <5>1. n \in Nat /\ n <= Len(buf) /\ i \in 1..(n - 2) /\ i \in Nat
          BY <2>2, <3>3, <4>2 DEF Octets
        <5> HIDE DEF n
        <5>2. SubSeq(buf, 3, n)[i] = buf[i + 2]
          BY <1>3, <4>2, <5>1 DEF Octets
        <5> QED
          BY <5>2 DEF n
      <4> QED
        BY <3>2, <3>5, <4>2, <4>3
    <3>7. Len(r.body) = Len(s.body)
      BY <2>3, <3>4, <3>5
    <3> HIDE DEF r
    <3>8. r.body = s.body
      BY <3>3, <3>5, <3>6, <3>7, SeqEqual DEF Octets
    <3>9. r = [type |-> r.type, length |-> r.length, body |-> r.body]
      BY <2>3 DEF Record
    <3> QED
      BY <3>3, <3>5, <3>8, <3>9, Zenon DEF s
  <2> HIDE DEF r, tail
  <2>6. /\ core' \in Core /\ Sound(core', HandshakeOctets(Append(taken, r)))
        /\ core'.failed # "oversize"
    <3>1. Sound(core, HandshakeOctets(taken))
      BY <1>4 DEF CoreSound
    <3> QED
      BY <1>1, <1>11, <2>1, <2>3, <3>1, RouteKeeps
  <2>7. CoreSound'
    BY <2>1, <2>6 DEF CoreSound
  <2>8. TakenAsWritten'
    <3>1. Append(taken, r) = SubSeq(script, 1, k + 1)
      BY <1>2, <1>4, <2>4, <2>5 DEF TakenAsWritten
    <3>2. Len(taken') = k + 1
      BY <1>1, <2>1, <2>3
    <3> QED
      BY <1>2, <2>1, <2>4, <2>6, <3>1, <3>2 DEF TakenAsWritten
  <2>9. Kept'
    <3>1. EncodeAll(taken') = before \o Encode(r) /\ Encode(r) \in Octets
      BY <1>1, <2>1, <2>3, EncodeAppend
    <3> HIDE DEF rest, before
    <3>2. Encode(r) \o (tail \o rest) = buf \o rest
      BY <1>3, <2>3, <3>1, OctetsAssoc, Zenon
    <3>3. tail \o rest \in Octets
      BY <1>3, <2>3, Joined DEF Octets
    <3>4. EncodeAll(taken') \o (tail \o rest) = before \o (buf \o rest)
      <4>1. (before \o Encode(r)) \o (tail \o rest)
              = before \o (Encode(r) \o (tail \o rest))
        BY <1>3, <3>1, <3>3, OctetsAssoc, ZenonT(30)
      <4> QED
        BY <3>1, <3>2, <4>1, Zenon
    <3>5. EncodeAll(taken') \o (tail \o rest) = SubSeq(Stream, 1, written)
      BY <1>5, <1>11, <3>4, Zenon
    <3> QED
      BY <2>1, <3>5 DEF Kept, Ahead, Stream, rest
  <2>10. reactorOut' \in Octets /\ produced' \in Octets /\ Delivered'
    <3>1. CASE UNCHANGED <<reactorOut, produced>>
      BY <1>1, <1>4, <3>1 DEF Delivered
    <3>2. CASE reactorOut' = reactorOut \o Reply /\ produced' = produced \o Reply
      <4>1. Reply \in Octets
        BY ScriptsAssumption DEF Octets
      <4>2. /\ reactorOut' \in Octets /\ produced' \in Octets
            /\ toClient \o reactorOut \in Octets
        BY <1>1, <3>2, <4>1, Joined DEF Octets
      <4>3. toClient \in Octets /\ reactorOut \in Octets
        BY <1>1
      <4>4. got \in Octets
        BY <1>1
      <4>5. (toClient \o reactorOut) \o Reply = toClient \o (reactorOut \o Reply)
        BY <4>1, <4>3, OctetsAssoc, ZenonT(30)
      <4>6. (got \o (toClient \o reactorOut)) \o Reply
              = got \o ((toClient \o reactorOut) \o Reply)
        BY <4>1, <4>2, <4>4, OctetsAssoc, ZenonT(30)
      <4>7. Delivered'
        BY <1>4, <3>2, <4>5, <4>6, Zenon DEF Delivered
      <4> QED
        BY <4>2, <4>7
    <3> QED
      BY <2>1, <3>1, <3>2
  <2>11. StreamType'
    <3>1. taken' \in Seq(Record)
      BY <1>1, <2>1, <2>3
    <3> QED
      BY <1>1, <2>1, <2>3, <2>6, <2>10, <3>1 DEF StreamType, Stream
  <2> QED
    BY <2>7, <2>8, <2>9, <2>10, <2>11 DEF StreamInv
<1> QED
  BY <1>6, <1>7, <1>10, <1>11 DEF RecordAt

\* What a step that leaves the framing alone still has to show.
LEMMA RestKeeps ==
  ASSUME StreamInv, UNCHANGED <<script, taken, core>>,
         toServer' \in Octets, toClient' \in Octets,
         written' \in 0..Len(Stream), got' \in Octets,
         reactorIn' \in Octets, reactorOut' \in Octets,
         UNCHANGED <<inbound, produced>>,
         Delivered', Kept'
  PROVE  StreamInv'
<1>1. StreamType'
  BY DEF StreamInv, StreamType, Stream
<1>2. TakenAsWritten' /\ CoreSound'
  BY FramingKeeps DEF StreamInv
<1> QED
  BY <1>1, <1>2 DEF StreamInv

LEMMA TypeFacts ==
  ASSUME StreamInv
  PROVE  /\ toServer \in Octets /\ toClient \in Octets
         /\ script \in Scripts /\ Stream \in Octets
         /\ written \in 0..Len(Stream) /\ got \in Octets
         /\ reactorIn \in Octets /\ reactorOut \in Octets
         /\ inbound \in Octets /\ taken \in Seq(Record)
         /\ EncodeAll(taken) \in Octets /\ core \in Core
         /\ produced \in Octets
BY ScriptType, EncodeType DEF StreamInv, StreamType

LEMMA ClientWritesKeeps ==
  ASSUME StreamInv, ClientWrites
  PROVE  StreamInv'
<1>1. PICK k \in 1..KernelCap : SockWrite(Stream, written, k) /\ written' = written + k
  BY DEF ClientWrites
<1>2. UNCHANGED <<toClient, script, got, reactorIn, reactorOut, inbound, taken,
                  core, produced>>
  BY DEF ClientWrites, ClientOnly, buffers
<1>3. /\ Stream \in Octets /\ written \in 0..Len(Stream) /\ Len(Stream) \in Nat
      /\ toServer \in Octets /\ inbound \in Octets /\ reactorIn \in Octets
  BY TypeFacts DEF Octets
<1> DEFINE part == SubSeq(Stream, written + 1, written + k)
<1>4. toServer' = toServer \o part /\ written + k <= Len(Stream)
  <2>1. Len(toServer) \in Nat
    BY <1>3 DEF Octets
  <2>2. k \in 1..Min({Len(Stream) - written, KernelCap - Len(toServer)})
    BY <1>1 DEF SockWrite
  <2>3. Min({Len(Stream) - written, KernelCap - Len(toServer)})
          = IF Len(Stream) - written <= KernelCap - Len(toServer)
            THEN Len(Stream) - written ELSE KernelCap - Len(toServer)
    BY <1>3, <2>1, KernelCapAssumption, MinOfTwo
  <2>4. k <= Len(Stream) - written
    BY <1>3, <2>1, <2>2, <2>3, KernelCapAssumption
  <2> QED
    BY <1>1, <1>3, <2>4 DEF SockWrite
<1>5. part \in Octets /\ toServer' \in Octets
  <2>1. part \in Octets
    BY <1>3, <1>4 DEF Octets
  <2> QED
    BY <1>3, <1>4, <2>1, Joined DEF Octets
<1>6. SubSeq(Stream, 1, written) \o part = SubSeq(Stream, 1, written + k)
  <2>1. 1 \in 1..(Len(Stream) + 1) /\ written \in (1 - 1)..Len(Stream)
        /\ written + k \in written..Len(Stream)
    BY <1>3, <1>4
  <2> QED
    BY <1>3, <2>1, ConcatAdjacentSubSeq DEF Octets
<1>7. Kept'
  <2>1. SUFFICES ASSUME core.failed = "no"
                 PROVE  EncodeAll(taken) \o Ahead' = SubSeq(Stream, 1, written + k)
    BY <1>1, <1>2 DEF Kept, Stream
  <2>2. Ahead' = inbound \o (reactorIn \o (toServer \o part))
    BY <1>2, <1>4 DEF Ahead
  <2>3. EncodeAll(taken) \o Ahead = SubSeq(Stream, 1, written)
    BY <2>1 DEF StreamInv, Kept
  <2> HIDE DEF part
  <2>4. inbound \o (reactorIn \o (toServer \o part)) = Ahead \o part
    <3>1. (reactorIn \o toServer) \o part = reactorIn \o (toServer \o part)
      BY <1>3, <1>5, OctetsAssoc, Zenon
    <3>2. reactorIn \o toServer \in Octets
      BY <1>3, Joined DEF Octets
    <3>3. (inbound \o (reactorIn \o toServer)) \o part
            = inbound \o ((reactorIn \o toServer) \o part)
      BY <1>3, <1>5, <3>2, OctetsAssoc, ZenonT(30)
    <3> QED
      BY <3>1, <3>3, Zenon DEF Ahead
  <2>5. (EncodeAll(taken) \o Ahead) \o part = EncodeAll(taken) \o (Ahead \o part)
    <3>1. Ahead \in Octets
      BY <1>3, Joined DEF Ahead, Octets
    <3>2. EncodeAll(taken) \in Octets
      BY TypeFacts
    <3> QED
      BY <1>5, <3>1, <3>2, OctetsAssoc, Zenon
  <2> QED
    BY <1>6, <2>2, <2>3, <2>4, <2>5, Zenon DEF part
<1>8. Delivered'
  BY <1>2 DEF StreamInv, Delivered
<1>9. written' \in 0..Len(Stream)
  BY <1>1, <1>3, <1>4
<1> QED
  BY <1>2, <1>5, <1>7, <1>8, <1>9, RestKeeps, TypeFacts

LEMMA ClientReadsKeeps ==
  ASSUME StreamInv, ClientReads
  PROVE  StreamInv'
<1>1. PICK k \in 1..KernelCap :
        /\ SockRead(Len(got) + KernelCap, Len(got), k)
        /\ got' = got \o SubSeq(toClient, 1, k)
  BY DEF ClientReads
<1>2. UNCHANGED <<toServer, script, written, reactorIn, reactorOut, inbound,
                  taken, core, produced>>
  BY DEF ClientReads, ClientOnly, buffers
<1>3. /\ toClient \in Octets /\ got \in Octets /\ reactorOut \in Octets
      /\ Len(toClient) \in Nat /\ Len(got) \in Nat
  BY TypeFacts DEF Octets
<1>4. k \in 0..Len(toClient) /\ toClient' = DropFirst(toClient, k)
  <2>1. /\ toClient' = DropFirst(toClient, k)
        /\ k \in 1..Min({(Len(got) + KernelCap) - Len(got), Len(toClient)})
    BY <1>1 DEF SockRead
  <2>2. Min({(Len(got) + KernelCap) - Len(got), Len(toClient)})
          = IF (Len(got) + KernelCap) - Len(got) <= Len(toClient)
            THEN (Len(got) + KernelCap) - Len(got) ELSE Len(toClient)
    BY <1>3, KernelCapAssumption, MinOfTwo
  <2> QED
    BY <1>3, <2>1, <2>2, KernelCapAssumption
<1> DEFINE part == SubSeq(toClient, 1, k)
           tail == DropFirst(toClient, k)
<1>5. part \in Octets /\ tail \in Octets /\ part \o tail = toClient
  BY <1>3, <1>4, CutInTwo DEF Octets
<1>6. Delivered'
  <2>1. got' = got \o part /\ toClient' = tail
    BY <1>1, <1>4
  <2> HIDE DEF part, tail
  <2>2. (got \o part) \o (tail \o reactorOut) = got \o ((part \o tail) \o reactorOut)
    <3>1. got \in Octets /\ part \in Octets /\ tail \o reactorOut \in Octets
      BY <1>3, <1>5, Joined DEF Octets
    <3>2. (got \o part) \o (tail \o reactorOut)
            = got \o (part \o (tail \o reactorOut))
      BY <3>1, OctetsAssoc, Zenon
    <3>3. part \in Octets /\ tail \in Octets /\ reactorOut \in Octets
      BY <1>3, <1>5
    <3>4. (part \o tail) \o reactorOut = part \o (tail \o reactorOut)
      BY <3>3, OctetsAssoc, Zenon
    <3> QED
      BY <3>2, <3>4, Zenon
  <2> QED
    BY <1>2, <1>5, <2>1, <2>2, Zenon DEF StreamInv, Delivered
<1>7. got' \in Octets /\ toClient' \in Octets
  BY <1>1, <1>3, <1>4, <1>5, Joined DEF Octets
<1>8. Kept'
  BY <1>2 DEF StreamInv, Kept, Ahead, Stream
<1> QED
  BY <1>2, <1>6, <1>7, <1>8, RestKeeps, TypeFacts

\* flushOutbound: what the kernel takes is dropped, nothing else.
LEMMA FlushKeeps ==
  ASSUME StreamInv, Flush
  PROVE  StreamInv'
<1>1. PICK accepted \in -1..KernelCap : SendNb(reactorOut, accepted) /\ Sent(accepted)
  BY DEF Flush
<1>2. UNCHANGED <<toServer, script, written, got, reactorIn, inbound, taken,
                  core, produced>>
  BY DEF Flush, client
<1>3. /\ toClient \in Octets /\ got \in Octets /\ reactorOut \in Octets
      /\ Len(toClient) \in Nat /\ Len(reactorOut) \in Nat
  BY TypeFacts DEF Octets
<1> DEFINE part == SubSeq(reactorOut, 1, accepted)
           tail == DropFirst(reactorOut, accepted)
<1>4. \/ UNCHANGED <<toClient, reactorOut>>
      \/ /\ accepted \in 1..Len(reactorOut)
         /\ toClient' = toClient \o part /\ reactorOut' = tail
  <2> DEFINE room == Min({Len(reactorOut), KernelCap - Len(toClient)})
  <2>1. room \in Int /\ room <= Len(reactorOut)
    BY <1>3, KernelCapAssumption, MinOfTwo
  <2>2. \/ /\ accepted \in (IF room = 0 THEN {0} ELSE 1..room)
           /\ toClient' = toClient \o SubSeq(reactorOut, 1, accepted)
        \/ accepted = -1 /\ UNCHANGED toClient
    BY <1>1 DEF SendNb
  <2> HIDE DEF room
  <2>3. CASE accepted = -1
    <3>1. reactorOut' = reactorOut
      BY <1>1, <2>3 DEF Sent
    <3>2. UNCHANGED toClient
      BY <2>1, <2>2, <2>3
    <3> QED
      BY <3>1, <3>2
  <2>4. CASE accepted = 0
    <3>1. reactorOut' = reactorOut
      BY <1>1, <2>4 DEF Sent
    <3>2. toClient' = toClient \o <<>>
      <4>1. SubSeq(reactorOut, 1, 0) = <<>>
        BY SubSeqEmpty
      <4>2. accepted # -1
        BY <2>4
      <4>3. toClient' = toClient \o SubSeq(reactorOut, 1, accepted)
        BY <2>2, <4>2, Zenon
      <4> QED
        BY <2>4, <4>1, <4>3, Zenon
    <3>3. toClient' = toClient
      BY <1>3, <3>2, ConcatEmptySeq DEF Octets
    <3> QED
      BY <3>1, <3>3
  <2>5. CASE accepted \in 1..room
    <3>1. reactorOut' = tail
      BY <1>1, <2>1, <2>5 DEF Sent
    <3>2. toClient' = toClient \o part
      BY <2>2, <2>5
    <3> QED
      BY <1>3, <2>1, <2>5, <3>1, <3>2
  <2> QED
    BY <2>2, <2>3, <2>4, <2>5
<1>5. toClient' \in Octets /\ reactorOut' \in Octets /\ Delivered'
  <2>1. CASE UNCHANGED <<toClient, reactorOut>>
    BY <1>2, <1>3, <2>1 DEF StreamInv, Delivered
  <2>2. CASE /\ accepted \in 1..Len(reactorOut)
             /\ toClient' = toClient \o part /\ reactorOut' = tail
    <3>1. part \in Octets /\ tail \in Octets /\ part \o tail = reactorOut
      <4>1. accepted \in 0..Len(reactorOut)
        BY <1>3, <2>2
      <4> QED
        BY <1>3, <4>1, CutInTwo DEF Octets
    <3>2. toClient \o part \in Octets
      BY <1>3, <3>1, Joined DEF Octets
    <3> HIDE DEF part, tail
    <3>3. (toClient \o part) \o tail = toClient \o (part \o tail)
      <4>1. toClient \in Octets
        BY <1>3
      <4> QED
        BY <3>1, <4>1, OctetsAssoc, Zenon
    <3>4. Delivered'
      BY <1>2, <2>2, <3>1, <3>3, Zenon DEF StreamInv, Delivered
    <3> QED
      BY <2>2, <3>1, <3>2, <3>4
  <2> QED
    BY <1>4, <2>1, <2>2
<1>6. Kept'
  BY <1>2 DEF StreamInv, Kept, Ahead, Stream
<1> QED
  BY <1>2, <1>5, <1>6, RestKeeps, TypeFacts

\* pumpInbound: what is read off the kernel is in the buffer of the reactor.
LEMMA PumpKeeps ==
  ASSUME StreamInv, Pump
  PROVE  StreamInv'
<1>1. PICK status \in {"data", "eof", "wouldBlock", "error"},
           bytes \in {<<>>} \cup {SubSeq(toServer, 1, k) : k \in 1..Len(toServer)} :
        RecvNb(ReadCap, status, bytes) /\ reactorIn' = reactorIn \o bytes
  BY DEF Pump
<1>2. UNCHANGED <<toClient, script, written, got, reactorOut, inbound, taken,
                  core, produced>>
  BY DEF Pump, client
<1>3. /\ toServer \in Octets /\ reactorIn \in Octets /\ inbound \in Octets
      /\ Len(toServer) \in Nat
  BY TypeFacts DEF Octets
<1>4. bytes \in Octets /\ toServer' \in Octets /\ bytes \o toServer' = toServer
  <2>1. CASE \E k \in 1..Min({ReadCap, Len(toServer)}) :
               /\ bytes = SubSeq(toServer, 1, k)
               /\ toServer' = DropFirst(toServer, Len(bytes))
    <3>1. PICK k \in 1..Min({ReadCap, Len(toServer)}) :
            /\ bytes = SubSeq(toServer, 1, k)
            /\ toServer' = DropFirst(toServer, Len(bytes))
      BY <2>1
    <3>2. k \in 0..Len(toServer)
      BY <1>3, StreamBounds, MinOfTwo
    <3>3. Len(bytes) = k
      BY <1>3, <3>1, <3>2, CutInTwo DEF Octets
    <3> QED
      BY <1>3, <3>1, <3>2, <3>3, CutInTwo DEF Octets
  <2>2. CASE bytes = <<>> /\ toServer' = toServer
    BY <1>3, <2>2, ConcatEmptySeq, EmptySeq DEF Octets
  <2> QED
    BY <1>1, <2>1, <2>2 DEF RecvNb
<1>5. reactorIn' \in Octets
  BY <1>1, <1>3, <1>4, Joined DEF Octets
<1>6. Kept'
  <2>1. (reactorIn \o bytes) \o toServer' = reactorIn \o (bytes \o toServer')
    <3>1. reactorIn \in Octets
      BY <1>3
    <3> QED
      BY <1>4, <3>1, OctetsAssoc, Zenon
  <2>2. Ahead' = Ahead
    BY <1>1, <1>2, <1>4, <2>1, Zenon DEF Ahead
  <2> QED
    BY <1>2, <2>2 DEF StreamInv, Kept, Stream
<1>7. Delivered'
  BY <1>2 DEF StreamInv, Delivered
<1> QED
  BY <1>2, <1>4, <1>5, <1>6, <1>7, RestKeeps, TypeFacts

LEMMA DriveReadableKeeps ==
  ASSUME StreamInv, DriveReadable
  PROVE  StreamInv'
<1>1. /\ Feed(reactorIn) /\ reactorIn' = <<>>
      /\ UNCHANGED <<toServer, toClient, script, written, got>>
  BY DEF DriveReadable, kernel, client
<1>2. reactorIn \in Octets
  BY TypeFacts
<1>3. reactorIn' \in Octets /\ reactorIn = reactorIn \o reactorIn'
  BY <1>1, <1>2, ConcatEmptySeq, EmptySeq DEF Octets
<1> QED
  BY <1>1, <1>2, <1>3, FeedKeeps

LEMMA DrainKeeps ==
  ASSUME StreamInv, Drain
  PROVE  StreamInv'
<1>1. UNCHANGED <<toServer, toClient, script, written, got>>
  BY DEF Drain, kernel, client
<1>2. CASE UNCHANGED buffers
  <2>1. Delivered' /\ Kept'
    BY <1>1, <1>2 DEF StreamInv, Delivered, Kept, Ahead, Stream, buffers
  <2> QED
    BY <1>1, <1>2, <2>1, RestKeeps, TypeFacts DEF buffers
<1>3. CASE Feed(<<>>) /\ UNCHANGED reactorIn
  <2>1. <<>> \in Octets /\ reactorIn \in Octets
    BY TypeFacts DEF Octets
  <2>2. reactorIn' \in Octets /\ reactorIn = <<>> \o reactorIn'
    BY <1>3, <2>1, ConcatEmptySeq DEF Octets
  <2> QED
    BY <1>1, <1>3, <2>1, <2>2, FeedKeeps
<1> QED
  BY <1>2, <1>3 DEF Drain

LEMMA DriveEofKeeps ==
  ASSUME StreamInv, DriveEof
  PROVE  StreamInv'
<1>1. UNCHANGED <<toServer, toClient, script, written, got, reactorIn,
                  reactorOut, inbound, taken, produced>>
  BY DEF DriveEof, kernel, client
<1>2. CASE core' = core
  <2>1. Delivered' /\ Kept'
    BY <1>1, <1>2 DEF StreamInv, Delivered, Kept, Ahead, Stream
  <2> QED
    BY <1>1, <1>2, <2>1, RestKeeps, TypeFacts
<1>3. CASE core.failed = "no" /\ core' = [core EXCEPT !.failed = "eof"]
  <2>1. /\ core' \in Core /\ core'.failed = "eof"
        /\ core'.messages = core.messages /\ core'.seen = core.seen
        /\ core'.reasm = core.reasm
    BY <1>3, TypeFacts DEF Core, Failure
  <2>2. StreamType'
    BY <1>1, <2>1 DEF StreamInv, StreamType, Stream
  <2>3. Delivered'
    BY <1>1 DEF StreamInv, Delivered
  <2>4. Kept'
    BY <2>1 DEF Kept
  <2>5. TakenAsWritten'
    BY <1>1, <2>1 DEF StreamInv, TakenAsWritten
  <2>6. CoreSound'
    BY <1>1, <1>3, <2>1, Zenon DEF StreamInv, CoreSound, Sound
  <2> QED
    BY <2>2, <2>3, <2>4, <2>5, <2>6 DEF StreamInv
<1> QED
  BY <1>2, <1>3 DEF DriveEof

\* The other steps move no octet.
LEMMA OthersKeep ==
  ASSUME StreamInv,
         UNCHANGED <<toServer, toClient, client, buffers>>
  PROVE  StreamInv'
<1>1. Delivered' /\ Kept'
  BY DEF StreamInv, Delivered, Kept, Ahead, Stream, client, buffers
<1> QED
  BY <1>1, RestKeeps, TypeFacts DEF client, buffers

LEMMA StreamStart ==
  ASSUME StreamInit
  PROVE  StreamInv
<1>1. /\ toServer = <<>> /\ toClient = <<>> /\ script \in Scripts
      /\ written = 0 /\ got = <<>> /\ reactorIn = <<>> /\ reactorOut = <<>>
      /\ inbound = <<>> /\ taken = <<>> /\ core = CoreInit /\ produced = <<>>
  BY DEF StreamInit, KernelInit
<1>2. /\ core \in Core /\ core.failed = "no" /\ core.messages = <<>>
      /\ core.reasm = <<>> /\ core.seen = 0
  BY <1>1 DEF CoreInit, Core, Failure, Octets
<1>3. script \in Seq(Record) /\ Stream \in Octets
  BY <1>1, ScriptType
<1>4. StreamType
  BY <1>1, <1>2, <1>3 DEF StreamType, Octets
<1>5. Delivered
  BY <1>1, ConcatEmptySeq, EmptySeq DEF Delivered
<1>6. Kept
  <2>1. SubSeq(Stream, 1, written) = <<>>
    BY <1>1, SubSeqEmpty
  <2>2. EncodeAll(taken) \o Ahead = <<>>
    BY <1>1, EncodeNone, ConcatEmptySeq, EmptySeq DEF Ahead
  <2> QED
    BY <2>1, <2>2 DEF Kept
<1>7. TakenAsWritten
  BY <1>1, <1>2, <1>3 DEF TakenAsWritten
<1>8. CoreSound
  <2>1. HandshakeOctets(taken) = <<>> /\ FlattenSeq(core.messages) \o core.reasm = <<>>
    BY <1>1, <1>2, EncodeNone, FlattenEmpty, ConcatEmptySeq, EmptySeq
  <2> QED
    BY <1>2, <2>1, StreamBounds DEF CoreSound, Sound
<1> QED
  BY <1>4, <1>5, <1>6, <1>7, <1>8 DEF StreamInv

LEMMA StreamStep ==
  ASSUME StreamInv, [StreamNext]_streamVars
  PROVE  StreamInv'
<1>1. CASE ClientWrites
  BY <1>1, ClientWritesKeeps
<1>2. CASE ClientReads
  BY <1>2, ClientReadsKeeps
<1>3. CASE ClientCloses
  BY <1>3, OthersKeep DEF ClientCloses, ClientOnly
<1>4. CASE Breaks
  BY <1>4, OthersKeep DEF Breaks, Break
<1>5. CASE Start
  BY <1>5, OthersKeep DEF Start
<1>6. CASE Flush
  BY <1>6, FlushKeeps
<1>7. CASE Flushed \/ Poll
  BY <1>7, OthersKeep DEF Flushed, Poll, kernel
<1>8. CASE Pump
  BY <1>8, PumpKeeps
<1>9. CASE DriveReadable
  BY <1>9, DriveReadableKeeps
<1>10. CASE DriveEof
  BY <1>10, DriveEofKeeps
<1>11. CASE Drain
  BY <1>11, DrainKeeps
<1>12. CASE Close
  BY <1>12, OthersKeep DEF Close
<1>13. CASE UNCHANGED streamVars
  BY <1>13, OthersKeep DEF streamVars, kernel
<1> QED
  BY <1>1, <1>2, <1>3, <1>4, <1>5, <1>6, <1>7, <1>8, <1>9, <1>10, <1>11,
     <1>12, <1>13 DEF StreamNext, Server

-----------------------------------------------------------------------------
(* The results.                                                            *)

\* The invariant holds in every reachable state.
THEOREM StreamInvariant == StreamSpec => []StreamInv
<1>1. StreamInit => StreamInv
  BY StreamStart
<1>2. StreamInv /\ [StreamNext]_streamVars => StreamInv'
  BY StreamStep
<1> QED
  BY <1>1, <1>2, PTL DEF StreamSpec

\* Octets, records and the core keep their types.
THEOREM StreamTypeCorrect == StreamSpec => []StreamType
<1>1. StreamInv => StreamType
  BY DEF StreamInv
<1> QED
  BY <1>1, StreamInvariant, PTL

\* However little of it the kernel takes at a time, what the server produced
\* reaches the client once and in order.
THEOREM RepliesCorrect == StreamSpec => []RepliesInOrder
<1>1. StreamInv => RepliesInOrder
  <2>1. SUFFICES ASSUME StreamInv
                 PROVE  RepliesInOrder
    OBVIOUS
  <2>2. got \in Octets /\ toClient \in Octets /\ reactorOut \in Octets
    BY <2>1, TypeFacts
  <2>3. (got \o toClient) \o reactorOut = got \o (toClient \o reactorOut)
    BY <2>2, OctetsAssoc, Zenon
  <2> QED
    BY <2>1, <2>3, Zenon DEF RepliesInOrder, StreamInv, Delivered
<1> QED
  BY <1>1, StreamInvariant, PTL

\* As long as the core has not failed, every octet written is in a record
\* taken or in a buffer, once and in order.
THEOREM NoLossCorrect == StreamSpec => []NoOctetLost
<1>1. StreamInv => NoOctetLost
  <2>1. SUFFICES ASSUME StreamInv, core.failed = "no"
                 PROVE  EncodeAll(taken) \o inbound \o reactorIn \o toServer
                          = SubSeq(Stream, 1, written)
    BY DEF NoOctetLost
  <2> DEFINE before == EncodeAll(taken)
  <2>2. /\ before \in Octets /\ inbound \in Octets /\ reactorIn \in Octets
        /\ toServer \in Octets
    BY <2>1, TypeFacts
  <2>3. before \o Ahead = SubSeq(Stream, 1, written)
    BY <2>1 DEF StreamInv, Kept
  <2> HIDE DEF before
  <2>4. before \o inbound \in Octets /\ reactorIn \o toServer \in Octets
    BY <2>2, Joined DEF Octets
  <2>5. ((before \o inbound) \o reactorIn) \o toServer
          = (before \o inbound) \o (reactorIn \o toServer)
    <3>1. before \o inbound \in Octets /\ reactorIn \in Octets /\ toServer \in Octets
      BY <2>2, <2>4
    <3> QED
      BY <3>1, OctetsAssoc, Zenon
  <2>6. (before \o inbound) \o (reactorIn \o toServer) = before \o Ahead
    <3>1. before \in Octets /\ inbound \in Octets /\ reactorIn \o toServer \in Octets
      BY <2>2, <2>4
    <3> QED
      BY <3>1, OctetsAssoc, Zenon DEF Ahead
  <2> QED
    BY <2>3, <2>5, <2>6, Zenon DEF before
<1> QED
  BY <1>1, StreamInvariant, PTL

\* The records framed are those written, the messages framed are the octets
\* those records carried, and a limit fails the core when it is crossed and
\* not before.
THEOREM MessagesCorrect == StreamSpec => []MessagesAsWritten
<1>1. StreamInv => MessagesAsWritten
  <2>1. SUFFICES ASSUME StreamInv
                 PROVE  MessagesAsWritten
    OBVIOUS
  <2>2. IsPrefix(taken, script)
    <3>1. Len(taken) <= Len(script) /\ taken = SubSeq(script, 1, Len(taken))
      BY <2>1 DEF StreamInv, TakenAsWritten
    <3>2. SubSeq(taken, 1, Len(taken)) = taken
      BY <2>1, TypeFacts, SubSeqFull
    <3> QED
      BY <3>1, <3>2, Zenon DEF IsPrefix
  <2> QED
    BY <2>1, <2>2, Zenon
    DEF MessagesAsWritten, StreamInv, TakenAsWritten, CoreSound, Sound
<1> QED
  BY <1>1, StreamInvariant, PTL
=============================================================================
