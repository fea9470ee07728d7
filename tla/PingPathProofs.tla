--------------------------- MODULE PingPathProofs ---------------------------
(***************************************************************************)
(* Theorems about the path of a ping: about the checksum of an ICMP        *)
(* message, and about the signed probes, their answers and the results of  *)
(* PingPath.                                                               *)
(*                                                                         *)
(* A carry out of 16 bits is worth 1 when it is added again, so sums of    *)
(* words are taken modulo 65535; and modulo 65535 exchanging the bytes of  *)
(* a word is multiplying it by 256.  calc_checksum makes the sum of the    *)
(* little-endian words a multiple of 65535, which it then is in the other  *)
(* order too.                                                              *)
(*                                                                         *)
(* A packet is parsed into the parts it was joined from, whatever the      *)
(* length of the header.  A body is accepted if its end is the code of     *)
(* what precedes it.  A code belongs to one payload, so what was changed,  *)
(* cut short, quoted or signed with another secret is refused.             *)
(***************************************************************************)
EXTENDS PingPath, SequenceFacts

-----------------------------------------------------------------------------
Byte == 0 .. 255
Word == 0 .. 65535

LEMMA BytesAreNumbers == Byte \subseteq Nat
BY DEF Byte

LEMMA WordsAreNumbers == Word \subseteq Nat
BY DEF Word

-----------------------------------------------------------------------------
(* Sums. *)
LEMMA SumExists ==
  ASSUME NEW w \in Seq(Nat)
  PROVE  \E f : f = [n \in 0 .. Len(w) |-> IF n = 0 THEN 0 ELSE f[n - 1] + w[n]]
<1> DEFINE Sums(f, k) == f = [n \in 0 .. k |-> IF n = 0 THEN 0 ELSE f[n - 1] + w[n]]
           T == {k \in 0 .. Len(w) : \E f : Sums(f, k)}
<1>1. Len(w) \in Nat
  BY LenProperties
<1>2. 0 \in T
  <2> DEFINE h == [n \in {0} |-> 0]
  <2>1. Sums(h, 0)
    OBVIOUS
  <2> HIDE DEF h
  <2>2. \E f : Sums(f, 0)
    BY <2>1
  <2>3. QED
    BY <1>1, <2>2
<1>3. ASSUME NEW k \in 0 .. Len(w), k \in T, k < Len(w)
      PROVE  k + 1 \in T
  <2>1. PICK f : Sums(f, k)
    BY <1>3
  <2> DEFINE g == [n \in 0 .. k + 1 |-> IF n = k + 1 THEN f[k] + w[k + 1] ELSE f[n]]
  <2>2. ASSUME NEW n \in 0 .. k + 1
        PROVE  g[n] = IF n = 0 THEN 0 ELSE g[n - 1] + w[n]
    <3>1. CASE n = k + 1
      BY <1>1, <3>1
    <3>2. CASE n # k + 1
      <4>1. n \in 0 .. k /\ (n # 0 => n - 1 \in 0 .. k)
        BY <1>1, <3>2
      <4>2. f[n] = IF n = 0 THEN 0 ELSE f[n - 1] + w[n]
        BY <2>1, <4>1
      <4>3. g[n] = f[n] /\ (n # 0 => g[n - 1] = f[n - 1])
        BY <1>1, <4>1
      <4>4. QED
        BY <4>2, <4>3
    <3>3. QED
      BY <3>1, <3>2
  <2>3. Sums(g, k + 1)
    BY <2>2
  <2>4. k + 1 \in 0 .. Len(w)
    BY <1>1, <1>3
  <2> HIDE DEF g
  <2>5. QED
    BY <2>3, <2>4
<1> HIDE DEF T
<1>4. 0 .. Len(w) \subseteq T
  BY <1>1, <1>2, <1>3, Induction
<1>5. Len(w) \in T
  BY <1>1, <1>4
<1>6. QED
  BY <1>5 DEF T

LEMMA SumsFacts ==
  ASSUME NEW w \in Seq(Nat)
  PROVE  /\ SumsOf(w)[0] = 0
         /\ \A n \in 0 .. Len(w) : n < Len(w) => SumsOf(w)[n + 1] = SumsOf(w)[n] + w[n + 1]
         /\ \A n \in 0 .. Len(w) : SumsOf(w)[n] \in Nat
<1>1. SumsOf(w) = [n \in 0 .. Len(w) |-> IF n = 0 THEN 0 ELSE SumsOf(w)[n - 1] + w[n]]
  BY SumExists DEF SumsOf
<1>2. Len(w) \in Nat /\ \A n \in 1 .. Len(w) : w[n] \in Nat
  BY LenProperties, ElementOfSeq
<1>3. SumsOf(w)[0] = 0
  BY <1>1, <1>2
<1>4. ASSUME NEW n \in 0 .. Len(w), n < Len(w)
      PROVE  SumsOf(w)[n + 1] = SumsOf(w)[n] + w[n + 1]
  <2>1. n + 1 \in 0 .. Len(w) /\ n + 1 # 0 /\ (n + 1) - 1 = n
    BY <1>2, <1>4
  <2>2. QED
    BY <1>1, <2>1
<1>5. \A n \in 0 .. Len(w) : SumsOf(w)[n] \in Nat
  <2> DEFINE T == {n \in 0 .. Len(w) : SumsOf(w)[n] \in Nat}
  <2>1. 0 \in T
    BY <1>2, <1>3
  <2>2. ASSUME NEW n \in 0 .. Len(w), n \in T, n < Len(w) PROVE n + 1 \in T
    BY <1>2, <1>4, <2>2
  <2> HIDE DEF T
  <2>3. 0 .. Len(w) \subseteq T
    BY <1>2, <2>1, <2>2, Induction
  <2>4. QED
    BY <2>3 DEF T
<1>6. QED
  BY <1>3, <1>4, <1>5

(* A sum of words read in one order, and that of the same words in the       *)
(* other, are the same modulo 65535 but for a factor of 256.                 *)
Swapped(a, b) == \E q \in Nat : 256 * a = b + 65535 * q

LEMMA SwappedBy ==
  ASSUME NEW a \in Nat, NEW b \in Nat, Swapped(a, b)
  PROVE  \E m \in Nat : 256 * a = b + 65535 * m
BY DEF Swapped

LEMMA SwappedZero == Swapped(0, 0)
<1>1. 256 * 0 = 0 + 65535 * 0 /\ 0 \in Nat
  OBVIOUS
<1>2. QED
  BY <1>1 DEF Swapped

LEMMA SwappedAdd ==
  ASSUME NEW a \in Nat, NEW b \in Nat, NEW c \in Nat, NEW d \in Nat, Swapped(a, b), Swapped(c, d)
  PROVE  Swapped(a + c, b + d)
<1>1. PICK m \in Nat : 256 * a = b + 65535 * m
  BY SwappedBy
<1>2. PICK p \in Nat : 256 * c = d + 65535 * p
  BY SwappedBy
<1>3. 256 * (a + c) = (b + d) + 65535 * (m + p) /\ m + p \in Nat
  BY <1>1, <1>2
<1>4. QED
  BY <1>3 DEF Swapped

LEMMA SwappedSums ==
  ASSUME NEW v \in Seq(Nat), NEW w \in Seq(Nat), Len(v) = Len(w),
         \A k \in 1 .. Len(v) : Swapped(v[k], w[k])
  PROVE  Swapped(SumOf(v), SumOf(w))
<1> DEFINE S == SumsOf(v)
           U == SumsOf(w)
           T == {n \in 0 .. Len(v) : Swapped(S[n], U[n])}
<1>0. Len(v) \in Nat /\ \A n \in 1 .. Len(v) : v[n] \in Nat /\ w[n] \in Nat
  BY LenProperties, ElementOfSeq
<1>1. /\ S[0] = 0 /\ U[0] = 0
      /\ \A n \in 0 .. Len(v) : S[n] \in Nat /\ U[n] \in Nat
      /\ \A n \in 0 .. Len(v) : n < Len(v) => S[n + 1] = S[n] + v[n + 1] /\ U[n + 1] = U[n] + w[n + 1]
  BY SumsFacts
<1> HIDE DEF S, U
<1>2. 0 \in T
  BY <1>0, <1>1, SwappedZero
<1>3. ASSUME NEW n \in 0 .. Len(v), n \in T, n < Len(v) PROVE n + 1 \in T
  <2>1. n + 1 \in 1 .. Len(v) /\ n + 1 \in 0 .. Len(v)
    BY <1>0, <1>3
  <2>2. /\ S[n + 1] = S[n] + v[n + 1] /\ U[n + 1] = U[n] + w[n + 1]
        /\ S[n] \in Nat /\ U[n] \in Nat /\ v[n + 1] \in Nat /\ w[n + 1] \in Nat
    BY <1>0, <1>1, <1>3, <2>1
  <2>3. Swapped(S[n], U[n]) /\ Swapped(v[n + 1], w[n + 1])
    BY <1>3, <2>1
  <2>4. Swapped(S[n + 1], U[n + 1])
    BY <2>2, <2>3, SwappedAdd
  <2>5. QED
    BY <2>1, <2>4
<1>4. Len(v) \in T
  <2> HIDE DEF T
  <2>1. 0 .. Len(v) \subseteq T
    BY <1>0, <1>2, <1>3, Induction
  <2>2. QED
    BY <1>0, <2>1
<1>5. Swapped(S[Len(v)], U[Len(v)])
  BY <1>4
<1>6. QED
  BY <1>5 DEF SumOf, S, U

(* Adding c to the second word adds c to the sum.                            *)
LEMMA SumWith ==
  ASSUME NEW v \in Seq(Nat), NEW w \in Seq(Nat), Len(v) = Len(w), Len(v) >= 2, NEW c \in Nat,
         w[2] = v[2] + c, \A k \in 1 .. Len(v) : k # 2 => w[k] = v[k]
  PROVE  SumOf(w) = SumOf(v) + c
<1> DEFINE S == SumsOf(v)
           U == SumsOf(w)
           T == {n \in 0 .. Len(v) : U[n] = S[n] + IF n >= 2 THEN c ELSE 0}
<1>0. Len(v) \in Nat /\ \A n \in 1 .. Len(v) : v[n] \in Nat /\ w[n] \in Nat
  BY LenProperties, ElementOfSeq
<1>1. /\ S[0] = 0 /\ U[0] = 0
      /\ \A n \in 0 .. Len(v) : S[n] \in Nat /\ U[n] \in Nat
      /\ \A n \in 0 .. Len(v) : n < Len(v) => S[n + 1] = S[n] + v[n + 1] /\ U[n + 1] = U[n] + w[n + 1]
  BY SumsFacts
<1> HIDE DEF S, U
<1>2. 0 \in T
  BY <1>0, <1>1
<1>3. ASSUME NEW n \in 0 .. Len(v), n \in T, n < Len(v) PROVE n + 1 \in T
  <2>1. /\ n + 1 \in 1 .. Len(v) /\ n + 1 \in 0 .. Len(v)
        /\ S[n + 1] = S[n] + v[n + 1] /\ U[n + 1] = U[n] + w[n + 1]
        /\ S[n] \in Nat /\ U[n] \in Nat /\ v[n + 1] \in Nat /\ w[n + 1] \in Nat
    BY <1>0, <1>1, <1>3
  <2>2. U[n] = S[n] + IF n >= 2 THEN c ELSE 0
    BY <1>3
  <2>3. CASE n + 1 = 2
    <3>1. n = 1 /\ U[n] = S[n] /\ w[n + 1] = v[n + 1] + c
      BY <1>0, <2>1, <2>2, <2>3
    <3>2. U[n + 1] = S[n + 1] + c
      BY <2>1, <3>1
    <3>3. QED
      BY <2>1, <2>3, <3>2
  <2>4. CASE n + 1 # 2
    <3>1. w[n + 1] = v[n + 1] /\ (n >= 2 <=> n + 1 >= 2)
      BY <2>1, <2>4
    <3>2. QED
      BY <2>1, <2>2, <3>1
  <2>5. QED
    BY <2>3, <2>4
<1>4. Len(v) \in T
  <2> HIDE DEF T
  <2>1. 0 .. Len(v) \subseteq T
    BY <1>0, <1>2, <1>3, Induction
  <2>2. QED
    BY <1>0, <2>1
<1>5. U[Len(v)] = S[Len(v)] + c
  BY <1>4
<1>6. QED
  BY <1>5 DEF SumOf, S, U

(* A sum of words is a number, and at least the first of them.               *)
LEMMA SumFacts ==
  ASSUME NEW w \in Seq(Nat), Len(w) >= 1
  PROVE  SumOf(w) \in Nat /\ w[1] <= SumOf(w)
<1> DEFINE S == SumsOf(w)
           T == {n \in 0 .. Len(w) : n > 0 => w[1] <= S[n]}
<1>0. Len(w) \in Nat /\ \A n \in 1 .. Len(w) : w[n] \in Nat
  BY LenProperties, ElementOfSeq
<1>1. /\ S[0] = 0
      /\ \A n \in 0 .. Len(w) : S[n] \in Nat
      /\ \A n \in 0 .. Len(w) : n < Len(w) => S[n + 1] = S[n] + w[n + 1]
  BY SumsFacts
<1> HIDE DEF S
<1>2. 0 \in T
  BY <1>0
<1>3. ASSUME NEW n \in 0 .. Len(w), n \in T, n < Len(w) PROVE n + 1 \in T
  <2>1. /\ n + 1 \in 1 .. Len(w) /\ n + 1 \in 0 .. Len(w) /\ S[n + 1] = S[n] + w[n + 1]
        /\ S[n] \in Nat /\ w[n + 1] \in Nat /\ w[1] \in Nat
    BY <1>0, <1>1, <1>3
  <2>2. w[1] <= S[n + 1]
    <3>1. CASE n = 0
      BY <1>1, <2>1, <3>1
    <3>2. CASE n > 0
      <4>1. w[1] <= S[n]
        BY <1>3, <3>2
      <4>2. QED
        BY <2>1, <4>1
    <3>3. QED
      BY <3>1, <3>2
  <2>3. QED
    BY <2>1, <2>2
<1>4. Len(w) \in T
  <2> HIDE DEF T
  <2>1. 0 .. Len(w) \subseteq T
    BY <1>0, <1>2, <1>3, Induction
  <2>2. QED
    BY <1>0, <2>1
<1>5. w[1] <= S[Len(w)] /\ S[Len(w)] \in Nat
  BY <1>0, <1>1, <1>4
<1>6. QED
  BY <1>5 DEF SumOf, S

-----------------------------------------------------------------------------
(* The carries. *)
Rest(s) == IF s = 0 THEN 0 ELSE 1 + ((s - 1) % 65535)
OneFold(s) == (s % 65536) + (s \div 65536)

LEMMA SmallRest == ASSUME NEW s \in Nat, s < 65536 PROVE Rest(s) = s
BY DEF Rest

LEMMA FoldIsSmaller ==
  ASSUME NEW s \in Nat, s >= 65536
  PROVE  /\ OneFold(s) \in Nat /\ OneFold(s) > 0 /\ OneFold(s) < s
         /\ s = OneFold(s) + (65535 * (s \div 65536)) /\ s \div 65536 \in Nat
BY DEF OneFold

LEMMA SameModulo ==
  ASSUME NEW s \in Nat, NEW t \in Nat, NEW q \in Nat, t > 0, s = t + (65535 * q)
  PROVE  (s - 1) % 65535 = (t - 1) % 65535
OBVIOUS

LEMMA FoldKeepsRest ==
  ASSUME NEW s \in Nat, s >= 65536
  PROVE  Rest(OneFold(s)) = Rest(s)
<1> DEFINE t == OneFold(s)
           q == s \div 65536
<1>1. t \in Nat /\ t > 0 /\ q \in Nat /\ s = t + (65535 * q)
  BY FoldIsSmaller
<1> HIDE DEF t, q
<1>2. (s - 1) % 65535 = (t - 1) % 65535
  BY <1>1, SameModulo
<1>3. Rest(t) = Rest(s)
  BY <1>1, <1>2 DEF Rest
<1>4. QED
  BY <1>3 DEF t

IsFold(f) ==
  f = [s \in Nat |-> IF s < 65536 THEN s ELSE f[OneFold(s)]]

LEMMA FoldExists == \E f : IsFold(f)
<1> DEFINE g == [s \in Nat |-> Rest(s)]
<1>1. ASSUME NEW s \in Nat
      PROVE  Rest(s) = IF s < 65536 THEN s ELSE g[OneFold(s)]
  <2>1. CASE s < 65536
    BY <2>1, SmallRest
  <2>2. CASE s >= 65536
    <3>1. OneFold(s) \in Nat
      BY <2>2, FoldIsSmaller
    <3>2. QED
      BY <2>2, <3>1, FoldKeepsRest
  <2>3. QED
    BY <2>1, <2>2
<1>2. g = [s \in Nat |-> IF s < 65536 THEN s ELSE g[OneFold(s)]]
  BY <1>1
<1>3. IsFold(g)
  BY <1>2 DEF IsFold
<1> HIDE DEF g
<1>4. QED
  BY <1>3

LEMMA FoldedIsFold == IsFold(Folded)
BY FoldExists DEF IsFold, Folded, OneFold

LEMMA FoldIsRest ==
  ASSUME NEW N \in Nat
  PROVE  FoldCarries(N) = Rest(N)
<1> DEFINE T == {n \in 0 .. N : \A m \in 0 .. n : Folded[m] = Rest(m)}
<1>1. \A s \in Nat : Folded[s] = IF s < 65536 THEN s ELSE Folded[OneFold(s)]
  BY FoldedIsFold DEF IsFold
<1>2. 0 \in T
  BY <1>1, SmallRest
<1>3. ASSUME NEW n \in 0 .. N, n \in T, n < N PROVE n + 1 \in T
  <2>1. Folded[n + 1] = Rest(n + 1)
    <3>1. CASE n + 1 < 65536
      BY <1>1, <3>1, SmallRest
    <3>2. CASE n + 1 >= 65536
      <4>1. OneFold(n + 1) \in 0 .. n
        BY <3>2, FoldIsSmaller
      <4>2. Folded[OneFold(n + 1)] = Rest(OneFold(n + 1))
        BY <1>3, <4>1
      <4>3. Rest(OneFold(n + 1)) = Rest(n + 1)
        BY <3>2, FoldKeepsRest
      <4>4. Folded[n + 1] = Folded[OneFold(n + 1)]
        BY <1>1, <3>2
      <4>5. QED
        BY <4>2, <4>3, <4>4
    <3>3. QED
      BY <3>1, <3>2
  <2>2. \A m \in 0 .. n : Folded[m] = Rest(m)
    BY <1>3
  <2>3. \A m \in 0 .. n + 1 : m \in 0 .. n \/ m = n + 1
    OBVIOUS
  <2>4. \A m \in 0 .. n + 1 : Folded[m] = Rest(m)
    BY <2>1, <2>2, <2>3
  <2>5. QED
    BY <1>3, <2>4
<1>4. N \in T
  <2> HIDE DEF T
  <2>1. 0 .. N \subseteq T
    BY <1>2, <1>3, Induction
  <2>2. QED
    BY <2>1
<1>5. QED
  BY <1>4 DEF FoldCarries

LEMMA MultipleOf ==
  ASSUME NEW k \in Nat, NEW n \in Nat, n = 65535 * k
  PROVE  n % 65535 = 0
OBVIOUS

LEMMA Division ==
  ASSUME NEW t \in Nat
  PROVE  \E q, r \in Nat : r = t % 65535 /\ r <= 65534 /\ t = (65535 * q) + r
<1>1. /\ t % 65535 \in Nat /\ t % 65535 <= 65534 /\ t \div 65535 \in Nat
      /\ t = (65535 * (t \div 65535)) + (t % 65535)
  OBVIOUS
<1>2. QED
  BY <1>1

LEMMA RestCompletes ==
  ASSUME NEW s \in Nat
  PROVE  \E c \in Nat : c = 65535 - Rest(s) /\ c <= 65535 /\ \E k \in Nat : s + c = 65535 * k
<1>1. CASE s = 0
  <2>1. 65535 - Rest(s) = 65535 /\ s + 65535 = 65535 * 1
    BY <1>1 DEF Rest
  <2>2. \E k \in Nat : s + 65535 = 65535 * k
    BY <2>1
  <2>3. QED
    BY <2>1, <2>2
<1>2. CASE s # 0
  <2>1. PICK t \in Nat : s - 1 = t
    BY <1>2
  <2>2. PICK q \in Nat, r \in Nat : r = t % 65535 /\ r <= 65534 /\ t = (65535 * q) + r
    BY Division
  <2>3. PICK c \in Nat : c = 65534 - r
    BY <2>2
  <2>4. c <= 65535 /\ c = 65535 - (1 + r)
    BY <2>2, <2>3
  <2>5. Rest(s) = 1 + r
    BY <1>2, <2>1, <2>2 DEF Rest
  <2>6. PICK k \in Nat : k = q + 1
    OBVIOUS
  <2>7. c = 65535 - Rest(s)
    BY <2>4, <2>5
  <2>8. s + c = 65535 * k
    BY <1>2, <2>1, <2>2, <2>3, <2>6
  <2>9. QED
    BY <2>4, <2>7, <2>8
<1>3. QED
  BY <1>1, <1>2

(* What calc_checksum puts in place of the checksum brings the sum to a      *)
(* multiple of 65535.                                                        *)
Completes(c, s) ==
  c \in Nat /\ c = 65535 - FoldCarries(s) /\ c <= 65535 /\ \E k \in Nat : s + c = 65535 * k

LEMMA ChecksumCompletes ==
  ASSUME NEW s \in Nat
  PROVE  \E c : Completes(c, s)
<1>1. FoldCarries(s) = Rest(s)
  BY FoldIsRest
<1>2. PICK c \in Nat : c = 65535 - Rest(s) /\ c <= 65535 /\ \E k \in Nat : s + c = 65535 * k
  BY RestCompletes
<1>3. Completes(c, s)
  BY <1>1, <1>2 DEF Completes
<1>4. QED
  BY <1>3

-----------------------------------------------------------------------------
(* The words of a buffer. *)
ByteAt(b, i) == IF i <= Len(b) THEN b[i] ELSE 0

LEMMA Halves ==
  ASSUME NEW n \in Nat
  PROVE  \E h \in Nat, r \in {0, 1} : n = (2 * h) + r /\ n \div 2 = h /\ n % 2 = r
OBVIOUS

LEMMA LittleWordsFacts ==
  ASSUME NEW b \in Seq(Nat)
  PROVE  /\ LittleWords(b) \in Seq(Nat)
         /\ 2 * Len(LittleWords(b)) = Len(b) + (Len(b) % 2)
         /\ \A k \in 1 .. Len(LittleWords(b)) :
              LittleWords(b)[k] = b[(2 * k) - 1] + (256 * ByteAt(b, 2 * k))
<1>1. Len(b) \in Nat /\ \A i \in 1 .. Len(b) : b[i] \in Nat
  BY LenProperties, ElementOfSeq
<1>2. PICK h \in Nat, r \in {0, 1} : Len(b) = (2 * h) + r /\ Len(b) \div 2 = h /\ Len(b) % 2 = r
  BY <1>1, Halves
<1> DEFINE w == [k \in 1 .. h |-> ReadLittle(b, (2 * k) - 1)]
           x == IF r = 1 THEN <<Last(b)>> ELSE <<>>
<1>3. LittleWords(b) = w \o x
  BY <1>2 DEF LittleWords
<1>4. \A k \in 1 .. h : /\ (2 * k) - 1 \in 1 .. Len(b) /\ 2 * k \in 1 .. Len(b)
                        /\ ((2 * k) - 1) + 1 = 2 * k
  BY <1>2
<1>5. /\ w \in Seq(Nat) /\ Len(w) = h
      /\ \A k \in 1 .. h : w[k] = b[(2 * k) - 1] + (256 * b[2 * k])
  <2>1. \A k \in 1 .. h : ReadLittle(b, (2 * k) - 1) = b[(2 * k) - 1] + (256 * b[2 * k])
    BY <1>4 DEF ReadLittle
  <2>2. \A k \in 1 .. h : w[k] = b[(2 * k) - 1] + (256 * b[2 * k]) /\ w[k] \in Nat
    BY <1>1, <1>4, <2>1
  <2>3. w \in [1 .. h -> Nat]
    BY <2>2
  <2>4. QED
    BY <2>2, <2>3
<1>6. /\ x \in Seq(Nat) /\ Len(x) = r
      /\ r = 1 => x[1] = b[Len(b)]
  BY <1>1, <1>2 DEF Last
<1> HIDE DEF w, x
<1>7. /\ w \o x \in Seq(Nat) /\ Len(w \o x) = h + r
      /\ \A k \in 1 .. h + r : (w \o x)[k] = IF k <= h THEN w[k] ELSE x[k - h]
  BY <1>5, <1>6, ConcatProperties
<1>8. ASSUME NEW k \in 1 .. h + r
      PROVE  (w \o x)[k] = b[(2 * k) - 1] + (256 * ByteAt(b, 2 * k))
  <2>1. CASE k <= h
    <3>1. k \in 1 .. h
      BY <2>1
    <3>2. (w \o x)[k] = w[k]
      BY <1>7, <2>1
    <3>3. ByteAt(b, 2 * k) = b[2 * k]
      BY <1>4, <3>1 DEF ByteAt
    <3>4. QED
      BY <1>5, <3>1, <3>2, <3>3
  <2>2. CASE k > h
    <3>1. r = 1 /\ k = h + 1 /\ (2 * k) - 1 = Len(b) /\ 2 * k > Len(b) /\ k - h = 1
      BY <1>2, <2>2
    <3>2. (w \o x)[k] = b[Len(b)] /\ b[Len(b)] \in Nat
      BY <1>1, <1>2, <1>6, <1>7, <2>2, <3>1
    <3>3. ByteAt(b, 2 * k) = 0
      BY <1>1, <3>1 DEF ByteAt
    <3>4. QED
      BY <3>1, <3>2, <3>3
  <2>3. k <= h \/ k > h
    BY <1>2
  <2>4. QED
    BY <2>1, <2>2, <2>3
<1>9. QED
  BY <1>2, <1>3, <1>7, <1>8

LEMMA BigWordsFacts ==
  ASSUME NEW b \in Seq(Nat)
  PROVE  /\ BigWords(b) \in Seq(Nat)
         /\ 2 * Len(BigWords(b)) = Len(b) + (Len(b) % 2)
         /\ \A k \in 1 .. Len(BigWords(b)) :
              BigWords(b)[k] = (256 * b[(2 * k) - 1]) + ByteAt(b, 2 * k)
<1>1. Len(b) \in Nat /\ \A i \in 1 .. Len(b) : b[i] \in Nat
  BY LenProperties, ElementOfSeq
<1>2. PICK h \in Nat, r \in {0, 1} : Len(b) = (2 * h) + r /\ Len(b) \div 2 = h /\ Len(b) % 2 = r
  BY <1>1, Halves
<1> DEFINE x == IF r = 1 THEN <<0>> ELSE <<>>
           p == b \o x
           n == h + r
           w == [k \in 1 .. n |-> ReadBig(p, (2 * k) - 1)]
<1>3. x \in Seq(Nat) /\ Len(x) = r /\ (r = 1 => x[1] = 0)
  OBVIOUS
<1>4. /\ p \in Seq(Nat) /\ Len(p) = 2 * n
      /\ \A i \in 1 .. 2 * n : p[i] = ByteAt(b, i)
  <2> HIDE DEF x
  <2>1. /\ p \in Seq(Nat) /\ Len(p) = Len(b) + r
        /\ \A i \in 1 .. Len(b) + r : p[i] = IF i <= Len(b) THEN b[i] ELSE x[i - Len(b)]
    BY <1>3, ConcatProperties
  <2>2. Len(b) + r = 2 * n
    BY <1>2
  <2>3. ASSUME NEW i \in 1 .. 2 * n PROVE p[i] = ByteAt(b, i)
    <3>1. CASE i <= Len(b)
      BY <2>1, <2>2, <3>1 DEF ByteAt
    <3>2. CASE i > Len(b)
      <4>1. r = 1 /\ i - Len(b) = 1
        BY <1>1, <2>2, <3>2
      <4>2. QED
        BY <1>1, <1>3, <2>1, <2>2, <3>2, <4>1 DEF ByteAt
    <3>3. i \in Nat
      BY <1>2
    <3>4. i <= Len(b) \/ i > Len(b)
      BY <1>1, <3>3
    <3>5. QED
      BY <3>1, <3>2, <3>4
  <2>4. QED
    BY <2>1, <2>2, <2>3
<1>5. BigWords(b) = w
  <2>1. p = b \o IF Len(b) % 2 = 1 THEN <<0>> ELSE <<>>
    BY <1>2
  <2>2. n \in Nat
    BY <1>2
  <2> HIDE DEF p, n
  <2>3. Len(p) \div 2 = n
    BY <1>4, <2>2
  <2>4. QED
    BY <2>1, <2>3 DEF BigWords, w
<1>6. n \in Nat /\ \A i \in 1 .. 2 * n : ByteAt(b, i) \in Nat
  BY <1>1, <1>2 DEF ByteAt
<1>7. \A k \in 1 .. n : /\ (2 * k) - 1 \in 1 .. 2 * n /\ 2 * k \in 1 .. 2 * n
                        /\ ((2 * k) - 1) + 1 = 2 * k /\ (2 * k) - 1 \in 1 .. Len(b)
  BY <1>2
<1> HIDE DEF p, n
<1>8. \A k \in 1 .. n : w[k] = (256 * b[(2 * k) - 1]) + ByteAt(b, 2 * k) /\ w[k] \in Nat
  <2>1. ASSUME NEW k \in 1 .. n
        PROVE  w[k] = (256 * b[(2 * k) - 1]) + ByteAt(b, 2 * k) /\ w[k] \in Nat
    <3>1. w[k] = (256 * p[(2 * k) - 1]) + p[2 * k]
      BY <1>7 DEF ReadBig
    <3>2. p[(2 * k) - 1] = ByteAt(b, (2 * k) - 1) /\ p[2 * k] = ByteAt(b, 2 * k)
      BY <1>4, <1>7
    <3>3. ByteAt(b, (2 * k) - 1) = b[(2 * k) - 1]
      BY <1>7 DEF ByteAt
    <3>4. ByteAt(b, (2 * k) - 1) \in Nat /\ ByteAt(b, 2 * k) \in Nat
      BY <1>6, <1>7
    <3> HIDE DEF w
    <3>5. QED
      BY <3>1, <3>2, <3>3, <3>4
  <2>2. QED
    BY <2>1
<1>9. w \in Seq(Nat) /\ Len(w) = n
  <2>1. w \in [1 .. n -> Nat]
    BY <1>8
  <2>2. QED
    BY <1>6, <2>1
<1>10. 2 * n = Len(b) + (Len(b) % 2)
  BY <1>2 DEF n
<1> HIDE DEF w
<1>11. QED
  BY <1>5, <1>8, <1>9, <1>10

LEMMA SwappedWords ==
  ASSUME NEW b \in Seq(Nat)
  PROVE  Swapped(SumOf(LittleWords(b)), SumOf(BigWords(b)))
<1> DEFINE v == LittleWords(b)
           w == BigWords(b)
<1>1. /\ v \in Seq(Nat) /\ w \in Seq(Nat)
      /\ 2 * Len(v) = Len(b) + (Len(b) % 2) /\ 2 * Len(w) = Len(b) + (Len(b) % 2)
      /\ \A k \in 1 .. Len(v) : v[k] = b[(2 * k) - 1] + (256 * ByteAt(b, 2 * k))
      /\ \A k \in 1 .. Len(w) : w[k] = (256 * b[(2 * k) - 1]) + ByteAt(b, 2 * k)
  BY LittleWordsFacts, BigWordsFacts
<1> HIDE DEF v, w
<1>2. Len(b) \in Nat /\ \A i \in 1 .. Len(b) : b[i] \in Nat
  BY LenProperties, ElementOfSeq
<1>3. Len(v) \in Nat /\ Len(w) = Len(v) /\ (Len(b) % 2) \in {0, 1}
  <2>1. Len(v) \in Nat /\ Len(w) \in Nat
    BY <1>1, LenProperties
  <2>2. QED
    BY <1>1, <1>2, <2>1
<1>4. ASSUME NEW k \in 1 .. Len(v)
      PROVE  Swapped(v[k], w[k])
  <2>1. (2 * k) - 1 \in 1 .. Len(b)
    BY <1>1, <1>2, <1>3
  <2>2. PICK x \in Nat : x = b[(2 * k) - 1]
    BY <1>2, <2>1
  <2>3. PICK y \in Nat : y = ByteAt(b, 2 * k)
    <3>1. 2 * k <= Len(b) => 2 * k \in 1 .. Len(b)
      BY <1>2, <1>3
    <3>2. QED
      BY <1>2, <3>1 DEF ByteAt
  <2>4. v[k] = x + (256 * y) /\ w[k] = (256 * x) + y
    BY <1>1, <1>3, <2>2, <2>3
  <2>5. 256 * v[k] = w[k] + 65535 * y
    BY <2>4
  <2>6. QED
    BY <2>5 DEF Swapped
<1>5. Swapped(SumOf(v), SumOf(w))
  BY <1>1, <1>3, <1>4, SwappedSums
<1>6. QED
  BY <1>5 DEF v, w

-----------------------------------------------------------------------------
(* The messages. *)
LEMMA ICMP4BytesFacts ==
  ASSUME NEW m, m.icmp_type \in Nat, m.code \in Nat, m.checksum \in Nat,
         m.identifier \in Nat, m.sequence_number \in Nat, m.body \in Seq(Nat)
  PROVE  /\ ICMP4Bytes(m) \in Seq(Nat)
         /\ Len(ICMP4Bytes(m)) = 8 + Len(m.body)
         /\ ICMP4Bytes(m)[1] = m.icmp_type /\ ICMP4Bytes(m)[2] = m.code
         /\ ICMP4Bytes(m)[3] = m.checksum \div 256 /\ ICMP4Bytes(m)[4] = m.checksum % 256
<1> DEFINE t == m.icmp_type
           c == m.code
           k == m.checksum
           i == m.identifier
           n == m.sequence_number
           body == m.body
<1>0. /\ t \in Nat /\ c \in Nat /\ k \in Nat /\ i \in Nat /\ n \in Nat /\ body \in Seq(Nat)
      /\ ICMP4Bytes(m) = <<t, c>> \o WriteBig(k) \o WriteBig(i) \o WriteBig(n) \o body
  BY DEF ICMP4Bytes
<1> HIDE DEF t, c, k, i, n, body
<1> DEFINE b1 == <<t, c>>
           b2 == WriteBig(k)
           b3 == WriteBig(i)
           b4 == WriteBig(n)
<1>1. /\ b1 \in Seq(Nat) /\ Len(b1) = 2 /\ b1[1] = t /\ b1[2] = c
      /\ b2 \in Seq(Nat) /\ Len(b2) = 2 /\ b2[1] = k \div 256 /\ b2[2] = k % 256
      /\ b3 \in Seq(Nat) /\ Len(b3) = 2
      /\ b4 \in Seq(Nat) /\ Len(b4) = 2
  BY <1>0 DEF WriteBig
<1>2. ICMP4Bytes(m) = (((b1 \o b2) \o b3) \o b4) \o body
  BY <1>0
<1> HIDE DEF b1, b2, b3, b4
<1>3. /\ b1 \o b2 \in Seq(Nat) /\ Len(b1 \o b2) = 4
      /\ (b1 \o b2)[1] = t /\ (b1 \o b2)[2] = c
      /\ (b1 \o b2)[3] = k \div 256 /\ (b1 \o b2)[4] = k % 256
  <2>1. /\ b1 \o b2 \in Seq(Nat) /\ Len(b1 \o b2) = Len(b1) + Len(b2)
        /\ \A j \in 1 .. Len(b1) : (b1 \o b2)[j] = b1[j]
        /\ \A j \in 1 .. Len(b2) : (b1 \o b2)[Len(b1) + j] = b2[j]
    <3>1. b1 \in Seq(Nat) /\ b2 \in Seq(Nat)
      BY <1>1
    <3>2. QED
      BY <3>1, Joined
  <2> DEFINE x == b1 \o b2
  <2>2. /\ x \in Seq(Nat) /\ Len(x) = 2 + 2
        /\ \A j \in 1 .. 2 : x[j] = b1[j]
        /\ \A j \in 1 .. 2 : x[2 + j] = b2[j]
    BY <1>1, <2>1
  <2> HIDE DEF x
  <2>3. x[1] = b1[1] /\ x[2] = b1[2]
    BY <2>2
  <2>4. x[2 + 1] = b2[1] /\ x[2 + 2] = b2[2]
    <3>1. 1 \in 1 .. 2 /\ 2 \in 1 .. 2
      OBVIOUS
    <3>2. QED
      BY <2>2, <3>1
  <2>5. x[3] = b2[1] /\ x[4] = b2[2]
    BY <2>4
  <2>6. QED
    BY <1>1, <2>2, <2>3, <2>5 DEF x
<1> DEFINE c2 == b1 \o b2
           c3 == c2 \o b3
           c4 == c3 \o b4
           c5 == c4 \o body
<1>4. c5 = ICMP4Bytes(m)
  BY <1>2
<1>5. c2 \in Seq(Nat) /\ Len(c2) = 4 /\ c2[1] = t /\ c2[2] = c /\ c2[3] = k \div 256 /\ c2[4] = k % 256
  BY <1>3
<1> HIDE DEF c2
<1>6. c3 \in Seq(Nat) /\ Len(c3) = 6 /\ \A j \in 1 .. 4 : c3[j] = c2[j]
  <2>1. /\ Len(c3) = Len(c2) + Len(b3) /\ c3 \in Seq(Nat)
        /\ \A j \in 1 .. Len(c2) : c3[j] = c2[j]
    <3>1. c2 \in Seq(Nat) /\ b3 \in Seq(Nat)
      BY <1>1, <1>5
    <3>2. QED
      BY <3>1, Joined, Zenon
  <2> HIDE DEF c3
  <2>2. QED
    BY <1>1, <1>5, <2>1
<1> HIDE DEF c3
<1>7. c4 \in Seq(Nat) /\ Len(c4) = 8 /\ \A j \in 1 .. 4 : c4[j] = c2[j]
  <2>1. /\ Len(c4) = Len(c3) + Len(b4) /\ c4 \in Seq(Nat)
        /\ \A j \in 1 .. Len(c3) : c4[j] = c3[j]
    <3>1. c3 \in Seq(Nat) /\ b4 \in Seq(Nat)
      BY <1>1, <1>6
    <3>2. QED
      BY <3>1, Joined
  <2> HIDE DEF c4
  <2>2. QED
    BY <1>1, <1>6, <2>1
<1> HIDE DEF c4
<1>8. c5 \in Seq(Nat) /\ Len(c5) = 8 + Len(body) /\ \A j \in 1 .. 4 : c5[j] = c2[j]
  <2>1. Len(body) \in Nat
    BY <1>0, LenProperties
  <2>2. /\ Len(c5) = Len(c4) + Len(body) /\ c5 \in Seq(Nat)
        /\ \A j \in 1 .. Len(c4) : c5[j] = c4[j]
    <3>1. c4 \in Seq(Nat) /\ body \in Seq(Nat)
      BY <1>0, <1>7
    <3>2. QED
      BY <3>1, Joined, Zenon
  <2> HIDE DEF c5
  <2>3. QED
    <3>1. Len(c5) = 8 + Len(body)
      BY <1>7, <2>2
    <3>2. \A j \in 1 .. 4 : c5[j] = c2[j]
      <4>1. \A j \in 1 .. 4 : j \in 1 .. 8
        OBVIOUS
      <4>2. \A j \in 1 .. 8 : c5[j] = c4[j]
        BY <1>7, <2>2
      <4>3. QED
        BY <1>7, <4>1, <4>2
    <3>3. QED
      BY <2>2, <3>1, <3>2
<1> HIDE DEF c5
<1>9. c5[1] = t /\ c5[2] = c /\ c5[3] = k \div 256 /\ c5[4] = k % 256
  BY <1>5, <1>8
<1>10. QED
  BY <1>4, <1>8, <1>9 DEF t, c, k, body

LEMMA SwappedMultiple ==
  ASSUME NEW s \in Nat, NEW k \in Nat, NEW q \in Nat, 256 * (65535 * k) = s + (65535 * q)
  PROVE  s % 65535 = 0
<1>1. 256 * k >= q /\ s = 65535 * ((256 * k) - q)
  OBVIOUS
<1>2. (256 * k) - q \in Nat
  BY <1>1
<1>3. QED
  BY <1>1, <1>2

(* The checksum of RFC 1071 is right for every message whose third and       *)
(* fourth byte are calc_checksum of the rest, in little-endian order.        *)
LEMMA ChecksumIsValid ==
  ASSUME NEW z \in Seq(Nat), Len(z) >= 4, z[1] > 0, z[3] = 0, z[4] = 0
  PROVE  LET checksum == WriteLittle(calc_checksum(z))
         IN  ValidICMP([z EXCEPT ![3] = checksum[1], ![4] = checksum[2]])
<1> DEFINE v == LittleWords(z)
           e == [z EXCEPT ![3] = WriteLittle(calc_checksum(z))[1],
                          ![4] = WriteLittle(calc_checksum(z))[2]]
           w == LittleWords(e)
           u == BigWords(e)
<1>1. /\ v \in Seq(Nat) /\ 2 * Len(v) = Len(z) + (Len(z) % 2)
      /\ \A k \in 1 .. Len(v) : v[k] = z[(2 * k) - 1] + (256 * ByteAt(z, 2 * k))
  BY LittleWordsFacts
<1>2. Len(z) \in Nat /\ \A i \in 1 .. Len(z) : z[i] \in Nat
  BY LenProperties, ElementOfSeq
<1>3. Len(v) \in Nat /\ Len(v) >= 2
  <2> HIDE DEF v
  <2>1. Len(v) \in Nat
    BY <1>1, LenProperties
  <2>2. QED
    BY <1>1, <1>2, <2>1
<1>4. SumOf(v) \in Nat
  <2> HIDE DEF v
  <2>1. QED
    BY <1>1, <1>3, SumFacts
<1>5. PICK c \in Nat : /\ c = calc_checksum(z) /\ c <= 65535
                       /\ \E k \in Nat : SumOf(v) + c = 65535 * k
  <2>1. calc_checksum(z) = 65535 - FoldCarries(SumOf(v))
    BY DEF calc_checksum
  <2> HIDE DEF v, e, w, u
  <2>2. PICK c : Completes(c, SumOf(v))
    BY <1>4, ChecksumCompletes
  <2>3. /\ c \in Nat /\ c = calc_checksum(z) /\ c <= 65535
        /\ \E k \in Nat : SumOf(v) + c = 65535 * k
    BY <2>1, <2>2 DEF Completes
  <2>4. QED
    BY <2>3
<1>6. PICK lo \in Nat, hi \in Nat :
        /\ WriteLittle(calc_checksum(z)) = <<lo, hi>> /\ c = lo + (256 * hi)
  <2>1. WriteLittle(c) = <<c % 256, c \div 256>>
    BY DEF WriteLittle
  <2>2. c % 256 \in Nat /\ c \div 256 \in Nat /\ c = (c % 256) + (256 * (c \div 256))
    OBVIOUS
  <2>3. QED
    BY <1>5, <2>1, <2>2
<1>7. e = [z EXCEPT ![3] = lo, ![4] = hi]
  BY <1>6
<1> HIDE DEF e
<1>8. /\ e \in Seq(Nat) /\ Len(e) = Len(z)
      /\ \A j \in 1 .. Len(z) : e[j] = IF j = 3 THEN lo ELSE IF j = 4 THEN hi ELSE z[j]
  <2> DEFINE d == [z EXCEPT ![3] = lo]
  <2>1. 3 \in 1 .. Len(z) /\ 4 \in 1 .. Len(z)
    BY <1>2
  <2>2. /\ d \in Seq(Nat) /\ Len(d) = Len(z)
        /\ \A j \in 1 .. Len(z) : d[j] = IF j = 3 THEN lo ELSE z[j]
    BY <2>1, ExceptSeq
  <2>3. e = [d EXCEPT ![4] = hi]
    BY <1>7, <2>1
  <2> HIDE DEF d
  <2>4. /\ e \in Seq(Nat) /\ Len(e) = Len(z)
        /\ \A j \in 1 .. Len(z) : e[j] = IF j = 4 THEN hi ELSE d[j]
    BY <2>1, <2>2, <2>3, ExceptSeq
  <2>5. QED
    BY <2>2, <2>4
<1>9. /\ w \in Seq(Nat) /\ Len(w) = Len(v)
      /\ \A k \in 1 .. Len(w) : w[k] = e[(2 * k) - 1] + (256 * ByteAt(e, 2 * k))
  <2>1. /\ w \in Seq(Nat) /\ 2 * Len(w) = Len(e) + (Len(e) % 2)
        /\ \A k \in 1 .. Len(w) : w[k] = e[(2 * k) - 1] + (256 * ByteAt(e, 2 * k))
    BY <1>8, LittleWordsFacts
  <2> HIDE DEF v, w
  <2>2. Len(w) \in Nat
    BY <2>1, LenProperties
  <2>3. QED
    BY <1>1, <1>2, <1>3, <1>8, <2>1, <2>2
<1> HIDE DEF v, w
<1>10. w[2] = v[2] + c
  <2>1. 2 \in 1 .. Len(v) /\ (2 * 2) - 1 = 3 /\ 2 * 2 = 4
    BY <1>3
  <2>2. ByteAt(z, 4) = 0 /\ ByteAt(e, 4) = hi /\ e[3] = lo
    BY <1>2, <1>8 DEF ByteAt
  <2>3. v[2] = 0 + (256 * 0)
    BY <1>1, <2>1, <2>2
  <2>4. w[2] = lo + (256 * hi)
    BY <1>9, <2>1, <2>2
  <2>5. QED
    BY <1>6, <2>3, <2>4
<1>11. ASSUME NEW k \in 1 .. Len(v), k # 2 PROVE w[k] = v[k]
  <2>1. /\ (2 * k) - 1 \in 1 .. Len(z) /\ (2 * k) - 1 # 3 /\ (2 * k) - 1 # 4
        /\ 2 * k # 3 /\ 2 * k # 4 /\ (2 * k <= Len(z) => 2 * k \in 1 .. Len(z))
    BY <1>1, <1>2, <1>3, <1>11
  <2>2. e[(2 * k) - 1] = z[(2 * k) - 1] /\ ByteAt(e, 2 * k) = ByteAt(z, 2 * k)
    BY <1>8, <2>1 DEF ByteAt
  <2>3. QED
    BY <1>1, <1>9, <2>2
<1>12. SumOf(w) = SumOf(v) + c
  <2>1. v \in Seq(Nat) /\ w \in Seq(Nat) /\ Len(v) = Len(w) /\ Len(v) >= 2
    BY <1>1, <1>3, <1>9
  <2>2. \A k \in 1 .. Len(v) : k # 2 => w[k] = v[k]
    BY <1>11
  <2>3. QED
    BY <1>10, <2>1, <2>2, SumWith
<1>13. PICK k \in Nat : SumOf(w) = 65535 * k
  BY <1>5, <1>12
<1>14. Swapped(SumOf(w), SumOf(u))
  BY <1>8, SwappedWords DEF w
<1>15. SumOf(u) \in Nat /\ SumOf(u) > 0
  <2>1. /\ u \in Seq(Nat) /\ 2 * Len(u) = Len(e) + (Len(e) % 2)
        /\ \A j \in 1 .. Len(u) : u[j] = (256 * e[(2 * j) - 1]) + ByteAt(e, 2 * j)
    BY <1>8, BigWordsFacts
  <2> HIDE DEF u
  <2>2. Len(u) \in Nat /\ Len(u) >= 1
    <3>1. Len(u) \in Nat
      BY <2>1, LenProperties
    <3>2. QED
      BY <1>2, <1>8, <2>1, <3>1
  <2>3. SumOf(u) \in Nat /\ u[1] <= SumOf(u)
    BY <2>1, <2>2, SumFacts
  <2>4. e[1] = z[1] /\ e[2] = z[2] /\ z[1] \in Nat /\ z[2] \in Nat /\ ByteAt(e, 2) = z[2]
    BY <1>2, <1>8 DEF ByteAt
  <2>5. u[1] = (256 * z[1]) + z[2]
    <3>1. 1 \in 1 .. Len(u) /\ (2 * 1) - 1 = 1 /\ 2 * 1 = 2
      BY <2>2
    <3>2. QED
      BY <2>1, <2>4, <3>1
  <2>6. QED
    BY <2>3, <2>4, <2>5
<1> HIDE DEF u
<1>16. SumOf(u) % 65535 = 0
  <2>1. PICK s \in Nat : s = SumOf(u)
    BY <1>15
  <2>2. 256 * SumOf(w) = 256 * (65535 * k)
    BY <1>13
  <2>3. PICK q \in Nat : 256 * (65535 * k) = s + (65535 * q)
    BY <1>14, <2>1, <2>2 DEF Swapped
  <2>4. s % 65535 = 0
    BY <2>3, SwappedMultiple
  <2>5. QED
    BY <2>1, <2>4
<1>17. ValidICMP(e)
  BY <1>15, <1>16 DEF ValidICMP, u
<1>18. QED
  BY <1>17 DEF e

Request(identifier, sequence_number, body) ==
  [icmp_type |-> 8, code |-> 0, checksum |-> 0, identifier |-> identifier,
   sequence_number |-> sequence_number, body |-> body]

(* Every echo_request has a checksum that other hosts find right, though it  *)
(* is computed on little-endian words, for every body of whatever length.    *)
THEOREM EchoRequestsAreValid ==
  ASSUME NEW identifier \in Word, NEW sequence_number \in Word,
         NEW body \in Seq(Byte)
  PROVE  ValidICMP(echo_request(identifier, sequence_number, body))
<1>1. body \in Seq(Nat) /\ Len(body) \in Nat
  <2>1. body \in [1 .. Len(body) -> Byte] /\ Len(body) \in Nat
    BY LenProperties
  <2>2. body \in [1 .. Len(body) -> Nat]
    BY <2>1, BytesAreNumbers
  <2>3. QED
    BY <2>1, <2>2
<1>2. identifier \in Nat /\ sequence_number \in Nat
  BY WordsAreNumbers
<1>3. PICK m : m = Request(identifier, sequence_number, body)
  OBVIOUS
<1>4. /\ m.icmp_type = 8 /\ m.code = 0 /\ m.checksum = 0 /\ m.identifier = identifier
      /\ m.sequence_number = sequence_number /\ m.body = body
  BY <1>3 DEF Request
<1>5. PICK z : z = ICMP4Bytes(m)
  OBVIOUS
<1>6. /\ z \in Seq(Nat) /\ Len(z) = 8 + Len(body)
      /\ z[1] = m.icmp_type /\ z[3] = m.checksum \div 256 /\ z[4] = m.checksum % 256
  <2>1. /\ m.icmp_type \in Nat /\ m.code \in Nat /\ m.checksum \in Nat
        /\ m.identifier \in Nat /\ m.sequence_number \in Nat /\ m.body \in Seq(Nat)
    BY <1>1, <1>2, <1>4
  <2>2. QED
    BY <1>4, <1>5, <2>1, ICMP4BytesFacts
<1>7. Len(z) >= 4 /\ z[1] > 0 /\ z[3] = 0 /\ z[4] = 0
  BY <1>1, <1>4, <1>6
<1>8. LET checksum == WriteLittle(calc_checksum(z))
      IN  ValidICMP([z EXCEPT ![3] = checksum[1], ![4] = checksum[2]])
  BY <1>6, <1>7, ChecksumIsValid
<1>9. echo_request(identifier, sequence_number, body)
        = LET checksum == WriteLittle(calc_checksum(z))
          IN  [z EXCEPT ![3] = checksum[1], ![4] = checksum[2]]
  BY <1>3, <1>5 DEF echo_request, Request
<1>10. QED
  BY <1>8, <1>9

-----------------------------------------------------------------------------
FitsWord(n) == n <= 65535
FitsWords(sum, n) == sum <= 65535 * n
FitsU32(sum) == sum < 4294967296

LEMMA FitsMore ==
  ASSUME NEW a \in Nat, NEW n \in Nat, NEW b \in Nat, FitsWords(a, n), FitsWord(b)
  PROVE  FitsWords(a + b, n + 1)
BY DEF FitsWords, FitsWord

LEMMA FitsAll ==
  ASSUME NEW a \in Nat, NEW n \in Nat, FitsWords(a, n), n <= 32768
  PROVE  FitsU32(a)
BY DEF FitsWords, FitsU32

LEMMA SumsAreBounded ==
  ASSUME NEW w \in Seq(Nat), \A k \in 1 .. Len(w) : FitsWord(w[k])
  PROVE  \A n \in 0 .. Len(w) : FitsWords(SumsOf(w)[n], n)
<1> DEFINE S == SumsOf(w)
           T == {n \in 0 .. Len(w) : FitsWords(S[n], n)}
<1>0. Len(w) \in Nat /\ \A n \in 1 .. Len(w) : w[n] \in Nat
  BY LenProperties, ElementOfSeq
<1>1. /\ S[0] = 0
      /\ \A n \in 0 .. Len(w) : S[n] \in Nat
      /\ \A n \in 0 .. Len(w) : n < Len(w) => S[n + 1] = S[n] + w[n + 1]
  BY SumsFacts
<1> HIDE DEF S
<1>2. 0 \in T
  <2>1. FitsWords(0, 0)
    BY DEF FitsWords
  <2>2. QED
    BY <1>0, <1>1, <2>1
<1>3. ASSUME NEW n \in 0 .. Len(w), n \in T, n < Len(w) PROVE n + 1 \in T
  <2>1. /\ n + 1 \in 1 .. Len(w) /\ n + 1 \in 0 .. Len(w) /\ S[n + 1] = S[n] + w[n + 1]
        /\ S[n] \in Nat /\ w[n + 1] \in Nat /\ FitsWord(w[n + 1])
    BY <1>0, <1>1, <1>3
  <2>2. FitsWords(S[n], n) /\ n \in Nat
    BY <1>0, <1>3
  <2>3. FitsWords(S[n + 1], n + 1)
    BY <2>1, <2>2, FitsMore
  <2>4. QED
    BY <2>1, <2>3
<1>4. 0 .. Len(w) \subseteq T
  <2> HIDE DEF T
  <2>1. QED
    BY <1>0, <1>2, <1>3, Induction
<1>5. QED
  BY <1>4 DEF S

LEMMA BytesFacts ==
  ASSUME NEW b \in Seq(Byte)
  PROVE  b \in Seq(Nat) /\ Len(b) \in Nat /\ \A i \in 1 .. Len(b) : b[i] \in Nat /\ b[i] \in Byte
<1>1. b \in [1 .. Len(b) -> Byte] /\ Len(b) \in Nat
  BY LenProperties
<1>2. b \in [1 .. Len(b) -> Nat]
  BY <1>1, BytesAreNumbers
<1>3. QED
  BY <1>1, <1>2

LEMMA TwoBytes ==
  ASSUME NEW x \in Byte, NEW y \in Byte
  PROVE  FitsWord(x + (256 * y))
BY DEF Byte, FitsWord

LEMMA HalfOfBytes ==
  ASSUME NEW n \in Nat, NEW h \in Nat, 2 * h = n + (n % 2), n <= 65535
  PROVE  h <= 32768
OBVIOUS

(* The u32 in which calc_checksum adds up the words does not overflow,       *)
(* whatever the bytes of a packet are.                                       *)
THEOREM ChecksumFitsU32 ==
  ASSUME NEW buffer \in Seq(Byte), Len(buffer) <= 65535
  PROVE  \A n \in 0 .. Len(LittleWords(buffer)) : FitsU32(SumsOf(LittleWords(buffer))[n])
<1> DEFINE w == LittleWords(buffer)
<1>1. /\ buffer \in Seq(Nat) /\ Len(buffer) \in Nat
      /\ \A i \in 1 .. Len(buffer) : buffer[i] \in Byte
  BY BytesFacts
<1>2. /\ w \in Seq(Nat) /\ 2 * Len(w) = Len(buffer) + (Len(buffer) % 2)
      /\ \A k \in 1 .. Len(w) : w[k] = buffer[(2 * k) - 1] + (256 * ByteAt(buffer, 2 * k))
  BY <1>1, LittleWordsFacts
<1> HIDE DEF w
<1>3. Len(w) \in Nat
  BY <1>2, LenProperties
<1>4. Len(w) <= 32768
  <2>1. PICK n \in Nat : n = Len(buffer) /\ n <= 65535
    BY <1>1
  <2>2. PICK h \in Nat : h = Len(w)
    BY <1>3
  <2>3. 2 * h = n + (n % 2)
    BY <1>2, <2>1, <2>2
  <2>4. h <= 32768
    BY <2>1, <2>3, HalfOfBytes
  <2>5. QED
    BY <2>2, <2>4
<1>5. ASSUME NEW k \in 1 .. Len(w) PROVE FitsWord(w[k])
  <2>1. (2 * k) - 1 \in 1 .. Len(buffer) /\ (2 * k <= Len(buffer) => 2 * k \in 1 .. Len(buffer))
    BY <1>1, <1>2, <1>3
  <2>2. 0 \in Byte
    BY DEF Byte
  <2>3. buffer[(2 * k) - 1] \in Byte /\ ByteAt(buffer, 2 * k) \in Byte
    BY <1>1, <2>1, <2>2 DEF ByteAt
  <2>4. QED
    BY <1>2, <2>3, TwoBytes
<1>6. ASSUME NEW n \in 0 .. Len(w) PROVE FitsU32(SumsOf(w)[n])
  <2>1. SumsOf(w)[n] \in Nat
    BY <1>2, SumsFacts
  <2>2. FitsWords(SumsOf(w)[n], n)
    BY <1>2, <1>5, SumsAreBounded
  <2>3. n \in Nat /\ n <= 32768
    BY <1>3, <1>4
  <2>4. QED
    BY <2>1, <2>2, <2>3, FitsAll
<1>7. QED
  BY <1>6 DEF w

-----------------------------------------------------------------------------
(* The header of a packet. *)
Start(options, ttl) ==
  <<64 + 5 + options \div 4, 0, 0, 0, 0, 0, 0, 0, ttl, 1, 0, 0>>

LEMMA StartFacts ==
  ASSUME NEW options \in Nat, NEW ttl \in Nat
  PROVE  /\ Start(options, ttl) \in Bytes /\ Len(Start(options, ttl)) = 12
         /\ Start(options, ttl)[1] = 69 + (options \div 4)
         /\ Start(options, ttl)[10] = 1
BY DEF Start, Bytes

(* The length in the first byte is that of the header with its options. *)
LEMMA HeaderOptions ==
  ASSUME NEW options \in 0 .. 40, options % 4 = 0
  PROVE  ((69 + (options \div 4)) % 16) * 4 = 20 + options
OBVIOUS

Zeros(n) == [i \in 1 .. n |-> 0]

LEMMA ZerosFacts ==
  ASSUME NEW n \in Nat PROVE Zeros(n) \in Bytes /\ Len(Zeros(n)) = n
<1>1. Zeros(n) \in [1 .. n -> Nat]
  BY DEF Zeros
<1>2. QED
  BY <1>1 DEF Bytes

HeaderOf(options, ttl, source, destination) ==
  Join(Join(Join(Start(options, ttl), source), destination), Zeros(options))

LEMMA HeaderIsJoined ==
  ASSUME NEW options, NEW ttl, NEW source, NEW destination
  PROVE  Header(options, 1, ttl, source, destination) = HeaderOf(options, ttl, source, destination)
BY DEF Header, HeaderOf, Join, Start, Zeros

(* Where a header's parts are in the packet. *)
LEMMA HeaderFacts ==
  ASSUME NEW options \in Nat, NEW ttl \in Nat, NEW message \in Bytes,
         NEW source \in Bytes, Len(source) = 4,
         NEW destination \in Bytes, Len(destination) = 4
  PROVE  LET header == HeaderOf(options, ttl, source, destination)
             data == Join(header, message)
         IN  /\ header \in Bytes /\ Len(header) = 20 + options
             /\ header[1] = 69 + (options \div 4)
             /\ data[1] = 69 + (options \div 4) /\ data[10] = 1
             /\ Cut(data, 13, 16) = source
             /\ Cut(data, 17, 20) = destination
<1>1. PICK s \in Bytes : /\ s = Start(options, ttl) /\ Len(s) = 12
                         /\ s[1] = 69 + (options \div 4) /\ s[10] = 1
  BY StartFacts
<1>2. PICK z \in Bytes : z = Zeros(options) /\ Len(z) = options
  BY ZerosFacts
<1>3. PICK a \in Bytes : a = Join(s, source) /\ Len(a) = 16
  <2>1. Join(s, source) \in Bytes /\ Len(Join(s, source)) = Len(s) + Len(source)
    BY JoinFacts
  <2>2. QED
    BY <1>1, <2>1
<1>4. PICK b \in Bytes : b = Join(a, destination) /\ Len(b) = 20
  <2>1. Join(a, destination) \in Bytes /\ Len(Join(a, destination)) = Len(a) + Len(destination)
    BY JoinFacts
  <2>2. QED
    BY <1>3, <2>1
<1>5. PICK header \in Bytes : header = Join(b, z) /\ Len(header) = 20 + options
  <2>1. Join(b, z) \in Bytes /\ Len(Join(b, z)) = Len(b) + Len(z)
    BY JoinFacts
  <2>2. QED
    BY <1>2, <1>4, <2>1
<1>6. header = HeaderOf(options, ttl, source, destination)
  BY <1>1, <1>2, <1>3, <1>4, <1>5 DEF HeaderOf
<1>7. PICK data \in Bytes : data = Join(header, message)
  BY JoinFacts
<1>8. PICK rest \in Bytes : rest = Join(z, message)
  BY JoinFacts
<1>9. data = Join(b, rest)
  BY <1>5, <1>7, <1>8, JoinAssociative
<1>10. ASSUME NEW x \in Bytes PROVE Join(b, x)[1] = s[1] /\ Join(b, x)[10] = s[10]
  <2>1. PICK y \in Bytes : y = Join(destination, x)
    BY JoinFacts
  <2>2. PICK w \in Bytes : w = Join(source, y)
    BY JoinFacts
  <2>3. Join(b, x) = Join(s, w)
    BY <1>3, <1>4, <2>1, <2>2, JoinAssociative
  <2>4. \A j \in 1 .. Len(s) : Join(s, w)[j] = s[j]
    BY JoinFacts
  <2>5. QED
    BY <1>1, <2>3, <2>4
<1>11. PICK x \in Bytes : x = Join(destination, rest)
  BY JoinFacts
<1>12. data = Join(a, x)
  BY <1>4, <1>9, <1>11, JoinAssociative
<1>13. data = Join(s, Join(source, x))
  BY <1>3, <1>12, JoinAssociative
<1>14. Cut(data, 13, 16) = source
  <2>1. Cut(Join(s, Join(source, x)), Len(s) + 1, Len(s) + Len(source)) = source
    BY CutMiddle
  <2>2. Len(s) + 1 = 13 /\ Len(s) + Len(source) = 16
    BY <1>1
  <2>3. QED
    BY <1>13, <2>1, <2>2
<1>15. Cut(data, 17, 20) = destination
  <2>1. Cut(Join(a, Join(destination, rest)), Len(a) + 1, Len(a) + Len(destination)) = destination
    BY CutMiddle
  <2>2. Len(a) + 1 = 17 /\ Len(a) + Len(destination) = 20
    BY <1>3
  <2>3. QED
    BY <1>11, <1>12, <2>1, <2>2
<1>16. data[1] = s[1] /\ data[10] = s[10] /\ header[1] = s[1]
  BY <1>5, <1>9, <1>10
<1>17. QED
  BY <1>1, <1>5, <1>6, <1>7, <1>14, <1>15, <1>16

-----------------------------------------------------------------------------
(* ICMP messages. *)
FirstEight(m) ==
  Join(Join(Join(<<m.icmp_type, m.code>>, WriteBig(m.checksum)), WriteBig(m.identifier)),
       WriteBig(m.sequence_number))

IsMessage(m) ==
  /\ m.icmp_type \in Nat /\ m.code \in Nat /\ m.checksum \in Nat
  /\ m.identifier \in Nat /\ m.sequence_number \in Nat /\ m.body \in Bytes

LEMMA PairFacts ==
  ASSUME NEW x \in Nat, NEW y \in Nat
  PROVE  <<x, y>> \in Bytes /\ Len(<<x, y>>) = 2
BY DEF Bytes

LEMMA WriteBigFacts ==
  ASSUME NEW x \in Nat
  PROVE  WriteBig(x) \in Bytes /\ Len(WriteBig(x)) = 2
<1>1. x \div 256 \in Nat /\ x % 256 \in Nat
  OBVIOUS
<1>2. QED
  BY <1>1, PairFacts DEF WriteBig

LEMMA MessageIsJoined ==
  ASSUME NEW m PROVE ICMP4Bytes(m) = Join(FirstEight(m), m.body)
BY DEF ICMP4Bytes, FirstEight, Join

(* The header of an ICMP message has eight bytes. *)
LEMMA FirstEightFacts ==
  ASSUME NEW m, IsMessage(m)
  PROVE  FirstEight(m) \in Bytes /\ Len(FirstEight(m)) = 8
<1>1. PICK a \in Bytes : a = <<m.icmp_type, m.code>> /\ Len(a) = 2
  BY PairFacts DEF IsMessage
<1>2. PICK b \in Bytes : b = WriteBig(m.checksum) /\ Len(b) = 2
  BY WriteBigFacts DEF IsMessage
<1>3. PICK c \in Bytes : c = WriteBig(m.identifier) /\ Len(c) = 2
  BY WriteBigFacts DEF IsMessage
<1>4. PICK d \in Bytes : d = WriteBig(m.sequence_number) /\ Len(d) = 2
  BY WriteBigFacts DEF IsMessage
<1>5. PICK e \in Bytes : e = Join(a, b) /\ Len(e) = 4
  <2>1. Join(a, b) \in Bytes /\ Len(Join(a, b)) = Len(a) + Len(b)
    BY JoinFacts
  <2>2. QED
    BY <1>1, <1>2, <2>1
<1>6. PICK f \in Bytes : f = Join(e, c) /\ Len(f) = 6
  <2>1. Join(e, c) \in Bytes /\ Len(Join(e, c)) = Len(e) + Len(c)
    BY JoinFacts
  <2>2. QED
    BY <1>3, <1>5, <2>1
<1>7. PICK g \in Bytes : g = Join(f, d) /\ Len(g) = 8
  <2>1. Join(f, d) \in Bytes /\ Len(Join(f, d)) = Len(f) + Len(d)
    BY JoinFacts
  <2>2. QED
    BY <1>4, <1>6, <2>1
<1>8. QED
  BY <1>1, <1>2, <1>3, <1>4, <1>5, <1>6, <1>7 DEF FirstEight

(* The body follows it. *)
LEMMA MessageFacts ==
  ASSUME NEW m, IsMessage(m)
  PROVE  /\ ICMP4Bytes(m) \in Bytes /\ Len(ICMP4Bytes(m)) = 8 + Len(m.body)
         /\ \A i \in 1 .. Len(m.body) : ICMP4Bytes(m)[8 + i] = m.body[i]
         /\ Cut(ICMP4Bytes(m), 9, 8 + Len(m.body)) = m.body
<1>1. PICK f \in Bytes : f = FirstEight(m) /\ Len(f) = 8
  BY FirstEightFacts
<1>2. PICK b \in Bytes : b = m.body
  BY DEF IsMessage
<1>3. PICK z \in Bytes : z = Join(f, b) /\ z = ICMP4Bytes(m)
  BY <1>1, <1>2, JoinFacts, MessageIsJoined
<1>4. Len(z) = 8 + Len(b) /\ \A i \in 1 .. Len(b) : z[8 + i] = b[i]
  <2>1. /\ Len(Join(f, b)) = Len(f) + Len(b)
        /\ \A i \in 1 .. Len(b) : Join(f, b)[Len(f) + i] = b[i]
    BY JoinFacts
  <2>2. QED
    BY <1>1, <1>3, <2>1
<1>5. Cut(z, 9, 8 + Len(b)) = b
  <2>1. Cut(Join(f, b), Len(f) + 1, Len(f) + Len(b)) = b
    BY CutSecond
  <2>2. Len(f) + 1 = 9
    BY <1>1
  <2>3. QED
    BY <1>1, <1>3, <2>1, <2>2
<1>6. QED
  BY <1>2, <1>3, <1>4, <1>5

LEMMA RFC1071IsNumber ==
  ASSUME NEW b \in Bytes, Len(b) >= 8
  PROVE  RFC1071(b) \in Nat
<1>1. PICK w \in Seq(Nat) : w = BigWords(b) /\ 2 * Len(w) = Len(b) + (Len(b) % 2)
  BY BigWordsFacts DEF Bytes
<1>2. Len(w) >= 1
  <2>1. Len(w) \in Nat /\ Len(b) \in Nat
    BY LenProperties, BytesLength
  <2>2. QED
    BY <1>1, <2>1
<1>3. PICK n \in Nat : n = SumOf(w)
  BY <1>2, SumFacts
<1>4. n % 65535 \in Nat /\ n % 65535 < 65535
  OBVIOUS
<1>5. QED
  BY <1>1, <1>3, <1>4 DEF RFC1071

(* What another host sends. *)
LEMMA AnswerFacts ==
  ASSUME NEW type \in Nat, NEW identifier \in Nat, NEW sequence_number \in Nat,
         NEW body \in Bytes
  PROVE  LET message == ICMPMessage(type, identifier, sequence_number, body)
         IN  /\ message \in Bytes /\ Len(message) = 8 + Len(body)
             /\ Cut(message, 9, Len(message)) = body
<1>1. PICK m : m = [icmp_type |-> type, code |-> 0, checksum |-> 0,
                    identifier |-> identifier, sequence_number |-> sequence_number,
                    body |-> body]
  OBVIOUS
<1>2. IsMessage(m) /\ m.body = body
  BY <1>1 DEF IsMessage
<1>3. ICMP4Bytes(m) \in Bytes /\ Len(ICMP4Bytes(m)) >= 8
  <2>1. ICMP4Bytes(m) \in Bytes /\ Len(ICMP4Bytes(m)) = 8 + Len(m.body)
    BY <1>2, MessageFacts
  <2>2. QED
    BY <1>2, <2>1, BytesLength
<1>4. PICK c \in Nat : c = RFC1071(ICMP4Bytes(m))
  BY <1>3, RFC1071IsNumber
<1>5. PICK n : n = [m EXCEPT !.checksum = c]
  OBVIOUS
<1>6. IsMessage(n) /\ n.body = body
  BY <1>1, <1>5 DEF IsMessage
<1>7. ICMPMessage(type, identifier, sequence_number, body) = ICMP4Bytes(n)
  BY <1>1, <1>4, <1>5 DEF ICMPMessage
<1>8. PICK z : z = ICMP4Bytes(n)
  OBVIOUS
<1>9. z \in Bytes /\ Len(z) = 8 + Len(body) /\ Cut(z, 9, 8 + Len(body)) = body
  BY <1>6, <1>8, MessageFacts
<1>10. QED
  BY <1>7, <1>8, <1>9

LEMMA ChecksumIsNumber ==
  ASSUME NEW z \in Bytes, Len(z) >= 8
  PROVE  calc_checksum(z) \in Nat
<1>1. PICK w \in Seq(Nat) : w = LittleWords(z) /\ 2 * Len(w) = Len(z) + (Len(z) % 2)
  BY LittleWordsFacts DEF Bytes
<1>2. Len(w) >= 1
  <2>1. Len(w) \in Nat /\ Len(z) \in Nat
    BY LenProperties, BytesLength
  <2>2. QED
    BY <1>1, <2>1
<1>3. PICK n \in Nat : n = SumOf(w)
  BY <1>2, SumFacts
<1>4. PICK c : Completes(c, n)
  BY ChecksumCompletes
<1>5. QED
  BY <1>1, <1>3, <1>4 DEF calc_checksum, Completes

WithChecksum(z, x, y) == [z EXCEPT ![3] = x, ![4] = y]

(* Putting in the checksum leaves the body alone. *)
LEMMA TwoChanged ==
  ASSUME NEW z \in Bytes, NEW x \in Nat, NEW y \in Nat, Len(z) >= 8
  PROVE  /\ WithChecksum(z, x, y) \in Bytes /\ Len(WithChecksum(z, x, y)) = Len(z)
         /\ \A i \in 9 .. Len(z) : WithChecksum(z, x, y)[i] = z[i]
<1>1. 3 \in 1 .. Len(z) /\ 4 \in 1 .. Len(z) /\ Len(z) \in Nat
  BY BytesLength
<1>2. /\ Changed(z, 3, x) \in Bytes /\ Len(Changed(z, 3, x)) = Len(z)
      /\ \A i \in 1 .. Len(z) : Changed(z, 3, x)[i] = IF i = 3 THEN x ELSE z[i]
  BY <1>1, OneChanged
<1>3. PICK d \in Bytes : d = Changed(z, 3, x)
  BY <1>2
<1>4. Len(d) = Len(z) /\ \A i \in 1 .. Len(z) : d[i] = IF i = 3 THEN x ELSE z[i]
  BY <1>2, <1>3
<1>5. WithChecksum(z, x, y) = Changed(d, 4, y)
  BY <1>3 DEF WithChecksum, Changed
<1>6. /\ Changed(d, 4, y) \in Bytes /\ Len(Changed(d, 4, y)) = Len(d)
      /\ \A i \in 1 .. Len(d) : Changed(d, 4, y)[i] = IF i = 4 THEN y ELSE d[i]
  BY <1>1, <1>4, OneChanged
<1>7. PICK e \in Bytes : e = Changed(d, 4, y)
  BY <1>6
<1>8. Len(e) = Len(z) /\ \A i \in 1 .. Len(z) : e[i] = IF i = 4 THEN y ELSE d[i]
  BY <1>4, <1>6, <1>7
<1>9. \A i \in 9 .. Len(z) : e[i] = z[i]
  BY <1>1, <1>4, <1>8
<1>10. QED
  BY <1>5, <1>7, <1>8, <1>9

(* A probe as it is sent. *)
LEMMA RequestFacts ==
  ASSUME NEW identifier \in Nat, NEW sequence_number \in Nat, NEW body \in Bytes
  PROVE  LET request == echo_request(identifier, sequence_number, body)
         IN  /\ request \in Bytes /\ Len(request) = 8 + Len(body)
             /\ Cut(request, 9, Len(request)) = body
<1>1. PICK m : m = Request(identifier, sequence_number, body)
  OBVIOUS
<1>2. IsMessage(m) /\ m.body = body
  BY <1>1 DEF IsMessage, Request
<1>3. PICK z \in Bytes : /\ z = ICMP4Bytes(m) /\ Len(z) = 8 + Len(body)
                         /\ \A i \in 1 .. Len(body) : z[8 + i] = body[i]
  BY <1>2, MessageFacts
<1>4. PICK n \in Nat : n = Len(body)
  BY BytesLength
<1>5. PICK c \in Nat : c = calc_checksum(z)
  BY <1>3, <1>4, ChecksumIsNumber
<1>6. PICK x \in Nat, y \in Nat : x = c % 256 /\ y = c \div 256
  OBVIOUS
<1>7. WriteLittle(c)[1] = x /\ WriteLittle(c)[2] = y
  BY <1>6 DEF WriteLittle
<1>8. PICK e : e = WithChecksum(z, x, y)
  OBVIOUS
<1>9. e = echo_request(identifier, sequence_number, body)
  BY <1>1, <1>3, <1>5, <1>7, <1>8 DEF echo_request, Request, WithChecksum
<1>10. e \in Bytes /\ Len(e) = 8 + n /\ \A i \in 9 .. 8 + n : e[i] = z[i]
  <2>1. Len(z) = 8 + n /\ Len(z) >= 8
    BY <1>3, <1>4
  <2>2. QED
    BY <1>8, <2>1, TwoChanged
<1>11. PICK d \in Bytes : /\ d = Cut(e, 9, 8 + n) /\ Len(d) = n
                          /\ \A i \in 1 .. n : d[i] = e[8 + i]
  <2>1. /\ Cut(e, 8 + 1, 8 + n) \in Bytes /\ Len(Cut(e, 8 + 1, 8 + n)) = n
        /\ \A i \in 1 .. n : Cut(e, 8 + 1, 8 + n)[i] = e[8 + i]
    <3>1. PICK k \in Nat : k = 8
      OBVIOUS
    <3>2. k + n <= Len(e)
      BY <1>10, <3>1
    <3>3. /\ Cut(e, k + 1, k + n) \in Bytes /\ Len(Cut(e, k + 1, k + n)) = n
          /\ \A i \in 1 .. n : Cut(e, k + 1, k + n)[i] = e[k + i]
      BY <1>10, <3>2, CutAfter
    <3>4. QED
      BY <3>1, <3>3
  <2>2. 8 + 1 = 9
    OBVIOUS
  <2>3. QED
    BY <2>1, <2>2
<1>12. \A i \in 1 .. n : d[i] = body[i]
  <2>1. \A i \in 1 .. n : 8 + i \in 9 .. 8 + n
    OBVIOUS
  <2>2. QED
    BY <1>3, <1>4, <1>10, <1>11, <2>1
<1>13. d = body
  BY <1>4, <1>11, <1>12, SameBytes
<1>14. QED
  BY <1>4, <1>9, <1>10, <1>11, <1>13

-----------------------------------------------------------------------------
(* A packet is parsed as it was put together. *)
LEMMA FromIsCut ==
  ASSUME NEW a, NEW k PROVE From(a, k) = Cut(a, k, Len(a))
BY DEF From, Cut

Parses(d, p, source, destination, message) ==
  /\ d \in Bytes /\ ~ IPv4Panics(d) /\ p.ttl \in Nat
  /\ p.source_address = source /\ p.destination_address = destination
  /\ p.payload # <<>> /\ p.payload[1].body = Cut(message, 9, Len(message))

LEMMA PacketParses ==
  ASSUME NEW options \in 0 .. 40, options % 4 = 0, NEW ttl \in Nat,
         NEW source \in Bytes, Len(source) = 4,
         NEW destination \in Bytes, Len(destination) = 4,
         NEW message \in Bytes, Len(message) >= 8,
         NEW d, d = Join(HeaderOf(options, ttl, source, destination), message),
         NEW p, p = IPv4Packet(d)
  PROVE  Parses(d, p, source, destination, message)
<1>1. PICK h : h = HeaderOf(options, ttl, source, destination)
  OBVIOUS
<1>2. d = Join(h, message)
  BY <1>1
<1>3. /\ h \in Bytes /\ Len(h) = 20 + options
      /\ d[1] = 69 + (options \div 4) /\ d[10] = 1
      /\ Cut(d, 13, 16) = source /\ Cut(d, 17, 20) = destination
  <2>1. options \in Nat
    OBVIOUS
  <2>2. QED
    BY <1>1, <1>2, <2>1, HeaderFacts
<1>4. PICK n \in Nat : n = Len(message) /\ n >= 8
  BY BytesLength
<1>5. d \in Bytes /\ Len(d) = 20 + options + n
  <2>1. Join(h, message) \in Bytes /\ Len(Join(h, message)) = Len(h) + Len(message)
    BY <1>3, JoinFacts
  <2>2. QED
    BY <1>2, <1>3, <1>4, <2>1
<1>6. HeaderLength(d) = 20 + options
  <2>1. ((69 + (options \div 4)) % 16) * 4 = 20 + options
    BY HeaderOptions
  <2>2. QED
    BY <1>3, <2>1 DEF HeaderLength
<1>7. From(d, HeaderLength(d) + 1) = message
  <2>1. Cut(d, Len(h) + 1, Len(h) + Len(message)) = message
    BY <1>2, <1>3, CutSecond
  <2>2. Len(d) = Len(h) + Len(message) /\ HeaderLength(d) = Len(h)
    BY <1>3, <1>4, <1>5, <1>6
  <2>3. QED
    BY <2>1, <2>2, FromIsCut
<1>8. ~ IPv4Panics(d)
  <2>1. ~ (Len(d) < 20) /\ ~ (HeaderLength(d) > Len(d)) /\ ~ (Len(message) < 8)
    BY <1>4, <1>5, <1>6
  <2>2. QED
    BY <1>7, <2>1 DEF IPv4Panics, ICMP4Panics
<1>10. /\ p.source_address = source /\ p.destination_address = destination
       /\ p.ttl = d[9]
  BY <1>3 DEF IPv4Packet, Cut
<1>11. d[9] \in Nat
  <2>1. 9 \in 1 .. Len(d)
    BY <1>5
  <2>2. QED
    BY <1>5, <2>1, BytesElement
<1>12. p.payload = <<ICMP4Packet(message)>>
  BY <1>3, <1>7 DEF IPv4Packet
<1>13. ICMP4Packet(message).body = Cut(message, 9, Len(message))
  BY FromIsCut DEF ICMP4Packet
<1>14. p.payload # <<>> /\ p.payload[1].body = Cut(message, 9, Len(message))
  BY <1>12, <1>13
<1>15. QED
  BY <1>5, <1>8, <1>10, <1>11, <1>14 DEF Parses

-----------------------------------------------------------------------------
(* Signatures. *)
LEMMA ByteSequences ==
  ASSUME NEW a \in Seq(0 .. 255) PROVE a \in Bytes
<1>1. a \in Seq(Byte)
  BY DEF Byte
<1>2. QED
  BY <1>1, BytesFacts DEF Bytes

(* All codes have the length at which a body is cut. *)
LEMMA CodeFacts ==
  /\ SignatureLength \in Nat \ {0}
  /\ \A c \in Codes : c \in Bytes /\ Len(c) = SignatureLength
<1>1. PICK d \in Codes : d = CHOOSE code \in Codes : TRUE
  BY CodesAssumption
<1>2. SignatureLength = Len(d)
  BY <1>1 DEF SignatureLength
<1>3. \A c \in Codes : c \in Seq(0 .. 255) /\ c # <<>> /\ Len(c) = Len(d)
  BY CodesAssumption
<1>4. \A c \in Codes : c \in Bytes
  BY <1>3, ByteSequences
<1>5. Len(d) \in Nat
  BY <1>4, BytesLength
<1>6. Len(d) # 0
  BY <1>3, EmptySeq
<1>7. QED
  BY <1>2, <1>3, <1>4, <1>5, <1>6

(* What a payload's bytes are. *)
LEMMA PayloadFacts ==
  ASSUME NEW payload \in Payloads
  PROVE  /\ PayloadBytes(payload) \in Bytes
         /\ Len(PayloadBytes(payload)) \in Nat /\ Len(PayloadBytes(payload)) > 1
         /\ PayloadBytes(payload)[1] # 69
         /\ ReadPayload(PayloadBytes(payload)).ok
         /\ ReadPayload(PayloadBytes(payload)).value = payload
         /\ \A other \in Payloads, n \in 0 .. Len(PayloadBytes(payload)) - 1 :
              Cut(PayloadBytes(payload), 1, n) # PayloadBytes(other)
<1>1. PICK b : b = PayloadBytes(payload)
  OBVIOUS
<1>2. /\ b \in Seq(0 .. 255) /\ Len(b) > 1 /\ b[1] # 69
      /\ ReadPayload(b).ok /\ ReadPayload(b).value = payload
      /\ \A other \in Payloads, n \in 0 .. Len(b) - 1 : SubSeq(b, 1, n) # PayloadBytes(other)
  BY <1>1, SerialisationAssumption
<1>3. b \in Bytes
  BY <1>2, ByteSequences
<1>4. Len(b) \in Nat
  BY <1>3, BytesLength
<1>5. \A other \in Payloads, n \in 0 .. Len(b) - 1 : Cut(b, 1, n) # PayloadBytes(other)
  BY <1>2 DEF Cut
<1>6. QED
  BY <1>1, <1>2, <1>3, <1>4, <1>5

(* What is shorter than a code is refused. *)
LEMMA TooShort ==
  ASSUME NEW secret, NEW x, Len(x) < SignatureLength
  PROVE  ~ from_signed_bytes(secret, x).ok
BY DEF from_signed_bytes, Error

(* Of a body that is long enough, the end is taken as the code of the rest. *)
LEMMA Verdict ==
  ASSUME NEW secret, NEW a \in Bytes, NEW b \in Bytes, Len(b) = SignatureLength,
         NEW x, x = Join(a, b)
  PROVE  from_signed_bytes(secret, x)
           = IF MacOf(secret, a, b) \in macs THEN ReadPayload(a) ELSE Error
<1>1. PICK m \in Nat : m = Len(a)
  BY BytesLength
<1>2. PICK n \in Nat : n = Len(b) /\ n = SignatureLength
  BY BytesLength
<1>3. x \in Bytes /\ Len(x) = m + n
  BY <1>1, <1>2, JoinFacts
<1>4. ~ (Len(x) < SignatureLength) /\ Len(x) - SignatureLength = m
  BY <1>2, <1>3
<1>5. Cut(x, 1, m) = a
  <2>1. Cut(x, 1, m) = Cut(a, 1, m)
    BY <1>1, CutFirst
  <2>2. QED
    BY <1>1, <2>1, CutAll
<1>6. From(x, m + 1) = b
  <2>1. Cut(x, m + 1, m + n) = b
    BY <1>1, <1>2, CutSecond
  <2>2. QED
    BY <1>3, <2>1, FromIsCut
<1>7. QED
  BY <1>4, <1>5, <1>6 DEF from_signed_bytes, Cut

LEMMA Refused ==
  ASSUME NEW secret, NEW a \in Bytes, NEW b \in Bytes, Len(b) = SignatureLength,
         NEW x, x = Join(a, b), MacOf(secret, a, b) \notin macs
  PROVE  ~ from_signed_bytes(secret, x).ok
BY Verdict DEF Error

-----------------------------------------------------------------------------
(***************************************************************************)
(* The invariants.                                                         *)
(***************************************************************************)
Probes == [icmp : Bytes, payload : Payloads, target : Targets, secret : {Secret, OtherSecret}]
Arrivals == [data : Bytes, probe : Nat, from : Bytes, to : Bytes, intact : BOOLEAN, time : Nat]
Results == [source_address : Bytes, destination_address : Bytes, ttl : Nat,
            receive_time : Nat, payload : Payloads]

PathTypeOK ==
  /\ probes \in Seq(Probes)
  /\ received \in Seq(Arrivals)
  /\ result_queue \in Seq(Results)

(* No code belongs to two messages, and only payloads have codes. *)
MacsAreIdeal ==
  /\ \A m \in macs : /\ m = MacOf(m.secret, m.bytes, m.code) /\ m.code \in Codes
                     /\ \E payload \in Payloads : m.bytes = PayloadBytes(payload)
  /\ \A m, n \in macs : m.code = n.code => m = n

ProbesAreSigned ==
  \A i \in DOMAIN probes : \E code \in Codes :
    /\ probes[i].icmp = echo_request(1, 2, Join(PayloadBytes(probes[i].payload), code))
    /\ MacOf(probes[i].secret, PayloadBytes(probes[i].payload), code) \in macs

SentFirst == \A k \in DOMAIN received : received[k].probe \in DOMAIN probes

PathInv ==
  PathTypeOK /\ MacsAreIdeal /\ ProbesAreSigned /\ SentFirst

(* The inductive invariant. *)
PathIInv == PathInv /\ AcceptedIsOwn

Signed(i, bytes, code) ==
  /\ bytes \in Bytes /\ code \in Codes
  /\ bytes = PayloadBytes(probes[i].payload)
  /\ Body(i) = Join(bytes, code)
  /\ MacOf(probes[i].secret, bytes, code) \in macs

(* A probe carries its payload and the payload's code. *)
LEMMA ProbeFacts ==
  ASSUME PathTypeOK, ProbesAreSigned, NEW i \in DOMAIN probes
  PROVE  /\ probes[i] \in Probes
         /\ probes[i].icmp \in Bytes /\ Len(probes[i].icmp) = 8 + Len(Body(i))
         /\ Body(i) = Cut(probes[i].icmp, 9, Len(probes[i].icmp))
         /\ \E bytes, code : Signed(i, bytes, code)
<1>1. probes[i] \in Probes
  BY ElementOfSeq DEF PathTypeOK
<1>2. PICK p \in Payloads : p = probes[i].payload
  BY <1>1 DEF Probes
<1>3. PICK code \in Codes :
        /\ probes[i].icmp = echo_request(1, 2, Join(PayloadBytes(p), code))
        /\ MacOf(probes[i].secret, PayloadBytes(p), code) \in macs
  BY <1>2 DEF ProbesAreSigned
<1>4. PICK bytes \in Bytes : bytes = PayloadBytes(p)
  BY PayloadFacts
<1>5. code \in Bytes
  BY CodeFacts
<1>6. PICK body \in Bytes : body = Join(bytes, code)
  BY <1>5, JoinFacts
<1>7. PICK r : r = echo_request(1, 2, body)
  OBVIOUS
<1>8. r \in Bytes /\ Len(r) = 8 + Len(body) /\ Cut(r, 9, Len(r)) = body
  BY <1>7, RequestFacts
<1>9. r = probes[i].icmp
  BY <1>3, <1>4, <1>6, <1>7
<1>10. Body(i) = body
  BY <1>8, <1>9, FromIsCut DEF Body
<1>11. Signed(i, bytes, code)
  BY <1>2, <1>3, <1>4, <1>6, <1>10 DEF Signed
<1>12. QED
  BY <1>1, <1>8, <1>9, <1>10, <1>11

(* The body of a probe is accepted by the deployment that sent it. *)
LEMMA WholeIsVerified ==
  ASSUME PathTypeOK, MacsAreIdeal, ProbesAreSigned, NEW i \in DOMAIN probes
  PROVE  LET verdict == from_signed_bytes(Secret, Body(i))
         IN  /\ probes[i].secret = Secret => verdict.ok /\ verdict.value = probes[i].payload
             /\ probes[i].secret # Secret => ~ verdict.ok
<1>1. PICK bytes, code : Signed(i, bytes, code)
  BY ProbeFacts
<1>2. /\ bytes \in Bytes /\ code \in Codes /\ code \in Bytes /\ Len(code) = SignatureLength
      /\ bytes = PayloadBytes(probes[i].payload) /\ Body(i) = Join(bytes, code)
      /\ MacOf(probes[i].secret, bytes, code) \in macs
  BY <1>1, CodeFacts DEF Signed
<1>3. PICK v : v = from_signed_bytes(Secret, Body(i))
  OBVIOUS
<1>4. v = IF MacOf(Secret, bytes, code) \in macs THEN ReadPayload(bytes) ELSE Error
  BY <1>2, <1>3, Verdict
<1>5. ASSUME probes[i].secret = Secret PROVE v.ok /\ v.value = probes[i].payload
  <2>1. probes[i].payload \in Payloads
    BY ProbeFacts DEF Probes
  <2>2. ReadPayload(bytes).ok /\ ReadPayload(bytes).value = probes[i].payload
    BY <1>2, <2>1, PayloadFacts
  <2>3. v = ReadPayload(bytes)
    BY <1>2, <1>4, <1>5
  <2>4. QED
    BY <2>2, <2>3
<1>6. ASSUME probes[i].secret # Secret PROVE ~ v.ok
  <2>1. ASSUME MacOf(Secret, bytes, code) \in macs PROVE FALSE
    <3>1. MacOf(Secret, bytes, code).code = MacOf(probes[i].secret, bytes, code).code
      BY DEF MacOf
    <3>2. MacOf(Secret, bytes, code) = MacOf(probes[i].secret, bytes, code)
      BY <1>2, <2>1, <3>1 DEF MacsAreIdeal
    <3>3. QED
      BY <1>6, <3>2 DEF MacOf
  <2>2. v = Error
    BY <1>4, <2>1
  <2>3. QED
    BY <2>2 DEF Error
<1>7. QED
  BY <1>3, <1>5, <1>6

(* Only the bytes of a payload have a code. *)
LEMMA SignedIsPayload ==
  ASSUME MacsAreIdeal, NEW secret, NEW a, NEW code, MacOf(secret, a, code) \in macs
  PROVE  \E payload \in Payloads : a = PayloadBytes(payload)
<1>1. PICK m \in macs : m = MacOf(secret, a, code)
  OBVIOUS
<1>2. m.bytes = a
  BY <1>1 DEF MacOf
<1>3. QED
  BY <1>2 DEF MacsAreIdeal

(* What remains of a body that is cut short is no payload with its code. *)
LEMMA ShortIsRefused ==
  ASSUME PathTypeOK, MacsAreIdeal, ProbesAreSigned, NEW i \in DOMAIN probes,
         NEW length \in {0, SignatureLength - 1, SignatureLength, Len(Body(i)) - 1}
  PROVE  /\ Cut(Body(i), 1, length) \in Bytes
         /\ ~ from_signed_bytes(Secret, Cut(Body(i), 1, length)).ok
<1>1. PICK bytes, code : Signed(i, bytes, code)
  BY ProbeFacts
<1>2. PICK l \in Nat : l = SignatureLength /\ l > 0
  BY CodeFacts
<1>3. PICK body \in Bytes : body = Body(i) /\ body = Join(bytes, code)
  BY <1>1, CodeFacts, JoinFacts DEF Signed
<1>4. PICK payload \in Payloads : bytes = PayloadBytes(payload)
  BY <1>1, ProbeFacts DEF Signed, Probes
<1>5. PICK n \in Nat : n = Len(bytes) /\ n > 1
  BY <1>4, PayloadFacts
<1>6. bytes \in Bytes /\ code \in Bytes /\ Len(code) = l
  BY <1>1, <1>2, CodeFacts DEF Signed
<1>7. Len(body) = n + l
  BY <1>3, <1>5, <1>6, JoinFacts
<1>8. length \in Nat /\ length <= n + l
  BY <1>2, <1>3, <1>5, <1>7
<1>9. PICK r \in Nat : n + l = length + r
  <2>1. (n + l) - length \in Nat /\ n + l = length + ((n + l) - length)
    BY <1>8
  <2>2. QED
    BY <2>1
<1>10. PICK x \in Bytes : x = Cut(body, 1, length) /\ Len(x) = length
                          /\ \A j \in 1 .. length : x[j] = body[j]
  <2>1. Len(body) = length + r
    BY <1>7, <1>9
  <2>2. PICK x, y : CutAt(body, length, r, x, y)
    BY <1>8, <2>1, CutInTwo
  <2>3. QED
    BY <2>2 DEF CutAt
<1>11. ~ from_signed_bytes(Secret, x).ok
  <2>1. CASE length < l
    BY <1>2, <1>10, <2>1, TooShort
  <2>2. CASE ~ (length < l)
    <3>1. PICK k \in Nat : length = k + l /\ k < n
      <4>1. length = l \/ length = (n + l) - 1
        BY <1>2, <1>3, <1>7, <2>2
      <4>2. CASE length = l
        <5>1. length = 0 + l /\ 0 < n
          BY <1>5, <4>2
        <5>2. QED
          BY <5>1
      <4>3. CASE length = (n + l) - 1
        <5>1. n - 1 \in Nat /\ n - 1 < n /\ length = (n - 1) + l
          BY <1>5, <4>3
        <5>2. QED
          BY <5>1
      <4>4. QED
        BY <4>1, <4>2, <4>3
    <3>2. PICK a \in Bytes, b \in Bytes : Len(a) = k /\ (\A j \in 1 .. k : a[j] = x[j])
                                          /\ Len(b) = l /\ x = Join(a, b)
      <4>1. Len(x) = k + l
        BY <1>10, <3>1
      <4>2. PICK a, b : CutAt(x, k, l, a, b)
        BY <4>1, CutInTwo
      <4>3. QED
        BY <4>2 DEF CutAt
    <3>3. a = Cut(bytes, 1, k)
      <4>1. PICK q \in Nat : n = k + q
        <5>1. n - k \in Nat /\ n = k + (n - k)
          BY <3>1
        <5>2. QED
          BY <5>1
      <4>2. PICK c \in Bytes : c = Cut(bytes, 1, k) /\ Len(c) = k
                               /\ \A j \in 1 .. k : c[j] = bytes[j]
        <5>1. Len(bytes) = k + q
          BY <1>5, <4>1
        <5>2. PICK c, d : CutAt(bytes, k, q, c, d)
          BY <1>6, <5>1, CutInTwo
        <5>3. QED
          BY <5>2 DEF CutAt
      <4>3. \A j \in 1 .. n : body[j] = bytes[j]
        <5>1. \A j \in 1 .. Len(bytes) : Join(bytes, code)[j] = bytes[j]
          BY <1>6, JoinFacts
        <5>2. QED
          BY <1>3, <1>5, <5>1
      <4>4. \A j \in 1 .. k : a[j] = c[j]
        <5>1. \A j \in 1 .. k : j \in 1 .. length /\ j \in 1 .. n
          BY <1>2, <3>1
        <5>2. QED
          BY <1>10, <3>2, <4>2, <4>3, <5>1
      <4>5. a = c
        BY <3>2, <4>2, <4>4, SameBytes
      <4>6. QED
        BY <4>2, <4>5
    <3>4. MacOf(Secret, a, b) \notin macs
      <4>1. ASSUME MacOf(Secret, a, b) \in macs PROVE FALSE
        <5>1. PICK other \in Payloads : a = PayloadBytes(other)
          BY <4>1, SignedIsPayload
        <5>2. k \in 0 .. n - 1
          BY <3>1
        <5>3. Cut(bytes, 1, k) # PayloadBytes(other)
          BY <1>4, <1>5, <5>2, PayloadFacts
        <5>4. QED
          BY <3>3, <5>1, <5>3
      <4>2. QED
        BY <4>1
    <3>5. QED
      BY <1>2, <3>2, <3>4, Refused
  <2>3. QED
    BY <2>1, <2>2
<1>12. QED
  BY <1>3, <1>10, <1>11

LEMMA NextByteDiffers ==
  ASSUME NEW x \in Nat PROVE (x + 1) % 256 # x /\ (x + 1) % 256 \in Nat
OBVIOUS

(* A changed payload has another code; a changed code is no code. *)
LEMMA ChangedIsRefused ==
  ASSUME PathTypeOK, MacsAreIdeal, ProbesAreSigned, NEW i \in DOMAIN probes,
         NEW k \in {2, Len(Body(i))}
  PROVE  LET x == [Body(i) EXCEPT ![k] = (@ + 1) % 256]
         IN  x \in Bytes /\ ~ from_signed_bytes(Secret, x).ok
<1>1. PICK bytes, code : Signed(i, bytes, code)
  BY ProbeFacts
<1>2. PICK l \in Nat : l = SignatureLength /\ l > 0
  BY CodeFacts
<1>3. PICK body \in Bytes : body = Body(i) /\ body = Join(bytes, code)
  BY <1>1, CodeFacts, JoinFacts DEF Signed
<1>4. PICK payload \in Payloads : bytes = PayloadBytes(payload)
  BY <1>1, ProbeFacts DEF Signed, Probes
<1>5. PICK n \in Nat : n = Len(bytes) /\ n > 1
  BY <1>4, PayloadFacts
<1>6. bytes \in Bytes /\ code \in Bytes /\ code \in Codes /\ Len(code) = l
  BY <1>1, <1>2, CodeFacts DEF Signed
<1>7. Len(body) = n + l /\ (\A j \in 1 .. n : body[j] = bytes[j])
      /\ \A j \in 1 .. l : body[n + j] = code[j]
  <2>1. /\ Len(Join(bytes, code)) = Len(bytes) + Len(code)
        /\ \A j \in 1 .. Len(bytes) : Join(bytes, code)[j] = bytes[j]
        /\ \A j \in 1 .. Len(code) : Join(bytes, code)[Len(bytes) + j] = code[j]
    BY <1>6, JoinFacts
  <2>2. QED
    BY <1>3, <1>5, <1>6, <2>1
<1>8. k \in 1 .. Len(body)
  BY <1>2, <1>3, <1>5, <1>7
<1>9. body[k] \in Nat
  BY <1>8, BytesElement
<1>10. PICK v \in Nat : v = (body[k] + 1) % 256 /\ v # body[k]
  BY <1>9, NextByteDiffers
<1>11. PICK x : x = Changed(body, k, v)
  OBVIOUS
<1>12. x \in Bytes /\ Len(x) = n + l /\ \A j \in 1 .. n + l : x[j] = IF j = k THEN v ELSE body[j]
  <2>1. /\ Changed(body, k, v) \in Bytes /\ Len(Changed(body, k, v)) = Len(body)
        /\ \A j \in 1 .. Len(body) : Changed(body, k, v)[j] = IF j = k THEN v ELSE body[j]
    BY <1>8, OneChanged
  <2>2. QED
    BY <1>7, <1>11, <2>1
<1>13. PICK a \in Bytes, b \in Bytes :
         /\ Len(a) = n /\ \A j \in 1 .. n : a[j] = x[j]
         /\ Len(b) = l /\ \A j \in 1 .. l : b[j] = x[n + j]
         /\ x = Join(a, b)
  <2>1. PICK a, b : CutAt(x, n, l, a, b)
    BY <1>12, CutInTwo
  <2>2. QED
    BY <2>1 DEF CutAt
<1>14. ASSUME k = 2 PROVE ~ from_signed_bytes(Secret, x).ok
  <2>1. a # bytes
    <3>1. 2 \in 1 .. n /\ 2 \in 1 .. n + l
      BY <1>5
    <3>2. x[2] = IF 2 = k THEN v ELSE body[2]
      BY <1>12, <3>1
    <3>3. a[2] = x[2] /\ body[2] = bytes[2]
      BY <1>7, <1>13, <3>1
    <3>4. QED
      BY <1>10, <1>14, <3>2, <3>3
  <2>2. b = code
    <3>1. \A j \in 1 .. l : n + j \in 1 .. n + l /\ n + j # 2
      BY <1>5
    <3>2. ASSUME NEW j \in 1 .. l PROVE b[j] = code[j]
      <4>1. x[n + j] = body[n + j]
        BY <1>12, <1>14, <3>1
      <4>2. b[j] = x[n + j] /\ body[n + j] = code[j]
        BY <1>7, <1>13
      <4>3. QED
        BY <4>1, <4>2
    <3>3. QED
      BY <1>6, <1>13, <3>2, SameBytes
  <2>3. ASSUME MacOf(Secret, a, b) \in macs PROVE FALSE
    <3>1. MacOf(probes[i].secret, bytes, code) \in macs
      BY <1>1 DEF Signed
    <3>2. MacOf(Secret, a, b).code = MacOf(probes[i].secret, bytes, code).code
      BY <2>2 DEF MacOf
    <3>3. MacOf(Secret, a, b) = MacOf(probes[i].secret, bytes, code)
      BY <2>3, <3>1, <3>2 DEF MacsAreIdeal
    <3>4. QED
      BY <2>1, <3>3 DEF MacOf
  <2>4. QED
    BY <1>2, <1>13, <2>3, Refused
<1>15. ASSUME k = n + l PROVE ~ from_signed_bytes(Secret, x).ok
  <2>1. b = Changed(code, l, v)
    <3>1. l \in 1 .. Len(code)
      BY <1>2, <1>6
    <3>2. PICK c \in Bytes : c = Changed(code, l, v) /\ Len(c) = l
                             /\ \A j \in 1 .. l : c[j] = IF j = l THEN v ELSE code[j]
      <4>1. /\ Changed(code, l, v) \in Bytes /\ Len(Changed(code, l, v)) = Len(code)
            /\ \A j \in 1 .. Len(code) : Changed(code, l, v)[j] = IF j = l THEN v ELSE code[j]
        BY <1>6, <3>1, OneChanged
      <4>2. QED
        BY <1>6, <4>1
    <3>3. \A j \in 1 .. l : n + j \in 1 .. n + l /\ (n + j = n + l <=> j = l)
      OBVIOUS
    <3>4. \A j \in 1 .. l : b[j] = c[j]
      BY <1>7, <1>12, <1>13, <1>15, <3>2, <3>3
    <3>5. QED
      BY <1>13, <3>2, <3>4, SameBytes
  <2>2. v = (code[l] + 1) % 256
    <3>1. l \in 1 .. l
      BY <1>2
    <3>2. QED
      BY <1>7, <1>10, <1>15, <3>1
  <2>3. ASSUME MacOf(Secret, a, b) \in macs PROVE FALSE
    <3>1. b \in Codes
      <4>1. PICK m \in macs : m = MacOf(Secret, a, b)
        BY <2>3
      <4>2. m.code = b
        BY <4>1 DEF MacOf
      <4>3. QED
        BY <4>2 DEF MacsAreIdeal
    <3>2. b # [code EXCEPT ![Len(code)] = (@ + 1) % 256]
      BY <1>6, <3>1, CodesAssumption
    <3>3. QED
      BY <1>6, <2>1, <2>2, <3>2 DEF Changed
  <2>4. QED
    BY <1>2, <1>13, <2>3, Refused
<1>16. k = 2 \/ k = n + l
  BY <1>3, <1>7
<1>17. x = [Body(i) EXCEPT ![k] = (@ + 1) % 256]
  BY <1>3, <1>10, <1>11 DEF Changed
<1>18. x \in Bytes /\ ~ from_signed_bytes(Secret, x).ok
  BY <1>12, <1>14, <1>15, <1>16
<1>19. QED
  BY <1>17, <1>18

(* No payload begins as an IPv4 header does. *)
LEMMA QuoteIsRefused ==
  ASSUME MacsAreIdeal, NEW x \in Bytes, Len(x) > 0, x[1] = 69
  PROVE  ~ from_signed_bytes(Secret, x).ok
<1>1. PICK l \in Nat : l = SignatureLength
  BY CodeFacts
<1>2. Len(x) \in Nat
  BY BytesLength
<1>3. CASE Len(x) < l
  BY <1>1, <1>3, TooShort
<1>4. CASE ~ (Len(x) < l)
  <2>1. PICK m \in Nat : Len(x) = m + l
    <3>1. Len(x) - l \in Nat /\ Len(x) = (Len(x) - l) + l
      BY <1>2, <1>4
    <3>2. QED
      BY <3>1
  <2>2. PICK a \in Bytes, b \in Bytes : Len(a) = m /\ (\A j \in 1 .. m : a[j] = x[j])
                                        /\ Len(b) = l /\ x = Join(a, b)
    <3>1. PICK a, b : CutAt(x, m, l, a, b)
      BY <2>1, CutInTwo
    <3>2. QED
      BY <3>1 DEF CutAt
  <2>3. ASSUME MacOf(Secret, a, b) \in macs PROVE FALSE
    <3>1. PICK payload \in Payloads : a = PayloadBytes(payload)
      BY <2>3, SignedIsPayload
    <3>2. m > 1 /\ a[1] # 69
      BY <2>2, <3>1, PayloadFacts
    <3>3. 1 \in 1 .. m
      BY <3>2
    <3>4. QED
      BY <2>2, <3>2, <3>3
  <2>4. QED
    BY <1>1, <2>2, <2>3, Refused
<1>5. QED
  BY <1>3, <1>4

-----------------------------------------------------------------------------
(* Which results come from which packets. *)
OwnOf(packets, sent) ==
  {k \in DOMAIN packets : packets[k].intact /\ sent[packets[k].probe].secret = Secret}

ResultOf(result, packet, sent) ==
  /\ result.payload = sent[packet.probe].payload
  /\ result.source_address = packet.from
  /\ result.destination_address = packet.to
  /\ result.receive_time = packet.time

Accounts(origin, queue, packets, sent) ==
  /\ origin \in [DOMAIN queue -> OwnOf(packets, sent)]
  /\ \A k \in OwnOf(packets, sent) : \E n \in DOMAIN queue : origin[n] = k
  /\ \A m, n \in DOMAIN queue : m < n => origin[m] < origin[n]
  /\ \A n \in DOMAIN queue : ResultOf(queue[n], packets[origin[n]], sent)

LEMMA AcceptedIsAccounted ==
  AcceptedIsOwn <=> \E origin : Accounts(origin, result_queue, received, probes)
BY DEF AcceptedIsOwn, OwnPackets, Accounts, OwnOf, ResultOf

LEMMA AcceptedIsAccountedThen ==
  AcceptedIsOwn' <=> \E origin : Accounts(origin, result_queue', received', probes')
BY DEF AcceptedIsOwn, OwnPackets, Accounts, OwnOf, ResultOf

(* A packet that becomes a result. *)
LEMMA OneMoreResult ==
  ASSUME NEW A, NEW B, NEW queue \in Seq(A), NEW packets \in Seq(B), NEW sent,
         NEW origin, Accounts(origin, queue, packets, sent),
         NEW packet \in B, NEW result \in A,
         packet.intact, sent[packet.probe].secret = Secret, ResultOf(result, packet, sent),
         NEW queue2, queue2 = Append(queue, result),
         NEW packets2, packets2 = Append(packets, packet)
  PROVE  \E o : Accounts(o, queue2, packets2, sent)
<1>1. PICK q \in Nat : /\ q = Len(queue) /\ DOMAIN queue = 1 .. q /\ DOMAIN queue2 = 1 .. q + 1
                       /\ (\A i \in 1 .. q : queue2[i] = queue[i]) /\ queue2[q + 1] = result
  <2>1. /\ Len(queue) \in Nat /\ DOMAIN queue = 1 .. Len(queue)
        /\ DOMAIN queue2 = 1 .. Len(queue) + 1
        /\ \A i \in 1 .. Len(queue) : queue2[i] = queue[i]
        /\ queue2[Len(queue) + 1] = result
    BY Appended
  <2>2. QED
    BY <2>1
<1>2. PICK p \in Nat : /\ p = Len(packets) /\ DOMAIN packets = 1 .. p
                       /\ DOMAIN packets2 = 1 .. p + 1
                       /\ (\A i \in 1 .. p : packets2[i] = packets[i]) /\ packets2[p + 1] = packet
  BY Appended
<1>3. PICK own : own = OwnOf(packets, sent)
  OBVIOUS
<1>4. own \subseteq 1 .. p
  BY <1>2, <1>3 DEF OwnOf
<1>5. OwnOf(packets2, sent) = own \cup {p + 1}
  <2>1. ASSUME NEW k PROVE k \in OwnOf(packets2, sent) <=> k \in own \cup {p + 1}
    <3>1. CASE k \in 1 .. p
      <4>1. packets2[k] = packets[k] /\ k # p + 1 /\ k \in 1 .. p + 1
        BY <1>2, <3>1
      <4>2. QED
        BY <1>2, <1>3, <3>1, <4>1 DEF OwnOf
    <3>2. CASE k = p + 1
      BY <1>2, <3>2 DEF OwnOf
    <3>3. CASE k \notin 1 .. p + 1
      <4>1. k \notin 1 .. p /\ k # p + 1
        BY <3>3
      <4>2. QED
        BY <1>2, <1>4, <3>3, <4>1 DEF OwnOf
    <3>4. 1 .. p + 1 = (1 .. p) \cup {p + 1}
      OBVIOUS
    <3>5. QED
      BY <3>1, <3>2, <3>3, <3>4
  <2>2. QED
    BY <2>1
<1>6. /\ origin \in [1 .. q -> own]
      /\ \A k \in own : \E n \in 1 .. q : origin[n] = k
      /\ \A m, n \in 1 .. q : m < n => origin[m] < origin[n]
      /\ \A n \in 1 .. q : ResultOf(queue[n], packets[origin[n]], sent)
  BY <1>1, <1>3 DEF Accounts
<1>7. PICK o : o = [n \in 1 .. q + 1 |-> IF n = q + 1 THEN p + 1 ELSE origin[n]]
  OBVIOUS
<1>8. q + 1 \in 1 .. q + 1 /\ \A n \in 1 .. q : n \in 1 .. q + 1 /\ n # q + 1
  OBVIOUS
<1>9. o[q + 1] = p + 1 /\ \A n \in 1 .. q : o[n] = origin[n]
  BY <1>7, <1>8
<1>10. \A n \in 1 .. q + 1 : n \in 1 .. q \/ n = q + 1
  OBVIOUS
<1>11. \A n \in 1 .. q : origin[n] \in own /\ origin[n] \in 1 .. p
  BY <1>4, <1>6
<1>12. o \in [1 .. q + 1 -> own \cup {p + 1}]
  BY <1>7, <1>10, <1>11
<1>13. \A k \in own \cup {p + 1} : \E n \in 1 .. q + 1 : o[n] = k
  <2>1. ASSUME NEW k \in own PROVE \E n \in 1 .. q + 1 : o[n] = k
    <3>1. PICK n \in 1 .. q : origin[n] = k
      BY <1>6
    <3>2. QED
      BY <1>8, <1>9, <3>1
  <2>2. QED
    BY <1>8, <1>9, <2>1
<1>14. \A m, n \in 1 .. q + 1 : m < n => o[m] < o[n]
  <2>1. ASSUME NEW m \in 1 .. q + 1, NEW n \in 1 .. q + 1, m < n PROVE o[m] < o[n]
    <3>1. m \in 1 .. q
      BY <2>1
    <3>2. CASE n = q + 1
      BY <1>9, <1>11, <3>1, <3>2
    <3>3. CASE n \in 1 .. q
      BY <1>6, <1>9, <2>1, <3>1, <3>3
    <3>4. QED
      BY <1>10, <3>2, <3>3
  <2>2. QED
    BY <2>1
<1>15. \A n \in 1 .. q + 1 : ResultOf(queue2[n], packets2[o[n]], sent)
  <2>1. ASSUME NEW n \in 1 .. q PROVE ResultOf(queue2[n], packets2[o[n]], sent)
    <3>1. o[n] = origin[n] /\ packets2[origin[n]] = packets[origin[n]] /\ queue2[n] = queue[n]
      BY <1>1, <1>2, <1>9, <1>11
    <3>2. QED
      BY <1>6, <3>1
  <2>2. ResultOf(queue2[q + 1], packets2[o[q + 1]], sent)
    BY <1>1, <1>2, <1>9
  <2>3. QED
    BY <1>10, <2>1, <2>2
<1>16. Accounts(o, queue2, packets2, sent)
  BY <1>1, <1>5, <1>12, <1>13, <1>14, <1>15 DEF Accounts
<1>17. QED
  BY <1>16

(* A packet that does not. *)
LEMMA NoResult ==
  ASSUME NEW A, NEW B, NEW queue \in Seq(A), NEW packets \in Seq(B), NEW sent,
         NEW origin, Accounts(origin, queue, packets, sent),
         NEW packet \in B, ~ (packet.intact /\ sent[packet.probe].secret = Secret),
         NEW packets2, packets2 = Append(packets, packet)
  PROVE  Accounts(origin, queue, packets2, sent)
<1>1. PICK p \in Nat : /\ p = Len(packets) /\ DOMAIN packets = 1 .. p
                       /\ DOMAIN packets2 = 1 .. p + 1
                       /\ (\A i \in 1 .. p : packets2[i] = packets[i]) /\ packets2[p + 1] = packet
  BY Appended
<1>2. OwnOf(packets2, sent) = OwnOf(packets, sent)
  <2>1. ASSUME NEW k PROVE k \in OwnOf(packets2, sent) <=> k \in OwnOf(packets, sent)
    <3>1. CASE k \in 1 .. p
      <4>1. packets2[k] = packets[k] /\ k \in 1 .. p + 1
        BY <1>1, <3>1
      <4>2. QED
        BY <1>1, <3>1, <4>1 DEF OwnOf
    <3>2. CASE k = p + 1
      <4>1. k \notin 1 .. p
        BY <3>2
      <4>2. QED
        BY <1>1, <3>2, <4>1 DEF OwnOf
    <3>3. CASE k \notin 1 .. p + 1
      <4>1. k \notin 1 .. p
        BY <3>3
      <4>2. QED
        BY <1>1, <3>3, <4>1 DEF OwnOf
    <3>4. 1 .. p + 1 = (1 .. p) \cup {p + 1}
      OBVIOUS
    <3>5. QED
      BY <3>1, <3>2, <3>3, <3>4
  <2>2. QED
    BY <2>1
<1>3. \A n \in DOMAIN queue : packets2[origin[n]] = packets[origin[n]]
  <2>1. \A n \in DOMAIN queue : origin[n] \in 1 .. p
    BY <1>1 DEF Accounts, OwnOf
  <2>2. QED
    BY <1>1, <2>1
<1>4. QED
  BY <1>2, <1>3 DEF Accounts

(* A probe that is sent. *)
LEMMA OneMoreProbe ==
  ASSUME NEW B, NEW queue, NEW packets, NEW sent \in Seq(B), NEW probe \in B,
         NEW origin, Accounts(origin, queue, packets, sent),
         \A k \in DOMAIN packets : packets[k].probe \in DOMAIN sent,
         NEW sent2, sent2 = Append(sent, probe)
  PROVE  Accounts(origin, queue, packets, sent2)
<1>1. \A i \in DOMAIN sent : sent2[i] = sent[i]
  BY Appended
<1>2. \A k \in DOMAIN packets : sent2[packets[k].probe] = sent[packets[k].probe]
  BY <1>1
<1>3. OwnOf(packets, sent2) = OwnOf(packets, sent)
  BY <1>2 DEF OwnOf
<1>4. \A n \in DOMAIN queue : origin[n] \in DOMAIN packets
  BY DEF Accounts, OwnOf
<1>5. QED
  BY <1>2, <1>3, <1>4 DEF Accounts, ResultOf

-----------------------------------------------------------------------------
LEMMA AddressFacts ==
  /\ Source \in Bytes /\ Len(Source) = 4
  /\ \A target \in Targets : target \in Bytes /\ Len(target) = 4
<1>1. \A address \in Targets \cup {Source} : address \in Seq(0 .. 255) /\ Len(address) = 4
  BY PingPathAssumption
<1>2. QED
  BY <1>1, ByteSequences

LEMMA OptionsFacts ==
  /\ \A options \in Options : options \in 0 .. 40 /\ options % 4 = 0
  /\ Ttl \in Nat
BY PingPathAssumption

LEMMA BodyIsBytes ==
  ASSUME PathTypeOK, ProbesAreSigned, NEW i \in DOMAIN probes
  PROVE  Body(i) \in Bytes
<1>1. PICK bytes, code : Signed(i, bytes, code)
  BY ProbeFacts
<1>2. bytes \in Bytes /\ code \in Bytes /\ Body(i) = Join(bytes, code)
  BY <1>1, CodeFacts DEF Signed
<1>3. QED
  BY <1>2, JoinFacts

LEMMA WholeVerdict ==
  ASSUME PathTypeOK, MacsAreIdeal, ProbesAreSigned, NEW i \in DOMAIN probes,
         NEW verdict, verdict = from_signed_bytes(Secret, Body(i))
  PROVE  /\ verdict.ok <=> TRUE /\ probes[i].secret = Secret
         /\ verdict.ok => verdict.value = probes[i].payload
BY WholeIsVerified

(* The result of a packet that is parsed: none, or one with the packet's     *)
(* addresses.                                                                *)
LEMMA ProcessedFacts ==
  ASSUME NEW p, p.payload # <<>>, NEW verdict, verdict = from_signed_bytes(Secret, p.payload[1].body),
         NEW time
  PROVE  Processed(p, time) = IF verdict.ok THEN <<ResultFor(p, verdict.value, time)>> ELSE <<>>
BY DEF Processed

(* A packet is received whose body is accepted exactly if it is a whole one   *)
(* of this deployment.                                                       *)
LEMMA ReceiveKeepsInv ==
  ASSUME PathIInv, NEW i \in DOMAIN probes,
         NEW from \in Bytes, Len(from) = 4, NEW to \in Bytes, Len(to) = 4,
         NEW options \in 0 .. 40, options % 4 = 0, NEW ttl \in Nat,
         NEW message \in Bytes, Len(message) >= 8, NEW intact \in BOOLEAN,
         NEW verdict, verdict = from_signed_bytes(Secret, Cut(message, 9, Len(message))),
         verdict.ok <=> intact /\ probes[i].secret = Secret,
         verdict.ok => verdict.value = probes[i].payload,
         NEW data, data = Join(HeaderOf(options, ttl, from, to), message),
         Receive(Packet(data, i, from, to, intact))
  PROVE  PathIInv' /\ UNCHANGED receiver
<1>3. PICK packet : packet = Packet(data, i, from, to, intact)
  OBVIOUS
<1>4. PICK p : p = IPv4Packet(data)
  OBVIOUS
<1>5. /\ data \in Bytes /\ ~ IPv4Panics(data) /\ p.ttl \in Nat
      /\ p.source_address = from /\ p.destination_address = to
      /\ p.payload # <<>> /\ p.payload[1].body = Cut(message, 9, Len(message))
  <2>1. Parses(data, p, from, to, message)
    BY <1>4, PacketParses
  <2>2. QED
    BY <2>1 DEF Parses
<1>6. PICK time : time = Len(received) + 1
  OBVIOUS
<1>7. /\ packet.data = data /\ packet.probe = i /\ packet.from = from /\ packet.to = to
      /\ packet.intact = intact /\ packet.time = time
  BY <1>3, <1>6 DEF Packet
<1>8. PICK r : r = ResultFor(p, verdict.value, time)
  OBVIOUS
<1>9. /\ received' = Append(received, packet)
      /\ result_queue' = result_queue \o (IF verdict.ok THEN <<r>> ELSE <<>>)
      /\ UNCHANGED <<macs, probes, receiver>>
  <2>1. Receive(packet)
    BY <1>3
  <2>2. Processed(IPv4Packet(packet.data), packet.time)
          = IF verdict.ok THEN <<r>> ELSE <<>>
    BY <1>4, <1>5, <1>7, <1>8, ProcessedFacts
  <2>3. QED
    BY <1>5, <1>7, <2>1, <2>2 DEF Receive
<1>10. /\ probes \in Seq(Probes) /\ received \in Seq(Arrivals) /\ result_queue \in Seq(Results)
       /\ MacsAreIdeal /\ ProbesAreSigned /\ SentFirst /\ AcceptedIsOwn
  BY DEF PathIInv, PathInv, PathTypeOK
<1>11. i \in Nat /\ time \in Nat /\ probes[i].payload \in Payloads
  <2>1. DOMAIN probes = 1 .. Len(probes) /\ Len(probes) \in Nat
    BY <1>10, LenProperties
  <2>2. Len(received) \in Nat
    BY <1>10, LenProperties
  <2>3. probes[i] \in Probes
    BY <1>10, <2>1, ElementOfSeq
  <2>4. QED
    BY <1>6, <2>1, <2>2, <2>3 DEF Probes
<1>12. packet \in Arrivals
  BY <1>3, <1>5, <1>6, <1>11 DEF Packet, Arrivals
<1>13. /\ received' \in Seq(Arrivals)
       /\ DOMAIN received' = 1 .. Len(received) + 1 /\ DOMAIN received = 1 .. Len(received)
       /\ Len(received) \in Nat
       /\ (\A k \in 1 .. Len(received) : received'[k] = received[k])
       /\ received'[Len(received) + 1] = packet
  BY <1>9, <1>10, <1>12, Appended
<1>14. SentFirst'
  <2>1. ASSUME NEW k \in DOMAIN received' PROVE received'[k].probe \in DOMAIN probes'
    <3>1. CASE k = Len(received) + 1
      BY <1>7, <1>9, <1>13, <3>1
    <3>2. CASE k # Len(received) + 1
      <4>1. k \in DOMAIN received /\ received'[k] = received[k]
        BY <1>13, <3>2
      <4>2. QED
        BY <1>9, <1>10, <4>1 DEF SentFirst
    <3>3. QED
      BY <3>1, <3>2
  <2>2. QED
    BY <2>1 DEF SentFirst
<1>15. MacsAreIdeal' /\ ProbesAreSigned'
  <2>1. MacsAreIdeal'
    BY <1>9, <1>10 DEF MacsAreIdeal
  <2>2. ProbesAreSigned'
    BY <1>9, <1>10 DEF ProbesAreSigned
  <2>3. QED
    BY <2>1, <2>2
<1>16. PICK origin : Accounts(origin, result_queue, received, probes)
  BY <1>10, AcceptedIsAccounted
<1>17. result_queue' \in Seq(Results) /\ AcceptedIsOwn'
  <2>1. CASE verdict.ok
    <3>1. r \in Results
      BY <1>5, <1>8, <1>11, <2>1 DEF ResultFor, Results
    <3>2. result_queue' = Append(result_queue, r)
      BY <1>9, <1>10, <2>1, <3>1, AppendIsConcat
    <3>3. result_queue' \in Seq(Results)
      BY <1>10, <3>1, <3>2, Appended
    <3>4. ResultOf(r, packet, probes)
      BY <1>5, <1>7, <1>8, <2>1 DEF ResultFor, ResultOf
    <3>5. packet.intact /\ probes[packet.probe].secret = Secret
      BY <1>7, <2>1
    <3>6. \E o : Accounts(o, result_queue', received', probes)
      BY <1>9, <1>10, <1>12, <1>16, <3>1, <3>2, <3>4, <3>5, OneMoreResult
    <3>7. QED
      BY <1>9, <3>3, <3>6, AcceptedIsAccountedThen
  <2>2. CASE ~ verdict.ok
    <3>1. result_queue' = result_queue
      BY <1>9, <1>10, <2>2, ConcatEmptySeq
    <3>2. ~ (packet.intact /\ probes[packet.probe].secret = Secret)
      BY <1>7, <2>2
    <3>3. Accounts(origin, result_queue, received', probes)
      BY <1>9, <1>10, <1>12, <1>16, <3>2, NoResult
    <3>4. QED
      BY <1>9, <1>10, <3>1, <3>3, AcceptedIsAccountedThen
  <2>3. QED
    BY <2>1, <2>2
<1>18. QED
  BY <1>9, <1>10, <1>13, <1>14, <1>15, <1>17 DEF PathIInv, PathInv, PathTypeOK

(* For a packet to the client. *)
LEMMA AnswerKeepsInv ==
  ASSUME PathIInv, NEW i \in DOMAIN probes, NEW options \in Options,
         NEW from \in Targets \cup {Source}, NEW type \in Nat, NEW identifier \in Nat,
         NEW sequence_number \in Nat, NEW body \in Bytes, NEW intact \in BOOLEAN,
         NEW verdict, verdict = from_signed_bytes(Secret, body),
         verdict.ok <=> intact /\ probes[i].secret = Secret,
         verdict.ok => verdict.value = probes[i].payload,
         Answer(i, options, from, ICMPMessage(type, identifier, sequence_number, body), intact)
  PROVE  PathIInv' /\ UNCHANGED receiver
<1>1. PICK message : message = ICMPMessage(type, identifier, sequence_number, body)
  OBVIOUS
<1>2. message \in Bytes /\ Len(message) = 8 + Len(body) /\ Cut(message, 9, Len(message)) = body
  BY <1>1, AnswerFacts
<1>3. Len(message) >= 8
  BY <1>2, BytesLength
<1>4. PICK data : /\ data = Join(HeaderOf(options, Ttl, from, Source), message)
                  /\ Receive(Packet(data, i, from, Source, intact))
  BY <1>1, HeaderIsJoined DEF Answer, Join
<1>5. options \in 0 .. 40 /\ options % 4 = 0 /\ Ttl \in Nat
  BY OptionsFacts
<1>6. from \in Bytes /\ Len(from) = 4 /\ Source \in Bytes /\ Len(Source) = 4
  BY AddressFacts
<1>7. verdict = from_signed_bytes(Secret, Cut(message, 9, Len(message)))
  BY <1>2
<1>8. QED
  BY <1>2, <1>3, <1>4, <1>5, <1>6, <1>7, ReceiveKeepsInv

LEMMA EchoReplyKeepsInv ==
  ASSUME PathIInv, NEW i \in DOMAIN probes, EchoReply(i)
  PROVE  PathIInv' /\ UNCHANGED receiver
<1>1. PICK options \in Options :
        Answer(i, options, probes[i].target, ICMPMessage(0, 1, 2, Body(i)), TRUE)
  BY DEF EchoReply
<1>2. PathTypeOK /\ MacsAreIdeal /\ ProbesAreSigned
  BY DEF PathIInv, PathInv
<1>3. probes[i].target \in Targets
  BY <1>2, ProbeFacts DEF Probes
<1>4. Body(i) \in Bytes
  BY <1>2, BodyIsBytes
<1>5. PICK verdict : verdict = from_signed_bytes(Secret, Body(i))
  OBVIOUS
<1>6. /\ verdict.ok <=> TRUE /\ probes[i].secret = Secret
      /\ verdict.ok => verdict.value = probes[i].payload
  BY <1>2, <1>5, WholeVerdict
<1>7. QED
  BY <1>1, <1>3, <1>4, <1>5, <1>6, AnswerKeepsInv

LEMMA RequestArrivesKeepsInv ==
  ASSUME PathIInv, NEW i \in DOMAIN probes, RequestArrives(i)
  PROVE  PathIInv' /\ UNCHANGED receiver
<1>1. PathTypeOK /\ MacsAreIdeal /\ ProbesAreSigned
  BY DEF PathIInv, PathInv
<1>2. PICK target \in Targets : target = probes[i].target
  BY <1>1, ProbeFacts DEF Probes
<1>3. PICK message \in Bytes : /\ message = probes[i].icmp /\ Len(message) = 8 + Len(Body(i))
                               /\ Body(i) = Cut(message, 9, Len(message))
  BY <1>1, ProbeFacts
<1>4. Len(message) >= 8
  <2>1. Body(i) \in Bytes
    BY <1>1, BodyIsBytes
  <2>2. QED
    BY <1>3, <2>1, BytesLength
<1>5. PICK verdict : verdict = from_signed_bytes(Secret, Body(i))
  OBVIOUS
<1>6. /\ verdict.ok <=> TRUE /\ probes[i].secret = Secret
      /\ verdict.ok => verdict.value = probes[i].payload
  BY <1>1, <1>5, WholeVerdict
<1>7. verdict = from_signed_bytes(Secret, Cut(message, 9, Len(message)))
  BY <1>3, <1>5
<1>8. Source \in Bytes /\ Len(Source) = 4 /\ target \in Bytes /\ Len(target) = 4
  BY AddressFacts
<1>9. Receive(Packet(Header(0, 1, Ttl, Source, target) \o message, i, Source, target, TRUE))
  BY <1>2, <1>3 DEF RequestArrives
<1>10. PICK options \in 0 .. 40 : options = 0 /\ options % 4 = 0
  OBVIOUS
<1>11. PICK data : /\ data = Join(HeaderOf(options, Ttl, Source, target), message)
                   /\ Receive(Packet(data, i, Source, target, TRUE))
  BY <1>9, <1>10, HeaderIsJoined DEF Join
<1>12. Ttl \in Nat
  BY OptionsFacts
<1>13. QED
  BY <1>3, <1>4, <1>6, <1>7, <1>8, <1>10, <1>11, <1>12, ReceiveKeepsInv

(* A packet whose body is not accepted, from a host or router. *)
LEMMA RefusedKeepsInv ==
  ASSUME PathIInv, NEW i \in DOMAIN probes, NEW from \in Targets \cup {Source},
         NEW type \in Nat, NEW identifier \in Nat, NEW sequence_number \in Nat,
         NEW body \in Bytes, ~ from_signed_bytes(Secret, body).ok,
         Answer(i, 0, from, ICMPMessage(type, identifier, sequence_number, body), FALSE)
  PROVE  PathIInv' /\ UNCHANGED receiver
<1>1. PICK message : message = ICMPMessage(type, identifier, sequence_number, body)
  OBVIOUS
<1>2. message \in Bytes /\ Len(message) = 8 + Len(body) /\ Cut(message, 9, Len(message)) = body
  BY <1>1, AnswerFacts
<1>3. Len(message) >= 8
  BY <1>2, BytesLength
<1>4. PICK options \in 0 .. 40 : options = 0 /\ options % 4 = 0
  OBVIOUS
<1>5. PICK data : /\ data = Join(HeaderOf(options, Ttl, from, Source), message)
                  /\ Receive(Packet(data, i, from, Source, FALSE))
  <2>1. Answer(i, options, from, message, FALSE)
    BY <1>1, <1>4
  <2>2. QED
    BY <2>1, HeaderIsJoined DEF Answer, Join
<1>6. from \in Bytes /\ Len(from) = 4 /\ Source \in Bytes /\ Len(Source) = 4 /\ Ttl \in Nat
  BY AddressFacts, OptionsFacts
<1>7. PICK verdict : verdict = from_signed_bytes(Secret, Cut(message, 9, Len(message)))
  OBVIOUS
<1>8. /\ verdict.ok <=> FALSE /\ probes[i].secret = Secret
      /\ verdict.ok => verdict.value = probes[i].payload
  BY <1>2, <1>7
<1>9. QED
  BY <1>2, <1>3, <1>4, <1>5, <1>6, <1>7, <1>8, ReceiveKeepsInv

LEMMA ShortReplyKeepsInv ==
  ASSUME PathIInv, NEW i \in DOMAIN probes, ShortReply(i)
  PROVE  PathIInv' /\ UNCHANGED receiver
<1>1. PICK length \in {0, SignatureLength - 1, SignatureLength, Len(Body(i)) - 1} :
        Answer(i, 0, probes[i].target, ICMPMessage(0, 1, 2, Cut(Body(i), 1, length)), FALSE)
  BY DEF ShortReply, Cut
<1>2. PathTypeOK /\ MacsAreIdeal /\ ProbesAreSigned
  BY DEF PathIInv, PathInv
<1>3. probes[i].target \in Targets
  BY <1>2, ProbeFacts DEF Probes
<1>4. PICK body \in Bytes : /\ body = Cut(Body(i), 1, length)
                            /\ ~ from_signed_bytes(Secret, body).ok
  BY <1>2, ShortIsRefused
<1>5. Answer(i, 0, probes[i].target, ICMPMessage(0, 1, 2, body), FALSE)
  BY <1>1, <1>4
<1>6. QED
  BY <1>3, <1>4, <1>5, RefusedKeepsInv

LEMMA ChangedReplyKeepsInv ==
  ASSUME PathIInv, NEW i \in DOMAIN probes, ChangedReply(i)
  PROVE  PathIInv' /\ UNCHANGED receiver
<1>1. PICK k \in {2, Len(Body(i))} :
        Answer(i, 0, probes[i].target,
               ICMPMessage(0, 1, 2, [Body(i) EXCEPT ![k] = (@ + 1) % 256]), FALSE)
  BY DEF ChangedReply
<1>2. PathTypeOK /\ MacsAreIdeal /\ ProbesAreSigned
  BY DEF PathIInv, PathInv
<1>3. probes[i].target \in Targets
  BY <1>2, ProbeFacts DEF Probes
<1>4. PICK body \in Bytes : /\ body = [Body(i) EXCEPT ![k] = (@ + 1) % 256]
                            /\ ~ from_signed_bytes(Secret, body).ok
  BY <1>2, ChangedIsRefused
<1>5. Answer(i, 0, probes[i].target, ICMPMessage(0, 1, 2, body), FALSE)
  BY <1>1, <1>4
<1>6. QED
  BY <1>3, <1>4, <1>5, RefusedKeepsInv

LEMMA UnreachableKeepsInv ==
  ASSUME PathIInv, NEW i \in DOMAIN probes, Unreachable(i)
  PROVE  PathIInv' /\ UNCHANGED receiver
<1>1. PathTypeOK /\ MacsAreIdeal /\ ProbesAreSigned
  BY DEF PathIInv, PathInv
<1>2. PICK target \in Targets : target = probes[i].target
  BY <1>1, ProbeFacts DEF Probes
<1>3. PICK h : h = HeaderOf(0, 1, Source, target)
  OBVIOUS
<1>4. PICK q \in Bytes : q = Cut(probes[i].icmp, 1, 8)
  <2>1. probes[i].icmp \in Bytes /\ Len(probes[i].icmp) = 8 + Len(Body(i))
    BY <1>1, ProbeFacts
  <2>2. Len(Body(i)) \in Nat
    BY <1>1, BodyIsBytes, BytesLength
  <2>3. 1 \in Nat \ {0} /\ 8 \in Nat /\ 8 <= Len(probes[i].icmp)
    BY <2>1, <2>2
  <2>4. QED
    BY <2>1, <2>3, CutFacts
<1>5. PICK x : x = Join(h, q)
  OBVIOUS
<1>6. /\ h \in Bytes /\ Len(h) = 20 /\ x[1] = 69
  <2>1. PICK n \in Nat : n = 0 /\ 20 + n = 20 /\ 69 + (n \div 4) = 69
    OBVIOUS
  <2>2. PICK t \in Nat : t = 1
    OBVIOUS
  <2>3. Source \in Bytes /\ Len(Source) = 4 /\ target \in Bytes /\ Len(target) = 4
    BY AddressFacts
  <2>4. /\ HeaderOf(n, t, Source, target) \in Bytes
        /\ Len(HeaderOf(n, t, Source, target)) = 20 + n
        /\ Join(HeaderOf(n, t, Source, target), q)[1] = 69 + (n \div 4)
    BY <2>3, HeaderFacts
  <2>5. QED
    BY <1>3, <1>5, <2>1, <2>2, <2>4
<1>7. x \in Bytes /\ Len(x) > 0
  <2>1. Join(h, q) \in Bytes /\ Len(Join(h, q)) = Len(h) + Len(q)
    <3>1. h \in Bytes
      BY <1>6
    <3>2. QED
      BY <3>1, JoinFacts
  <2>2. Len(q) \in Nat
    BY BytesLength
  <2>3. QED
    BY <1>5, <1>6, <2>1, <2>2
<1>8. ~ from_signed_bytes(Secret, x).ok
  BY <1>1, <1>6, <1>7, QuoteIsRefused
<1>9. x = Header(0, 1, 1, Source, target) \o SubSeq(probes[i].icmp, 1, 8)
  BY <1>3, <1>4, <1>5, HeaderIsJoined DEF Join, Cut
<1>10. Answer(i, 0, Source, ICMPMessage(3, 0, 0, x), FALSE)
  BY <1>2, <1>9 DEF Unreachable
<1>11. QED
  BY <1>7, <1>8, <1>10, RefusedKeepsInv

-----------------------------------------------------------------------------
(* Sending. *)
LEMMA SendPingKeepsInv ==
  ASSUME PathIInv, NEW secret \in {Secret, OtherSecret}, NEW target \in Targets,
         SendPing(secret, target)
  PROVE  PathIInv' /\ UNCHANGED receiver
<1>1. PICK task_id, time, payload, bytes, code :
        /\ task_id \in TaskIds /\ time \in Times
        /\ payload = NewPayload(target, task_id, time)
        /\ bytes = PayloadBytes(payload)
        /\ code \in PossibleCodes(secret, bytes)
        /\ macs' = macs \cup {MacOf(secret, bytes, code)}
        /\ probes' = Append(probes,
             [icmp |-> echo_request(1, 2, Join(bytes, code)),
              payload |-> payload, target |-> target, secret |-> secret])
        /\ UNCHANGED <<received, receiver, result_queue>>
  BY DEF SendPing, Join
<1>2. /\ probes \in Seq(Probes) /\ received \in Seq(Arrivals) /\ result_queue \in Seq(Results)
      /\ MacsAreIdeal /\ ProbesAreSigned /\ SentFirst /\ AcceptedIsOwn
  BY DEF PathIInv, PathInv, PathTypeOK
<1>3. payload \in Payloads /\ bytes \in Bytes
  <2>1. payload \in Payloads
    BY <1>1 DEF Payloads
  <2>2. QED
    BY <1>1, <2>1, PayloadFacts
<1>4. PICK mac : mac = MacOf(secret, bytes, code)
  OBVIOUS
<1>5. mac.secret = secret /\ mac.bytes = bytes /\ mac.code = code
      /\ mac = MacOf(mac.secret, mac.bytes, mac.code)
  BY <1>4 DEF MacOf
<1>6. code \in Codes /\ MacsAreIdeal'
  <2>1. CASE \E m \in macs : m.secret = secret /\ m.bytes = bytes
    <3>1. PICK m \in macs : m.secret = secret /\ m.bytes = bytes /\ code = m.code
      BY <1>1, <2>1 DEF PossibleCodes
    <3>2. m = mac /\ code \in Codes
      BY <1>2, <1>4, <3>1 DEF MacsAreIdeal
    <3>3. macs' = macs
      BY <1>1, <1>4, <3>1, <3>2
    <3>4. QED
      BY <1>2, <3>2, <3>3 DEF MacsAreIdeal
  <2>2. CASE ~ \E m \in macs : m.secret = secret /\ m.bytes = bytes
    <3>1. code \in Codes /\ \A m \in macs : m.code # code
      BY <1>1, <2>2 DEF PossibleCodes
    <3>2. macs' = macs \cup {mac}
      BY <1>1, <1>4
    <3>3. ASSUME NEW m \in macs'
          PROVE  /\ m = MacOf(m.secret, m.bytes, m.code) /\ m.code \in Codes
                 /\ \E p \in Payloads : m.bytes = PayloadBytes(p)
      <4>1. CASE m \in macs
        BY <1>2, <4>1 DEF MacsAreIdeal
      <4>2. CASE m = mac
        BY <1>1, <1>3, <1>5, <3>1, <4>2
      <4>3. QED
        BY <3>2, <4>1, <4>2
    <3>4. ASSUME NEW m \in macs', NEW n \in macs', m.code = n.code PROVE m = n
      <4>1. CASE m \in macs /\ n \in macs
        BY <1>2, <3>4, <4>1 DEF MacsAreIdeal
      <4>2. CASE m = mac \/ n = mac
        BY <1>5, <3>1, <3>2, <3>4, <4>2
      <4>3. QED
        BY <3>2, <4>1, <4>2
    <3>5. QED
      BY <3>1, <3>3, <3>4 DEF MacsAreIdeal
  <2>3. QED
    BY <2>1, <2>2
<1>7. PICK probe : probe = [icmp |-> echo_request(1, 2, Join(bytes, code)),
                            payload |-> payload, target |-> target, secret |-> secret]
  OBVIOUS
<1>8. probe \in Probes
  <2>1. code \in Bytes
    BY <1>6, CodeFacts
  <2>2. PICK body \in Bytes : body = Join(bytes, code)
    BY <1>3, <2>1, JoinFacts
  <2>3. echo_request(1, 2, body) \in Bytes
    BY RequestFacts
  <2>4. QED
    BY <1>3, <1>7, <2>2, <2>3 DEF Probes
<1>9. /\ probes' \in Seq(Probes)
      /\ DOMAIN probes' = 1 .. Len(probes) + 1 /\ DOMAIN probes = 1 .. Len(probes)
      /\ Len(probes) \in Nat
      /\ (\A i \in 1 .. Len(probes) : probes'[i] = probes[i])
      /\ probes'[Len(probes) + 1] = probe
  BY <1>1, <1>2, <1>7, <1>8, Appended
<1>10. ProbesAreSigned'
  <2>1. ASSUME NEW i \in DOMAIN probes'
        PROVE  \E c \in Codes :
                 /\ probes'[i].icmp = echo_request(1, 2, Join(PayloadBytes(probes'[i].payload), c))
                 /\ MacOf(probes'[i].secret, PayloadBytes(probes'[i].payload), c) \in macs'
    <3>1. CASE i = Len(probes) + 1
      <4>1. /\ probe.icmp = echo_request(1, 2, Join(PayloadBytes(probe.payload), code))
            /\ MacOf(probe.secret, PayloadBytes(probe.payload), code) \in macs'
        BY <1>1, <1>7
      <4>2. QED
        BY <1>6, <1>9, <3>1, <4>1
    <3>2. CASE i # Len(probes) + 1
      <4>1. i \in DOMAIN probes /\ probes'[i] = probes[i]
        BY <1>9, <3>2
      <4>2. QED
        BY <1>1, <1>2, <4>1 DEF ProbesAreSigned
    <3>3. QED
      BY <3>1, <3>2
  <2>2. QED
    BY <2>1 DEF ProbesAreSigned
<1>11. SentFirst'
  BY <1>1, <1>2, <1>9 DEF SentFirst
<1>12. AcceptedIsOwn'
  <2>1. PICK origin : Accounts(origin, result_queue, received, probes)
    BY <1>2, AcceptedIsAccounted
  <2>2. probes' = Append(probes, probe)
    BY <1>1, <1>7
  <2>3. Accounts(origin, result_queue, received, probes')
    BY <1>2, <1>8, <2>1, <2>2, OneMoreProbe DEF SentFirst
  <2>4. QED
    BY <1>1, <2>3, AcceptedIsAccountedThen
<1>13. QED
  BY <1>1, <1>2, <1>6, <1>9, <1>10, <1>11, <1>12 DEF PathIInv, PathInv, PathTypeOK

-----------------------------------------------------------------------------
LEMMA InitIsInv == ASSUME Init PROVE PathIInv
<1>1. PathTypeOK
  BY DEF Init, PathTypeOK
<1>2. MacsAreIdeal /\ ProbesAreSigned /\ SentFirst
  BY DEF Init, MacsAreIdeal, ProbesAreSigned, SentFirst
<1>3. AcceptedIsOwn
  <2>1. result_queue = <<>> /\ received = <<>>
    BY DEF Init
  <2>2. DOMAIN result_queue = {} /\ OwnOf(received, probes) = {}
    BY <2>1 DEF OwnOf
  <2>3. PICK origin : origin = [n \in {} |-> n]
    OBVIOUS
  <2>4. Accounts(origin, result_queue, received, probes)
    BY <2>2, <2>3 DEF Accounts
  <2>5. QED
    BY <2>4, AcceptedIsAccounted
<1>4. QED
  BY <1>1, <1>2, <1>3 DEF PathIInv, PathInv

(* Every step. *)
LEMMA NextKeepsInv ==
  ASSUME PathIInv, Next PROVE PathIInv' /\ UNCHANGED receiver
<1>1. CASE \E secret \in {Secret, OtherSecret}, target \in Targets : SendPing(secret, target)
  BY <1>1, SendPingKeepsInv
<1>2. ASSUME NEW i \in DOMAIN probes,
             EchoReply(i) \/ RequestArrives(i) \/ ShortReply(i) \/ ChangedReply(i) \/ Unreachable(i)
      PROVE  PathIInv' /\ UNCHANGED receiver
  BY <1>2, EchoReplyKeepsInv, RequestArrivesKeepsInv, ShortReplyKeepsInv,
     ChangedReplyKeepsInv, UnreachableKeepsInv
<1>3. QED
  BY <1>1, <1>2 DEF Next

LEMMA StutteringKeepsInv ==
  ASSUME PathIInv, UNCHANGED vars PROVE PathIInv' /\ UNCHANGED receiver
<1>1. PathTypeOK' /\ MacsAreIdeal' /\ ProbesAreSigned' /\ SentFirst'
  BY DEF PathIInv, PathInv, vars, PathTypeOK, MacsAreIdeal, ProbesAreSigned, SentFirst
<1>2. AcceptedIsOwn'
  BY AcceptedIsAccounted, AcceptedIsAccountedThen DEF PathIInv, vars
<1>3. QED
  BY <1>1, <1>2 DEF PathIInv, PathInv, vars

(* What the proofs of the properties rest on: the types; no code belongs to  *)
(* two messages, and only payloads have one; every probe holds its payload   *)
(* and the code of it; packets arrive after the probe they answer; and the   *)
(* receiver has survived so far.                                             *)
THEOREM PathInvariant == Spec => [](PathIInv /\ ReceiverSurvives)
<1>1. Init => PathIInv /\ ReceiverSurvives
  BY InitIsInv DEF Init, ReceiverSurvives
<1>2. (PathIInv /\ ReceiverSurvives) /\ [Next]_vars => (PathIInv /\ ReceiverSurvives)'
  BY NextKeepsInv, StutteringKeepsInv DEF ReceiverSurvives
<1>3. QED
  BY <1>1, <1>2, PTL DEF Spec

(* What becomes a result is exactly what this deployment sent, unchanged, in *)
(* the order it arrives, with the payload that was sent: for every secret,   *)
(* every set of payloads and codes, every header and every number of probes  *)
(* and packets.                                                              *)
THEOREM AcceptedResultsAreOwn == Spec => []AcceptedIsOwn
<1>1. PathIInv => AcceptedIsOwn
  BY DEF PathIInv
<1>2. QED
  BY <1>1, PathInvariant, PTL

(* No packet that is whole ends the receiver of ping_inbound.rs.             *)
THEOREM ReceiverIsRunning == Spec => []ReceiverSurvives
BY PathInvariant, PTL

LEMMA SignedRequestsAreValid ==
  ASSUME NEW payload \in Payloads, NEW code \in Codes
  PROVE  ValidICMP(echo_request(1, 2, Join(PayloadBytes(payload), code)))
<1>1. PayloadBytes(payload) \in Seq(Byte)
  BY SerialisationAssumption DEF Byte
<1>2. code \in Seq(Byte)
  BY CodesAssumption DEF Byte
<1>3. PICK body : body = Join(PayloadBytes(payload), code)
  OBVIOUS
<1>4. body \in Seq(Byte)
  BY <1>1, <1>2, <1>3, ConcatProperties DEF Join
<1>5. 1 \in Word /\ 2 \in Word
  BY DEF Word
<1>6. QED
  BY <1>3, <1>4, <1>5, EchoRequestsAreValid

(* A host that checks the checksum of a probe by RFC 1071 finds it right,    *)
(* whatever the payload and its code are.                                    *)
THEOREM ProbesHaveValidChecksums == Spec => []ProbeChecksumIsValid
<1>1. ASSUME PathIInv PROVE ProbeChecksumIsValid
  <2>1. PathTypeOK /\ ProbesAreSigned
    BY <1>1 DEF PathIInv, PathInv
  <2>2. ASSUME NEW i \in DOMAIN probes PROVE ValidICMP(probes[i].icmp)
    <3>1. PICK payload \in Payloads : payload = probes[i].payload
      BY <2>1, ProbeFacts DEF Probes
    <3>2. PICK code \in Codes : probes[i].icmp = echo_request(1, 2, Join(PayloadBytes(payload), code))
      BY <2>1, <3>1 DEF ProbesAreSigned
    <3>3. QED
      BY <3>2, SignedRequestsAreValid
  <2>3. QED
    BY <2>2 DEF ProbeChecksumIsValid
<1>2. PathIInv => ProbeChecksumIsValid
  BY <1>1
<1>3. QED
  BY <1>2, PathInvariant, PTL
=============================================================================
