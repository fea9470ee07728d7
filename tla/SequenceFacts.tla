---------------------------- MODULE SequenceFacts ----------------------------
(* What moving a message from one sequence to the next does to both; what    *)
(* joining, cutting and changing sequences of bytes do.                      *)
EXTENDS Naturals, Sequences, SequenceTheorems, WellFoundedInduction, TLAPS

(* The head of b may be counted at the end of a. *)
LEMMA MoveHead ==
  ASSUME NEW S, NEW a \in Seq(S), NEW b \in Seq(S), b # <<>>
  PROVE  Append(a, Head(b)) \o Tail(b) = a \o b
<1> DEFINE x == Append(a, Head(b))
           y == Tail(b)
<1>1. /\ Head(b) = b[1] /\ Head(b) \in S
      /\ y \in Seq(S) /\ Len(y) = Len(b) - 1
      /\ \A i \in 1 .. Len(y) : y[i] = b[i + 1]
  BY HeadTailProperties
<1>2. /\ x \in Seq(S) /\ Len(x) = Len(a) + 1
      /\ \A i \in 1 .. Len(a) : x[i] = a[i]
      /\ x[Len(a) + 1] = b[1]
  BY <1>1, AppendProperties
<1>3. Len(a) \in Nat /\ Len(b) \in Nat /\ Len(b) > 0
  BY EmptySeq, LenProperties
<1>4. /\ x \o y \in Seq(S) /\ a \o b \in Seq(S)
      /\ Len(x \o y) = Len(a) + Len(b) /\ Len(a \o b) = Len(a) + Len(b)
  BY <1>1, <1>2, <1>3, ConcatProperties
<1>5. ASSUME NEW i \in 1 .. Len(a) + Len(b) PROVE (x \o y)[i] = (a \o b)[i]
  <2>1. (x \o y)[i] = IF i <= Len(a) + 1 THEN x[i] ELSE y[i - (Len(a) + 1)]
    BY <1>1, <1>2, <1>3, ConcatProperties
  <2>2. (a \o b)[i] = IF i <= Len(a) THEN a[i] ELSE b[i - Len(a)]
    BY ConcatProperties
  <2>3. QED
    BY <2>1, <2>2, <1>1, <1>2, <1>3
<1> HIDE DEF x, y
<1>6. x \o y = a \o b
  BY <1>4, <1>5, SeqEqual, Zenon
<1>7. QED
  BY <1>6 DEF x, y

(* Appending to the last part of a concatenation appends to the whole. *)
LEMMA AppendToLast ==
  ASSUME NEW S, NEW a \in Seq(S), NEW b \in Seq(S), NEW m \in S
  PROVE  a \o Append(b, m) = Append(a \o b, m)
<1>1. /\ Append(b, m) = b \o <<m>>
      /\ Append(a \o b, m) = (a \o b) \o <<m>>
      /\ <<m>> \in Seq(S)
  BY AppendIsConcat, ConcatProperties
<1>2. QED
  BY <1>1, ConcatAssociative

(* The first fact inside a concatenation of three. *)
LEMMA MoveHeadOfSecond ==
  ASSUME NEW S, NEW a \in Seq(S), NEW b \in Seq(S), NEW c \in Seq(S), b # <<>>
  PROVE  Append(a, Head(b)) \o (Tail(b) \o c) = a \o (b \o c)
<1>1. /\ Head(b) \in S /\ Tail(b) \in Seq(S)
      /\ Append(a, Head(b)) \in Seq(S)
  BY HeadTailProperties, AppendProperties
<1>2. Append(a, Head(b)) \o (Tail(b) \o c) = (Append(a, Head(b)) \o Tail(b)) \o c
  BY <1>1, ConcatAssociative
<1>3. Append(a, Head(b)) \o Tail(b) = a \o b
  BY MoveHead
<1>4. QED
  BY <1>2, <1>3, ConcatAssociative

(* The message after the first part of a concatenation. *)
LEMMA NextAfter ==
  ASSUME NEW S, NEW a \in Seq(S), NEW b \in Seq(S), b # <<>>
  PROVE  /\ Len(a) < Len(a \o b)
         /\ (a \o b)[Len(a) + 1] = Head(b)
<1>1. Len(a) \in Nat /\ Len(b) \in Nat /\ Len(b) > 0 /\ Head(b) = b[1]
  BY EmptySeq, LenProperties, HeadTailProperties
<1>2. QED
  BY <1>1, ConcatProperties

(* The head of a concatenation is that of its first part, if it has one. *)
LEMMA TakeFirst ==
  ASSUME NEW S, NEW a \in Seq(S), NEW b \in Seq(S), a # <<>>
  PROVE  /\ a \o b # <<>> /\ Head(a \o b) = Head(a) /\ Head(a) \in S
         /\ Tail(a \o b) = Tail(a) \o b
<1> DEFINE c == a \o b
           d == Tail(a)
<1>1. /\ Head(a) = a[1] /\ Head(a) \in S
      /\ d \in Seq(S) /\ Len(d) = Len(a) - 1
      /\ \A i \in 1 .. Len(d) : d[i] = a[i + 1]
      /\ Len(a) \in Nat /\ Len(a) > 0 /\ Len(b) \in Nat
  BY HeadTailProperties, EmptySeq, LenProperties
<1>2. /\ c \in Seq(S) /\ Len(c) = Len(a) + Len(b)
      /\ \A i \in 1 .. Len(a) + Len(b) : c[i] = IF i <= Len(a) THEN a[i] ELSE b[i - Len(a)]
  BY ConcatProperties
<1>3. /\ d \o b \in Seq(S) /\ Len(d \o b) = Len(d) + Len(b)
      /\ \A i \in 1 .. Len(d) + Len(b) :
           (d \o b)[i] = IF i <= Len(d) THEN d[i] ELSE b[i - Len(d)]
  BY <1>1, ConcatProperties
<1> HIDE DEF c, d
<1>4. c # <<>>
  BY <1>1, <1>2, EmptySeq
<1>5. /\ Head(c) = c[1] /\ Tail(c) \in Seq(S) /\ Len(Tail(c)) = Len(c) - 1
      /\ \A i \in 1 .. Len(Tail(c)) : Tail(c)[i] = c[i + 1]
  BY <1>2, <1>4, HeadTailProperties
<1>6. Head(c) = Head(a)
  BY <1>1, <1>2, <1>5
<1>7. ASSUME NEW i \in 1 .. Len(Tail(c)) PROVE Tail(c)[i] = (d \o b)[i]
  <2>1. i + 1 \in 1 .. Len(a) + Len(b) /\ i \in 1 .. Len(d) + Len(b)
    BY <1>1, <1>2, <1>5
  <2>2. (i + 1) - Len(a) = i - Len(d) /\ (i + 1 <= Len(a) <=> i <= Len(d))
    BY <1>1, <2>1
  <2>3. Tail(c)[i] = IF i + 1 <= Len(a) THEN a[i + 1] ELSE b[(i + 1) - Len(a)]
    BY <1>2, <1>5, <2>1
  <2>4. (d \o b)[i] = IF i <= Len(d) THEN d[i] ELSE b[i - Len(d)]
    BY <1>3, <2>1
  <2>5. i <= Len(d) => d[i] = a[i + 1]
    BY <1>1, <2>1
  <2>6. QED
    BY <2>2, <2>3, <2>4, <2>5
<1>8. Len(Tail(c)) = Len(d \o b)
  BY <1>1, <1>2, <1>3, <1>5
<1>9. Tail(c) = d \o b
  BY <1>3, <1>5, <1>7, <1>8, SeqEqual, Zenon
<1>10. QED
  BY <1>1, <1>4, <1>6, <1>9 DEF c, d

(* What taking the head leaves. *)
LEMMA TailFacts ==
  ASSUME NEW S, NEW q \in Seq(S), q # <<>>
  PROVE  /\ Tail(q) \in Seq(S) /\ Len(q) \in Nat \ {0} /\ Len(Tail(q)) = Len(q) - 1
         /\ \A i \in 1 .. Len(q) - 1 : Tail(q)[i] = q[i + 1]
         /\ Head(q) = q[1] /\ q[1] \in S
BY HeadTailProperties, EmptySeq, LenProperties, ElementOfSeq

(* What appending an element does. *)
LEMMA Appended ==
  ASSUME NEW S, NEW s \in Seq(S), NEW e \in S, NEW t, t = Append(s, e)
  PROVE  /\ t \in Seq(S) /\ Len(s) \in Nat /\ Len(t) = Len(s) + 1
         /\ DOMAIN s = 1 .. Len(s) /\ DOMAIN t = 1 .. Len(s) + 1
         /\ \A i \in 1 .. Len(s) : t[i] = s[i]
         /\ t[Len(s) + 1] = e
<1>1. /\ t \in Seq(S) /\ Len(t) = Len(s) + 1
      /\ \A i \in 1 .. Len(s) : t[i] = s[i]
      /\ t[Len(s) + 1] = e
  BY AppendProperties
<1>2. DOMAIN s = 1 .. Len(s) /\ DOMAIN t = 1 .. Len(t) /\ Len(s) \in Nat
  BY <1>1, LenProperties
<1>3. QED
  BY <1>1, <1>2

-----------------------------------------------------------------------------
(* Induction on natural numbers, with a set of them in place of a predicate. *)
LEMMA Induction ==
  ASSUME NEW N \in Nat, NEW T, 0 \in T,
         \A n \in 0 .. N : n \in T /\ n < N => n + 1 \in T
  PROVE  0 .. N \subseteq T
<1> DEFINE R == {ss \in Nat \X Nat : ss[1] < ss[2]}
           Out == {n \in 0 .. N : n \notin T}
<1>1. IsWellFoundedOn(R, Nat)
  BY NatLessThanWellFounded DEF OpToRel
<1>2. \A x, y \in Nat : y < x => <<y, x>> \in R
  OBVIOUS
<1>3. Out \subseteq Nat
  OBVIOUS
<1>4. SUFFICES ASSUME Out # {} PROVE FALSE
  OBVIOUS
<1> HIDE DEF R
<1>5. PICK m \in Out : \A n \in Out : ~ (<<n, m>> \in R)
  <2> HIDE DEF Out
  <2>1. QED
    BY <1>1, <1>3, <1>4, WFMin
<1>6. m \in 0 .. N /\ m \notin T /\ m # 0
  BY <1>5
<1>7. m - 1 \in 0 .. N /\ m - 1 < N /\ (m - 1) + 1 = m /\ m - 1 < m /\ m \in Nat /\ m - 1 \in Nat
  BY <1>6
<1>8. m - 1 \notin Out
  BY <1>2, <1>5, <1>7
<1>9. QED
  BY <1>6, <1>7, <1>8

(* A function on 0 .. N may be given by its first value and by the step from  *)
(* each value to the next.                                                   *)
Stepwise(N, X, first, step) ==
  \E f \in [0 .. N -> X] :
    f = [n \in 0 .. N |-> IF n = 0 THEN first ELSE step[n][f[n - 1]]]

LEMMA StepByStep ==
  ASSUME NEW N \in Nat, NEW X, NEW first \in X, NEW step \in [1 .. N -> [X -> X]]
  PROVE  Stepwise(N, X, first, step)
<1> DEFINE Steps(f, k) == /\ f \in [0 .. k -> X]
                          /\ f[0] = first
                          /\ \A n \in 1 .. k : f[n] = step[n][f[n - 1]]
           T == {k \in 0 .. N : \E f : Steps(f, k)}
<1>1. 0 \in T
  <2> DEFINE h == [n \in 0 .. 0 |-> first]
  <2>1. Steps(h, 0)
    OBVIOUS
  <2> HIDE DEF h
  <2>2. QED
    BY <2>1
<1>2. ASSUME NEW k \in 0 .. N, k \in T, k < N
      PROVE  k + 1 \in T
  <2>1. PICK f : Steps(f, k)
    BY <1>2
  <2> DEFINE g == [n \in 0 .. k + 1 |-> IF n = k + 1 THEN step[k + 1][f[k]] ELSE f[n]]
  <2>2. step[k + 1][f[k]] \in X
    BY <1>2, <2>1
  <2>3. g \in [0 .. k + 1 -> X]
    BY <2>1, <2>2
  <2>4. g[0] = first
    BY <2>1
  <2>5. ASSUME NEW n \in 1 .. k + 1 PROVE g[n] = step[n][g[n - 1]]
    <3>1. CASE n = k + 1
      BY <3>1
    <3>2. CASE n # k + 1
      <4>1. n \in 1 .. k /\ n - 1 \in 0 .. k /\ n - 1 # k + 1
        BY <3>2
      <4>2. g[n] = f[n] /\ g[n - 1] = f[n - 1]
        BY <4>1
      <4>3. QED
        BY <2>1, <4>1, <4>2
    <3>3. QED
      BY <3>1, <3>2
  <2> HIDE DEF g
  <2>6. Steps(g, k + 1)
    BY <2>3, <2>4, <2>5
  <2>7. QED
    BY <1>2, <2>6
<1>3. 0 .. N \subseteq T
  <2> HIDE DEF T
  <2>1. QED
    BY <1>1, <1>2, Induction
<1>4. PICK f : Steps(f, N)
  BY <1>3
<1>5. f = [n \in 0 .. N |-> IF n = 0 THEN first ELSE step[n][f[n - 1]]]
  <2>1. \A n \in 0 .. N : f[n] = IF n = 0 THEN first ELSE step[n][f[n - 1]]
    BY <1>4
  <2>2. f = [n \in 0 .. N |-> f[n]]
    BY <1>4
  <2> HIDE DEF Steps
  <2>3. QED
    BY <2>1, <2>2
<1>6. QED
  BY <1>4, <1>5 DEF Stepwise

(* A function may be given by what each of its values is made of, if that    *)
(* has a lower rank: step[x] makes the value at x from those below x.        *)
Recursive(D, S, below, step) ==
  \E f \in [D -> S] : f = [x \in D |-> step[x][[y \in below[x] |-> f[y]]]]

LEMMA RecursionByRank ==
  ASSUME NEW D, NEW S, NEW rank \in [D -> Nat], NEW below \in [D -> SUBSET D], NEW step,
         \A x \in D : \A y \in below[x] : rank[y] < rank[x],
         \A x \in D : \A g \in [below[x] -> S] : step[x][g] \in S
  PROVE  Recursive(D, S, below, step)
<1> DEFINE Under(n) == {x \in D : rank[x] < n}
           Solves(f, n) ==
             /\ f \in [Under(n) -> S]
             /\ \A x \in Under(n) : f[x] = step[x][[y \in below[x] |-> f[y]]]
           Same(f, g, m, n, r) ==
             Solves(f, m) /\ Solves(g, n)
             => \A x \in D : rank[x] < r /\ rank[x] < m /\ rank[x] < n => f[x] = g[x]
           Agree(r) == \A m \in Nat, n \in Nat : \A f, g : Same(f, g, m, n, r)
           Agreed(N) == {k \in 0 .. N : Agree(k)}
           Solved(N) == {n \in 0 .. N : \E f : Solves(f, n)}
<1>1. \A x \in D : rank[x] \in Nat /\ below[x] \subseteq D
  OBVIOUS
<1>2. ASSUME NEW n \in Nat, NEW x \in Under(n) PROVE below[x] \subseteq Under(n)
  BY <1>1
<1>3. ASSUME NEW k \in Nat, Agree(k) PROVE Agree(k + 1)
  <2>1. ASSUME NEW m \in Nat, NEW n \in Nat, NEW f, NEW g, Solves(f, m), Solves(g, n),
               NEW x \in D, rank[x] < k + 1, rank[x] < m, rank[x] < n
        PROVE  f[x] = g[x]
    <3>1. ASSUME NEW y \in below[x] PROVE f[y] = g[y]
      <4>1. y \in D /\ rank[y] < rank[x] /\ rank[y] \in Nat /\ rank[x] \in Nat
        BY <1>1
      <4>2. rank[y] < k /\ rank[y] < m /\ rank[y] < n
        BY <2>1, <4>1
      <4>3. Same(f, g, m, n, k)
        <5> HIDE DEF Same
        <5>1. QED
          BY <1>3
      <4> HIDE DEF Solves
      <4>4. QED
        BY <2>1, <4>1, <4>2, <4>3, Zenon
    <3>2. [y \in below[x] |-> f[y]] = [y \in below[x] |-> g[y]]
      BY <3>1, Zenon
    <3>3. f[x] = step[x][[y \in below[x] |-> f[y]]] /\ g[x] = step[x][[y \in below[x] |-> g[y]]]
      BY <2>1, Zenon
    <3>4. QED
      BY <3>2, <3>3, Zenon
  <2>2. ASSUME NEW m \in Nat, NEW n \in Nat, NEW f, NEW g PROVE Same(f, g, m, n, k + 1)
    <3> HIDE DEF Solves
    <3>1. SUFFICES ASSUME Solves(f, m), Solves(g, n)
                   PROVE  \A x \in D : rank[x] < k + 1 /\ rank[x] < m /\ rank[x] < n => f[x] = g[x]
      OBVIOUS
    <3>2. ASSUME NEW x \in D, rank[x] < k + 1, rank[x] < m, rank[x] < n PROVE f[x] = g[x]
      BY <2>1, <3>1, <3>2
    <3>3. QED
      BY <3>2
  <2> HIDE DEF Same
  <2>3. QED
    BY <2>2
<1>4. Agree(0)
  BY <1>1
<1>5. ASSUME NEW N \in Nat PROVE Agree(N)
  <2> HIDE DEF Agree
  <2>1. 0 \in Agreed(N) /\ \A n \in 0 .. N : n \in Agreed(N) /\ n < N => n + 1 \in Agreed(N)
    BY <1>3, <1>4
  <2> HIDE DEF Agreed
  <2>2. 0 .. N \subseteq Agreed(N)
    BY <2>1, Induction
  <2>3. N \in 0 .. N
    OBVIOUS
  <2>4. QED
    BY <2>2, <2>3 DEF Agreed
<1>6. \E f : Solves(f, 0)
  <2>1. Under(0) = {}
    BY <1>1
  <2> DEFINE f == [x \in {} |-> 0]
  <2>2. f \in [{} -> S]
    OBVIOUS
  <2> HIDE DEF f
  <2>3. Solves(f, 0)
    BY <2>1, <2>2
  <2>4. QED
    BY <2>3
<1>7. ASSUME NEW n \in Nat, NEW f, Solves(f, n) PROVE \E g : Solves(g, n + 1)
  <2> DEFINE g == [x \in Under(n + 1) |-> step[x][[y \in below[x] |-> f[y]]]]
  <2>1. ASSUME NEW x \in Under(n + 1), NEW y \in below[x] PROVE y \in Under(n) /\ y \in Under(n + 1)
    <3>1. x \in D /\ y \in D /\ rank[y] < rank[x] /\ rank[y] \in Nat /\ rank[x] \in Nat /\ rank[x] < n + 1
      BY <1>1
    <3>2. QED
      BY <3>1
  <2>2. ASSUME NEW x \in Under(n) PROVE x \in Under(n + 1) /\ g[x] = f[x]
    <3>1. x \in Under(n + 1)
      BY <1>1
    <3>2. f[x] = step[x][[y \in below[x] |-> f[y]]]
      BY <1>7, Zenon
    <3>3. QED
      BY <3>1, <3>2
  <2>3. ASSUME NEW x \in Under(n + 1) PROVE [y \in below[x] |-> g[y]] = [y \in below[x] |-> f[y]]
    <3> HIDE DEF g
    <3>1. QED
      BY <2>1, <2>2
  <2>4. ASSUME NEW x \in Under(n + 1) PROVE g[x] \in S
    <3>1. [y \in below[x] |-> f[y]] \in [below[x] -> S]
      <4>1. \A y \in below[x] : f[y] \in S
        BY <1>7, <2>1
      <4>2. QED
        BY <4>1
    <3>2. x \in D
      OBVIOUS
    <3>3. step[x][[y \in below[x] |-> f[y]]] \in S
      BY <3>1, <3>2, Zenon
    <3>4. QED
      BY <3>3
  <2>5. \A x \in Under(n + 1) : g[x] = step[x][[y \in below[x] |-> f[y]]]
    OBVIOUS
  <2>6. g \in [Under(n + 1) -> S]
    BY <2>4
  <2> HIDE DEF g
  <2>7. Solves(g, n + 1)
    BY <2>3, <2>5, <2>6, Zenon
  <2>8. QED
    BY <2>7
<1>8. ASSUME NEW N \in Nat PROVE \E f : Solves(f, N)
  <2> HIDE DEF Solves
  <2>1. 0 \in Solved(N) /\ \A n \in 0 .. N : n \in Solved(N) /\ n < N => n + 1 \in Solved(N)
    BY <1>6, <1>7
  <2> HIDE DEF Solved
  <2>2. 0 .. N \subseteq Solved(N)
    BY <2>1, Induction
  <2>3. N \in 0 .. N
    OBVIOUS
  <2>4. QED
    BY <2>2, <2>3 DEF Solved
<1> DEFINE Solution(n) == CHOOSE f : Solves(f, n)
           h == [x \in D |-> Solution(rank[x] + 1)[x]]
<1>9. ASSUME NEW n \in Nat PROVE Solves(Solution(n), n)
  <2> HIDE DEF Solves
  <2>1. QED
    BY <1>8
<1>10. ASSUME NEW x \in D, NEW y \in below[x] PROVE h[y] = Solution(rank[x] + 1)[y]
  <2>1. y \in D /\ rank[y] \in Nat /\ rank[x] \in Nat /\ rank[y] < rank[x]
    BY <1>1
  <2>2. PICK m \in Nat, n \in Nat, k \in Nat : m = rank[y] + 1 /\ n = rank[x] + 1 /\ k = rank[y] + 1
    BY <2>1
  <2>3. Solves(Solution(m), m) /\ Solves(Solution(n), n)
    BY <1>9
  <2> HIDE DEF Solves, Solution
  <2>4. rank[y] < k /\ rank[y] < m /\ rank[y] < n
    BY <2>1, <2>2
  <2>5. Agree(k)
    BY <1>5
  <2>6. rank[y] < n
    BY <2>1, <2>2
  <2>7. Solution(m)[y] = Solution(n)[y]
    <3>1. Same(Solution(m), Solution(n), m, n, k)
      <4> HIDE DEF Same
      <4>1. QED
        BY <2>5
    <3>2. QED
      BY <2>1, <2>3, <2>4, <2>6, <3>1, Zenon
  <2>8. h[y] = Solution(m)[y]
    BY <2>1, <2>2
  <2>9. QED
    BY <2>2, <2>7, <2>8
<1>11. ASSUME NEW x \in D
       PROVE  h[x] \in S /\ h[x] = step[x][[y \in below[x] |-> h[y]]]
  <2>1. PICK n \in Nat : n = rank[x] + 1
    BY <1>1
  <2>2. Solves(Solution(n), n)
    BY <1>9
  <2>3. PICK f : f = Solution(n)
    OBVIOUS
  <2>4. h[x] = f[x] /\ \A y \in below[x] : h[y] = f[y]
    <3> HIDE DEF Solution
    <3>1. h[x] = Solution(n)[x]
      BY <2>1
    <3>2. \A y \in below[x] : h[y] = Solution(n)[y]
      BY <1>10, <2>1
    <3>3. QED
      BY <2>3, <3>1, <3>2
  <2> HIDE DEF h, Solution
  <2>5. [y \in below[x] |-> h[y]] = [y \in below[x] |-> f[y]]
    BY <2>4
  <2>6. x \in Under(n)
    BY <1>1, <2>1
  <2>7. f[x] \in S /\ f[x] = step[x][[y \in below[x] |-> f[y]]]
    BY <2>2, <2>3, <2>6
  <2>8. QED
    BY <2>4, <2>5, <2>7
<1>12. h \in [D -> S] /\ h = [x \in D |-> h[x]]
  <2>1. h = [x \in D |-> h[x]]
    OBVIOUS
  <2> HIDE DEF h
  <2>2. \A x \in D : h[x] \in S
    BY <1>11
  <2>3. QED
    BY <2>1, <2>2
<1> HIDE DEF h
<1>13. h = [x \in D |-> step[x][[y \in below[x] |-> h[y]]]]
  BY <1>11, <1>12, Zenon
<1>14. QED
  BY <1>12, <1>13 DEF Recursive

(* Induction over the ranks of the elements of a set.                        *)
LEMMA InductionByRank ==
  ASSUME NEW D, NEW rank \in [D -> Nat], NEW T,
         \A x \in D : (\A y \in D : rank[y] < rank[x] => y \in T) => x \in T
  PROVE  D \subseteq T
<1> DEFINE Reached(N) == {n \in 0 .. N : \A x \in D : rank[x] < n => x \in T}
<1>1. \A x \in D : rank[x] \in Nat
  OBVIOUS
<1>2. ASSUME NEW N \in Nat PROVE 0 .. N \subseteq Reached(N)
  <2>1. 0 \in Reached(N)
    BY <1>1
  <2>2. ASSUME NEW n \in 0 .. N, n \in Reached(N), n < N PROVE n + 1 \in Reached(N)
    <3>1. ASSUME NEW x \in D, rank[x] < n + 1 PROVE x \in T
      <4>1. \A y \in D : rank[y] < rank[x] => y \in T
        BY <1>1, <2>2, <3>1
      <4>2. QED
        BY <4>1
    <3>2. QED
      BY <2>2, <3>1
  <2> HIDE DEF Reached
  <2>3. QED
    BY <2>1, <2>2, Induction
<1>3. ASSUME NEW x \in D PROVE x \in T
  <2>1. PICK N \in Nat : N = rank[x] + 1
    BY <1>1
  <2>2. N \in Reached(N)
    BY <1>2
  <2>3. QED
    BY <1>1, <2>1, <2>2
<1>4. QED
  BY <1>3

-----------------------------------------------------------------------------
(* What joining two sequences does. *)
LEMMA Joined ==
  ASSUME NEW S, NEW a \in Seq(S), NEW b \in Seq(S)
  PROVE  /\ a \o b \in Seq(S) /\ Len(a \o b) = Len(a) + Len(b)
         /\ \A j \in 1 .. Len(a) : (a \o b)[j] = a[j]
         /\ \A j \in 1 .. Len(b) : (a \o b)[Len(a) + j] = b[j]
<1>1. /\ a \o b \in Seq(S) /\ Len(a \o b) = Len(a) + Len(b)
      /\ \A j \in 1 .. Len(a) + Len(b) : (a \o b)[j] = IF j <= Len(a) THEN a[j] ELSE b[j - Len(a)]
  BY ConcatProperties
<1>2. Len(a) \in Nat /\ Len(b) \in Nat
  BY LenProperties
<1>3. \A j \in 1 .. Len(a) : (a \o b)[j] = a[j]
  BY <1>1, <1>2
<1>4. ASSUME NEW j \in 1 .. Len(b) PROVE (a \o b)[Len(a) + j] = b[j]
  <2>1. PICK k \in Nat : k = Len(a) + j
    BY <1>2
  <2>2. k \in 1 .. Len(a) + Len(b) /\ ~ (k <= Len(a)) /\ k - Len(a) = j
    BY <1>2, <2>1
  <2>3. (a \o b)[k] = b[j]
    BY <1>1, <2>2
  <2>4. QED
    BY <2>1, <2>3
<1>5. QED
  BY <1>1, <1>3, <1>4

(* Joining and cutting.  Bytes, Join and Cut keep the provers from taking    *)
(* sequences apart element by element.                                       *)
Bytes == Seq(Nat)
Join(a, b) == a \o b
Cut(a, m, n) == SubSeq(a, m, n)

LEMMA BytesLength == ASSUME NEW a \in Bytes PROVE Len(a) \in Nat
BY LenProperties DEF Bytes

LEMMA BytesElement == ASSUME NEW a \in Bytes, NEW i \in 1 .. Len(a) PROVE a[i] \in Nat
BY ElementOfSeq DEF Bytes

(* The elements of a join. *)
LEMMA JoinFacts ==
  ASSUME NEW a \in Bytes, NEW b \in Bytes
  PROVE  /\ Join(a, b) \in Bytes /\ Len(Join(a, b)) = Len(a) + Len(b)
         /\ \A j \in 1 .. Len(a) : Join(a, b)[j] = a[j]
         /\ \A j \in 1 .. Len(b) : Join(a, b)[Len(a) + j] = b[j]
BY Joined DEF Bytes, Join

LEMMA JoinAssociative ==
  ASSUME NEW a \in Bytes, NEW b \in Bytes, NEW c \in Bytes
  PROVE  Join(Join(a, b), c) = Join(a, Join(b, c))
BY ConcatAssociative DEF Bytes, Join

(* The elements of a part. *)
LEMMA CutFacts ==
  ASSUME NEW a \in Bytes, NEW m \in Nat \ {0}, NEW n \in Nat, n <= Len(a)
  PROVE  /\ Cut(a, m, n) \in Bytes
         /\ Len(Cut(a, m, n)) = IF m <= n THEN (n - m) + 1 ELSE 0
         /\ \A i \in 1 .. (n - m) + 1 : Cut(a, m, n)[i] = a[(m + i) - 1]
<1>1. Len(a) \in Nat /\ \A i \in 1 .. Len(a) : a[i] \in Nat
  BY BytesLength, BytesElement
<1>2. \A i \in m .. n : a[i] \in Nat
  BY <1>1
<1>3. /\ SubSeq(a, m, n) \in Seq(Nat)
      /\ Len(SubSeq(a, m, n)) = IF m <= n THEN n - m + 1 ELSE 0
      /\ \A i \in 1 .. n - m + 1 : SubSeq(a, m, n)[i] = a[m + i - 1]
  BY <1>2, SubSeqProperties
<1>4. QED
  BY <1>3 DEF Cut, Bytes

(* Sequences with the same elements are the same. *)
LEMMA SameBytes ==
  ASSUME NEW a \in Bytes, NEW b \in Bytes, Len(a) = Len(b),
         \A i \in 1 .. Len(a) : a[i] = b[i]
  PROVE  a = b
BY SeqEqual DEF Bytes

(* The beginning of a join is that of its first part. *)
LEMMA CutFirst ==
  ASSUME NEW a \in Bytes, NEW b \in Bytes, NEW n \in Nat, n <= Len(a)
  PROVE  Cut(Join(a, b), 1, n) = Cut(a, 1, n)
<1>1. PICK c \in Bytes : c = Join(a, b)
  BY JoinFacts
<1>2. /\ Len(a) \in Nat /\ Len(b) \in Nat /\ Len(c) = Len(a) + Len(b)
      /\ \A j \in 1 .. Len(a) : c[j] = a[j]
  BY <1>1, JoinFacts, BytesLength
<1>3. n <= Len(c)
  BY <1>2
<1>4. PICK x \in Bytes : x = Cut(c, 1, n) /\ Len(x) = n /\ \A i \in 1 .. n : x[i] = c[i]
  <2>1. /\ Cut(c, 1, n) \in Bytes
        /\ Len(Cut(c, 1, n)) = IF 1 <= n THEN (n - 1) + 1 ELSE 0
        /\ \A i \in 1 .. (n - 1) + 1 : Cut(c, 1, n)[i] = c[(1 + i) - 1]
    BY <1>3, CutFacts
  <2>2. QED
    BY <2>1
<1>5. PICK y \in Bytes : y = Cut(a, 1, n) /\ Len(y) = n /\ \A i \in 1 .. n : y[i] = a[i]
  <2>1. /\ Cut(a, 1, n) \in Bytes
        /\ Len(Cut(a, 1, n)) = IF 1 <= n THEN (n - 1) + 1 ELSE 0
        /\ \A i \in 1 .. (n - 1) + 1 : Cut(a, 1, n)[i] = a[(1 + i) - 1]
    BY CutFacts
  <2>2. QED
    BY <2>1
<1>6. x = y
  <2>1. \A i \in 1 .. Len(x) : x[i] = y[i]
    BY <1>2, <1>4, <1>5
  <2>2. QED
    BY <1>4, <1>5, <2>1, SameBytes
<1>7. QED
  BY <1>1, <1>4, <1>5, <1>6

LEMMA CutAll ==
  ASSUME NEW a \in Bytes
  PROVE  Cut(a, 1, Len(a)) = a
BY SubSeqFull DEF Cut, Bytes

(* A part of given length, after the first m elements. *)
LEMMA CutAfter ==
  ASSUME NEW c \in Bytes, NEW m \in Nat, NEW n \in Nat, m + n <= Len(c)
  PROVE  /\ Cut(c, m + 1, m + n) \in Bytes /\ Len(Cut(c, m + 1, m + n)) = n
         /\ \A i \in 1 .. n : Cut(c, m + 1, m + n)[i] = c[m + i]
<1>1. m + 1 \in Nat \ {0} /\ m + n \in Nat
  OBVIOUS
<1>2. /\ Cut(c, m + 1, m + n) \in Bytes
      /\ Len(Cut(c, m + 1, m + n)) = IF m + 1 <= m + n THEN ((m + n) - (m + 1)) + 1 ELSE 0
      /\ \A i \in 1 .. ((m + n) - (m + 1)) + 1 :
           Cut(c, m + 1, m + n)[i] = c[((m + 1) + i) - 1]
  BY <1>1, CutFacts
<1>3. ((m + n) - (m + 1)) + 1 = n /\ (m + 1 <= m + n <=> n > 0)
  OBVIOUS
<1>4. \A i \in 1 .. n : ((m + 1) + i) - 1 = m + i
  OBVIOUS
<1>5. QED
  BY <1>2, <1>3, <1>4

(* The second part is cut off again. *)
LEMMA CutSecond ==
  ASSUME NEW a \in Bytes, NEW b \in Bytes
  PROVE  Cut(Join(a, b), Len(a) + 1, Len(a) + Len(b)) = b
<1>1. PICK c \in Bytes : c = Join(a, b)
  BY JoinFacts
<1>2. PICK m \in Nat : m = Len(a)
  BY BytesLength
<1>3. PICK n \in Nat : n = Len(b)
  BY BytesLength
<1>4. Len(c) = m + n /\ \A j \in 1 .. n : c[m + j] = b[j]
  BY <1>1, <1>2, <1>3, JoinFacts
<1>5. PICK x \in Bytes : /\ x = Cut(c, m + 1, m + n) /\ Len(x) = n
                         /\ \A i \in 1 .. n : x[i] = c[m + i]
  <2>1. m + n <= Len(c)
    BY <1>4
  <2>2. /\ Cut(c, m + 1, m + n) \in Bytes /\ Len(Cut(c, m + 1, m + n)) = n
        /\ \A i \in 1 .. n : Cut(c, m + 1, m + n)[i] = c[m + i]
    BY <2>1, CutAfter
  <2>3. QED
    BY <2>2
<1>6. \A i \in 1 .. Len(x) : x[i] = b[i]
  BY <1>4, <1>5
<1>7. x = b
  BY <1>3, <1>5, <1>6, SameBytes
<1>8. QED
  BY <1>1, <1>2, <1>3, <1>5, <1>7

(* The middle of three parts is cut out again. *)
LEMMA CutMiddle ==
  ASSUME NEW a \in Bytes, NEW b \in Bytes, NEW c \in Bytes
  PROVE  Cut(Join(a, Join(b, c)), Len(a) + 1, Len(a) + Len(b)) = b
<1>1. PICK x \in Bytes : x = Join(b, c)
  BY JoinFacts
<1>2. PICK d \in Bytes : d = Join(a, b)
  BY JoinFacts
<1>3. Join(a, x) = Join(d, c)
  BY <1>1, <1>2, JoinAssociative
<1>4. PICK m \in Nat : m = Len(a)
  BY BytesLength
<1>5. PICK n \in Nat : n = Len(b)
  BY BytesLength
<1>6. Len(d) = m + n
  BY <1>2, <1>4, <1>5, JoinFacts
<1>7. PICK y \in Bytes : y = Join(d, c)
  BY JoinFacts
<1>8. Len(y) = Len(d) + Len(c) /\ Len(c) \in Nat
  BY <1>7, JoinFacts, BytesLength
<1>9. \A j \in 1 .. m + n : y[j] = d[j]
  <2>1. \A j \in 1 .. Len(d) : Join(d, c)[j] = d[j]
    BY JoinFacts
  <2>2. QED
    BY <1>6, <1>7, <2>1
<1>10. \A j \in 1 .. n : d[m + j] = b[j]
  <2>1. \A j \in 1 .. Len(b) : Join(a, b)[Len(a) + j] = b[j]
    BY JoinFacts
  <2>2. QED
    BY <1>2, <1>4, <1>5, <2>1
<1>11. PICK z \in Bytes : /\ z = Cut(y, m + 1, m + n) /\ Len(z) = n
                          /\ \A i \in 1 .. n : z[i] = y[m + i]
  BY <1>6, <1>8, CutAfter
<1>12. \A i \in 1 .. Len(z) : z[i] = b[i]
  <2>1. \A i \in 1 .. n : m + i \in 1 .. m + n
    OBVIOUS
  <2>2. QED
    BY <1>9, <1>10, <1>11, <2>1
<1>13. z = b
  BY <1>5, <1>11, <1>12, SameBytes
<1>14. QED
  BY <1>1, <1>3, <1>4, <1>5, <1>7, <1>11, <1>13

(* Every sequence is the join of its beginning and the rest. *)
CutAt(x, m, n, a, b) ==
  /\ a \in Bytes /\ a = Cut(x, 1, m) /\ Len(a) = m /\ \A i \in 1 .. m : a[i] = x[i]
  /\ b \in Bytes /\ Len(b) = n /\ \A i \in 1 .. n : b[i] = x[m + i]
  /\ x = Join(a, b)

LEMMA CutInTwo ==
  ASSUME NEW x \in Bytes, NEW m \in Nat, NEW n \in Nat, Len(x) = m + n
  PROVE  \E a, b : CutAt(x, m, n, a, b)
<1>1. PICK k \in Nat : k = 0
  OBVIOUS
<1>2. PICK a \in Bytes : a = Cut(x, 1, m) /\ Len(a) = m /\ \A i \in 1 .. m : a[i] = x[i]
  <2>1. k + m <= Len(x)
    BY <1>1
  <2>2. /\ Cut(x, k + 1, k + m) \in Bytes /\ Len(Cut(x, k + 1, k + m)) = m
        /\ \A i \in 1 .. m : Cut(x, k + 1, k + m)[i] = x[k + i]
    BY <2>1, CutAfter
  <2>3. QED
    BY <1>1, <2>2
<1>3. PICK b \in Bytes : Len(b) = n /\ \A i \in 1 .. n : b[i] = x[m + i]
  <2>1. m + n <= Len(x)
    OBVIOUS
  <2>2. /\ Cut(x, m + 1, m + n) \in Bytes /\ Len(Cut(x, m + 1, m + n)) = n
        /\ \A i \in 1 .. n : Cut(x, m + 1, m + n)[i] = x[m + i]
    BY <2>1, CutAfter
  <2>3. QED
    BY <2>2
<1>4. PICK y \in Bytes : y = Join(a, b)
  BY JoinFacts
<1>5. /\ Len(y) = m + n /\ \A i \in 1 .. m : y[i] = a[i]
      /\ \A i \in 1 .. n : y[m + i] = b[i]
  <2>1. /\ Len(Join(a, b)) = Len(a) + Len(b)
        /\ \A i \in 1 .. Len(a) : Join(a, b)[i] = a[i]
        /\ \A i \in 1 .. Len(b) : Join(a, b)[Len(a) + i] = b[i]
    BY JoinFacts
  <2>2. QED
    BY <1>2, <1>3, <1>4, <2>1
<1>6. \A i \in 1 .. Len(x) : x[i] = y[i]
  <2>1. ASSUME NEW i \in 1 .. Len(x) PROVE x[i] = y[i]
    <3>1. CASE i <= m
      BY <1>2, <1>5, <3>1
    <3>2. CASE i > m
      <4>1. PICK j \in 1 .. n : i = m + j
        <5>1. i - m \in 1 .. n /\ i = m + (i - m)
          BY <3>2
        <5>2. QED
          BY <5>1
      <4>2. QED
        BY <1>3, <1>5, <4>1
    <3>3. QED
      BY <3>1, <3>2
  <2>2. QED
    BY <2>1
<1>7. x = y
  BY <1>5, <1>6, SameBytes
<1>8. CutAt(x, m, n, a, b)
  BY <1>2, <1>3, <1>4, <1>7 DEF CutAt
<1>9. QED
  BY <1>8

(* One element is changed. *)
Changed(z, k, x) == [z EXCEPT ![k] = x]

LEMMA OneChanged ==
  ASSUME NEW z \in Bytes, NEW k \in 1 .. Len(z), NEW x \in Nat
  PROVE  /\ Changed(z, k, x) \in Bytes /\ Len(Changed(z, k, x)) = Len(z)
         /\ \A i \in 1 .. Len(z) : Changed(z, k, x)[i] = IF i = k THEN x ELSE z[i]
BY ExceptSeq DEF Bytes, Changed
=============================================================================
