----------------------------- MODULE ListLemmas -----------------------------
(***************************************************************************)
(* Facts about the operators of sequences, sets and numbers that the       *)
(* models are built from: least and largest elements, taking out of and    *)
(* putting into a sequence, counting, powers of two.                       *)
(***************************************************************************)
EXTENDS Links, Integers, SequencesExt, FiniteSetTheorems, FunctionTheorems,
        SequenceTheorems, TLAPS

----------------------------------------------------------------------------
(* Least and largest elements.                                             *)

\* A set of natural numbers that is not empty has a least element.
LEMMA MinFacts ==
  ASSUME NEW S, S \subseteq Nat, S # {}
  PROVE  Min(S) \in S /\ \A y \in S : Min(S) <= y
  <1> DEFINE R == {p \in Nat \X Nat : p[1] < p[2]}
  <1>1. IsWellFoundedOn(R, Nat) BY NatLessThanWellFounded DEF OpToRel
  <1> HIDE DEF R
  <1>2. PICK x \in S : \A y \in S : ~ (<<y, x>> \in R) BY <1>1, WFMin
  <1>3. ASSUME NEW y \in S PROVE x <= y
    <2>1. <<y, x>> \notin R BY <1>2
    <2>2. <<y, x>> \in Nat \X Nat /\ <<y, x>>[1] = y /\ <<y, x>>[2] = x OBVIOUS
    <2>3. ~ (y < x) BY <2>1, <2>2 DEF R
    <2>4. x \in Nat /\ y \in Nat OBVIOUS
    <2> QED BY <2>3, <2>4
  <1> QED BY <1>2, <1>3 DEF Min

\* Induction: a set of natural numbers that has 0 and with a number the next
\* one has all of them.
LEMMA SetInduction ==
  ASSUME NEW S, 0 \in S, \A n \in Nat : n \in S => n + 1 \in S
  PROVE  Nat \subseteq S
  <1> DEFINE Missing == Nat \ S
  <1>1. SUFFICES ASSUME Missing # {} PROVE FALSE OBVIOUS
  <1> DEFINE m == Min(Missing)
  <1>2. m \in Missing /\ \A y \in Missing : m <= y BY <1>1, MinFacts
  <1> HIDE DEF m
  <1>3. m # 0 BY <1>2
  <1>4. m - 1 \in Nat /\ m - 1 \notin Missing BY <1>2, <1>3
  <1>5. m - 1 + 1 \in S BY <1>4
  <1> QED BY <1>2, <1>5

\* f is defined by recursion along 1 .. n: it starts with x, and G says what
\* follows from the value before and the number.
Recursion(f, n, D, x, G) ==
  /\ f \in [1 .. n -> D]
  /\ \A k \in 1 .. n : f[k] = IF k = 1 THEN x ELSE G[<<f[k - 1], k>>]

\* There is such a function.
LEMMA RecursionUpTo ==
  ASSUME NEW n \in Nat \ {0}, NEW D, NEW x \in D, NEW G \in [D \X Nat -> D]
  PROVE  \E f : Recursion(f, n, D, x, G)
  <1> DEFINE Fits(f, i) ==
               /\ f \in [1 .. i -> D]
               /\ \A k \in 1 .. i : f[k] = IF k = 1 THEN x ELSE G[<<f[k - 1], k>>]
             S == {i \in Nat : \E f : Fits(f, i + 1)}
  <1>1. 0 \in S
    <2> DEFINE f == [k \in 1 .. 1 |-> x]
    <2>1. Fits(f, 0 + 1) OBVIOUS
    <2> QED BY <2>1
  <1>2. ASSUME NEW i \in Nat, i \in S PROVE i + 1 \in S
    <2> DEFINE j == i + 1
               m == j + 1
    <2>1. PICK f : Fits(f, j) BY <1>2
    <2>2. j \in Nat /\ m \in Nat /\ j \in 1 .. j /\ m = j + 1 /\ m # 1
          /\ m - 1 = j /\ ~(m <= j) /\ i + 1 + 1 = m
      OBVIOUS
    <2>3. f \in [1 .. j -> D]
          /\ \A k \in 1 .. j : f[k] = IF k = 1 THEN x ELSE G[<<f[k - 1], k>>]
      BY <2>1
    <2> HIDE DEF j, m
    <2> DEFINE y == G[<<f[j], m>>]
               g == [k \in 1 .. m |-> IF k <= j THEN f[k] ELSE y]
    <2>4. y \in D BY <2>2, <2>3
    <2> HIDE DEF y
    <2>5. \A k \in 1 .. m : k <= j \/ k = m BY <2>2
    <2>6. \A k \in 1 .. j : k \in 1 .. m /\ k <= j /\ (k # 1 => k - 1 \in 1 .. j) BY <2>2
    <2>7. m \in 1 .. m BY <2>2
    <2>8. \A k \in 1 .. j : g[k] = f[k] BY <2>6
    <2>9. g[m] = y BY <2>2, <2>7
    <2>10. g \in [1 .. m -> D] BY <2>3, <2>4, <2>5, <2>2
    <2> HIDE DEF g
    <2>11. ASSUME NEW k \in 1 .. m
           PROVE  g[k] = IF k = 1 THEN x ELSE G[<<g[k - 1], k>>]
      <3>1. CASE k <= j
        <4>1. k \in 1 .. j BY <3>1, <2>2
        <4>2. k # 1 => g[k - 1] = f[k - 1] BY <4>1, <2>6, <2>8
        <4> QED BY <4>1, <4>2, <2>3, <2>8
      <3>2. CASE k = m
        <4>1. g[k - 1] = f[j] BY <3>2, <2>2, <2>8
        <4> QED BY <4>1, <3>2, <2>2, <2>9 DEF y
      <3> QED BY <3>1, <3>2, <2>5
    <2>12. Fits(g, m) BY <2>10, <2>11
    <2> HIDE DEF Fits
    <2> QED BY <2>12, <2>2 DEF j
  <1> HIDE DEF S
  <1>3. Nat \subseteq S BY <1>1, <1>2, SetInduction
  <1>4. n - 1 \in S BY <1>3
  <1>5. PICK f : Fits(f, n - 1 + 1) BY <1>4 DEF S
  <1>6. n - 1 + 1 = n OBVIOUS
  <1>7. Fits(f, n) BY <1>5, <1>6
  <1>8. Recursion(f, n, D, x, G) BY <1>7 DEF Recursion
  <1> QED BY <1>8

\* The larger of a number and 0 or 1, as the model writes it.
LEMMA MaxOfTwo ==
  ASSUME NEW a \in Int, NEW b \in Int
  PROVE  Max({a, b}) = IF a >= b THEN a ELSE b
  <1>1. \E x \in {a, b} : \A y \in {a, b} : x >= y OBVIOUS
  <1>2. Max({a, b}) \in {a, b} /\ \A y \in {a, b} : Max({a, b}) >= y
    BY <1>1 DEF Max
  <1> QED BY <1>2

----------------------------------------------------------------------------
(* Sequences.                                                              *)

\* A sequence stays as long as it is when one element is replaced.
LEMMA SameLength ==
  ASSUME NEW T, NEW s \in Seq(T), NEW i \in 1 .. Len(s), NEW e
  PROVE  Len([s EXCEPT ![i] = e]) = Len(s)
  <1> DEFINE U == T \cup {e}
  <1>1. s \in Seq(U) BY SeqMonotonic
  <1>2. e \in U OBVIOUS
  <1> HIDE DEF U
  <1> QED BY <1>1, <1>2, ExceptSeq

\* RemoveAt takes out one place and closes the gap.
LEMMA RemoveAtFacts ==
  ASSUME NEW T, NEW s \in Seq(T), NEW i \in 1 .. Len(s)
  PROVE  /\ RemoveAt(s, i) \in Seq(T)
         /\ Len(RemoveAt(s, i)) = Len(s) - 1
         /\ \A k \in 1 .. Len(s) - 1 :
              RemoveAt(s, i)[k] = IF k < i THEN s[k] ELSE s[k + 1]
  <1> DEFINE a == SubSeq(s, 1, i - 1)
             b == SubSeq(s, i + 1, Len(s))
  <1>1. Len(s) \in Nat /\ \A k \in 1 .. Len(s) : s[k] \in T BY LenProperties
  <1>2. /\ a \in Seq(T) /\ Len(a) = i - 1
        /\ \A k \in 1 .. i - 1 : a[k] = s[k]
    BY <1>1, SubSeqProperties
  <1>3. /\ b \in Seq(T) /\ Len(b) = Len(s) - i
        /\ \A k \in 1 .. Len(s) - i : b[k] = s[i + k]
    BY <1>1, SubSeqProperties
  <1>4. RemoveAt(s, i) = a \o b BY DEF RemoveAt
  <1> HIDE DEF a, b
  <1>5. /\ a \o b \in Seq(T) /\ Len(a \o b) = Len(a) + Len(b)
        /\ \A k \in 1 .. Len(a) + Len(b) :
             (a \o b)[k] = IF k <= Len(a) THEN a[k] ELSE b[k - Len(a)]
    BY <1>2, <1>3, ConcatProperties
  <1>6. ASSUME NEW k \in 1 .. Len(s) - 1
        PROVE  (a \o b)[k] = IF k < i THEN s[k] ELSE s[k + 1]
    <2>1. CASE k < i BY <2>1, <1>1, <1>2, <1>3, <1>5
    <2>2. CASE ~(k < i)
      <3>1. (a \o b)[k] = b[k - (i - 1)] BY <2>2, <1>1, <1>2, <1>3, <1>5
      <3>2. k - (i - 1) \in 1 .. Len(s) - i BY <2>2, <1>1
      <3>3. b[k - (i - 1)] = s[i + (k - (i - 1))] BY <3>2, <1>3
      <3>4. i + (k - (i - 1)) = k + 1 OBVIOUS
      <3> QED BY <3>1, <3>3, <3>4, <2>2
    <2> QED BY <2>1, <2>2
  <1> QED BY <1>1, <1>2, <1>3, <1>4, <1>5, <1>6

\* InsertAt opens a gap for one element.
LEMMA InsertAtFacts ==
  ASSUME NEW T, NEW s \in Seq(T), NEW i \in 1 .. Len(s) + 1, NEW e \in T
  PROVE  /\ InsertAt(s, i, e) \in Seq(T)
         /\ Len(InsertAt(s, i, e)) = Len(s) + 1
         /\ \A k \in 1 .. Len(s) + 1 :
              InsertAt(s, i, e)[k] = IF k < i THEN s[k]
                                     ELSE IF k = i THEN e ELSE s[k - 1]
  <1> DEFINE a == SubSeq(s, 1, i - 1)
             b == SubSeq(s, i, Len(s))
             c == a \o <<e>>
  <1>1. Len(s) \in Nat /\ \A k \in 1 .. Len(s) : s[k] \in T BY LenProperties
  <1>2. /\ a \in Seq(T) /\ Len(a) = i - 1
        /\ \A k \in 1 .. i - 1 : a[k] = s[k]
    BY <1>1, SubSeqProperties
  <1>3. /\ b \in Seq(T) /\ Len(b) = Len(s) - i + 1
        /\ \A k \in 1 .. Len(s) - i + 1 : b[k] = s[i + k - 1]
    BY <1>1, SubSeqProperties
  <1>4. InsertAt(s, i, e) = c \o b BY DEF InsertAt
  <1>5. <<e>> \in Seq(T) /\ Len(<<e>>) = 1 /\ <<e>>[1] = e OBVIOUS
  <1> HIDE DEF a, b
  <1>6. /\ c \in Seq(T) /\ Len(c) = i
        /\ \A k \in 1 .. i : c[k] = IF k < i THEN s[k] ELSE e
    <2>1. /\ c \in Seq(T) /\ Len(c) = Len(a) + Len(<<e>>)
          /\ \A k \in 1 .. Len(a) + Len(<<e>>) :
               c[k] = IF k <= Len(a) THEN a[k] ELSE <<e>>[k - Len(a)]
      BY <1>2, <1>5, ConcatProperties
    <2> HIDE DEF c
    <2> QED BY <2>1, <1>1, <1>2, <1>5
  <1> HIDE DEF c
  <1>7. /\ c \o b \in Seq(T) /\ Len(c \o b) = Len(c) + Len(b)
        /\ \A k \in 1 .. Len(c) + Len(b) :
             (c \o b)[k] = IF k <= Len(c) THEN c[k] ELSE b[k - Len(c)]
    BY <1>3, <1>6, ConcatProperties
  <1>8. ASSUME NEW k \in 1 .. Len(s) + 1
        PROVE  (c \o b)[k] = IF k < i THEN s[k] ELSE IF k = i THEN e ELSE s[k - 1]
    <2>1. CASE k <= i BY <2>1, <1>1, <1>3, <1>6, <1>7
    <2>2. CASE k > i
      <3>1. (c \o b)[k] = b[k - i] BY <2>2, <1>1, <1>3, <1>6, <1>7
      <3>2. k - i \in 1 .. Len(s) - i + 1 BY <2>2, <1>1
      <3>3. b[k - i] = s[i + (k - i) - 1] BY <3>2, <1>3
      <3>4. i + (k - i) - 1 = k - 1 OBVIOUS
      <3> QED BY <3>1, <3>3, <3>4, <2>2
    <2>3. k <= i \/ k > i BY <1>1
    <2> QED BY <2>1, <2>2, <2>3, Zenon
  <1> QED BY <1>1, <1>3, <1>4, <1>6, <1>7, <1>8

----------------------------------------------------------------------------
(* Lists of blocks that hold the links.                                    *)

\* A sequence that follows the links is what following the links gives.
LEMMA ChainIsList ==
  ASSUME NEW q \in Seq(Int), NEW next, NEW a, IsChain(next, a, q),
         NEW most \in Nat, Len(q) <= most
  PROVE  ChainFrom(next, a, most) = q
  <1> DEFINE longer == [p \in Seq(Int) |->
               LET b == IF p = <<>> THEN a
                        ELSE IF p[Len(p)] \in DOMAIN next THEN next[p[Len(p)]] ELSE 0
               IN  IF b = 0 THEN p ELSE Append(p, b)]
             First(n) == IF n < Len(q) THEN SubSeq(q, 1, n) ELSE q
             Follows(f) == f = [n \in Nat |-> IF n = 0 THEN <<>> ELSE longer[f[n - 1]]]
             chain == CHOOSE f : Follows(f)
  <1>1. ChainFrom(next, a, most) = chain[most] BY DEF ChainFrom
  <1>2. Len(q) \in Nat /\ \A k \in 1 .. Len(q) : q[k] \in Int BY LenProperties
  <1>3. First(0) = <<>>
    <2>1. SubSeq(q, 1, 0) = <<>> BY SubSeqEmpty
    <2>2. Len(q) = 0 => q = <<>> BY EmptySeq
    <2> QED BY <2>1, <2>2, <1>2
  <1>4. ASSUME NEW n \in Nat PROVE longer[First(n)] = First(n + 1)
    <2>1. CASE n < Len(q)
      <3> DEFINE p == SubSeq(q, 1, n)
      <3>1. p \in Seq(Int) /\ Len(p) = n /\ \A i \in 1 .. n : p[i] = q[i]
        BY <1>2, <2>1, SubSeqProperties
      <3>2. SubSeq(q, 1, n + 1) \in Seq(Int) /\ Len(SubSeq(q, 1, n + 1)) = n + 1
            /\ \A i \in 1 .. n + 1 : SubSeq(q, 1, n + 1)[i] = q[i]
        BY <1>2, <2>1, SubSeqProperties
      <3> HIDE DEF p
      <3>3. longer[p] = Append(p, q[n + 1])
        <4>1. CASE n = 0
          <5>1. p = <<>> BY <3>1, <4>1, EmptySeq
          <5>2. q # <<>> BY <2>1, EmptySeq
          <5>3. a = q[1] /\ q[1] # 0 BY <5>2, <2>1, <4>1, <1>2 DEF IsChain
          <5> QED BY <5>1, <5>3, <4>1
        <4>2. CASE n # 0
          <5>1. p # <<>> BY <3>1, <4>2, EmptySeq
          <5>2. p[Len(p)] = q[n] BY <3>1, <4>2
          <5>3. q[n] \in DOMAIN next /\ next[q[n]] = q[n + 1] /\ q[n + 1] # 0
            BY <2>1, <4>2, <1>2 DEF IsChain
          <5> QED BY <3>1, <5>1, <5>2, <5>3
        <4> QED BY <4>1, <4>2
      <3>4. Append(p, q[n + 1]) = SubSeq(q, 1, n + 1)
        <4>1. q[n + 1] \in Int BY <1>2, <2>1
        <4>2. /\ Append(p, q[n + 1]) \in Seq(Int) /\ Len(Append(p, q[n + 1])) = n + 1
              /\ \A i \in 1 .. n : Append(p, q[n + 1])[i] = p[i]
              /\ Append(p, q[n + 1])[n + 1] = q[n + 1]
          BY <3>1, <4>1, AppendProperties
        <4>3. \A i \in 1 .. n + 1 : Append(p, q[n + 1])[i] = SubSeq(q, 1, n + 1)[i]
          BY <4>2, <3>1, <3>2
        <4> QED BY <4>2, <4>3, <3>2, SeqEqual
      <3>5. First(n + 1) = SubSeq(q, 1, n + 1)
        <4>1. SubSeq(q, 1, Len(q)) = q BY SubSeqFull
        <4> QED BY <4>1, <2>1, <1>2
      <3> QED BY <2>1, <3>3, <3>4, <3>5 DEF p
    <2>2. CASE ~(n < Len(q))
      <3>1. First(n) = q /\ First(n + 1) = q BY <2>2, <1>2
      <3>2. longer[q] = q
        <4>1. CASE q = <<>> BY <4>1 DEF IsChain
        <4>2. CASE q # <<>>
          <5>1. Len(q) \in 1 .. Len(q) BY <4>2, <1>2, EmptySeq
          <5>2. q[Len(q)] \in DOMAIN next /\ next[q[Len(q)]] = 0 BY <5>1 DEF IsChain
          <5> QED BY <4>2, <5>2
        <4> QED BY <4>1, <4>2
      <3> QED BY <3>1, <3>2
    <2> QED BY <2>1, <2>2
  <1> HIDE DEF longer, First
  <1>5. Follows([n \in Nat |-> First(n)])
    <2> DEFINE f == [n \in Nat |-> First(n)]
               g == [n \in Nat |-> IF n = 0 THEN <<>> ELSE longer[f[n - 1]]]
    <2>1. ASSUME NEW n \in Nat PROVE f[n] = g[n]
      <3>1. CASE n = 0 BY <3>1, <1>3
      <3>2. CASE n # 0
        <4>1. n - 1 \in Nat /\ n - 1 + 1 = n BY <3>2
        <4>2. f[n - 1] = First(n - 1) BY <4>1
        <4>3. longer[First(n - 1)] = First(n) BY <4>1, <1>4
        <4> QED BY <3>2, <4>2, <4>3
      <3> QED BY <3>1, <3>2
    <2>2. f = g BY <2>1
    <2> QED BY <2>2
  <1>6. Follows(chain)
    <2> HIDE DEF Follows
    <2> QED BY <1>5
  <1> HIDE DEF chain
  <1> DEFINE S == {n \in Nat : chain[n] = First(n)}
  <1>7. 0 \in S BY <1>6, <1>3
  <1>8. ASSUME NEW n \in Nat, n \in S PROVE n + 1 \in S
    <2>1. n + 1 \in Nat /\ n + 1 # 0 /\ n + 1 - 1 = n OBVIOUS
    <2>2. chain[n + 1] = longer[chain[n]] BY <2>1, <1>6
    <2>3. chain[n] = First(n) BY <1>8
    <2>4. chain[n + 1] = First(n + 1) BY <2>2, <2>3, <1>4
    <2> QED BY <2>1, <2>4
  <1> HIDE DEF S
  <1>9. Nat \subseteq S BY <1>7, <1>8, SetInduction
  <1>10. chain[most] = First(most) BY <1>9 DEF S
  <1> QED BY <1>1, <1>10, <1>2 DEF First

\* A list is as it was when the links of its blocks are.
LEMMA ChainKept ==
  ASSUME NEW q, NEW next, NEW a, IsChain(next, a, q),
         NEW new, \A k \in 1 .. Len(q) : q[k] \in DOMAIN new /\ new[q[k]] = next[q[k]]
  PROVE  IsChain(new, a, q)
  BY DEF IsChain

\* The list without its first block starts where the link of that one leads.
LEMMA ChainPopped ==
  ASSUME NEW T, NEW q \in Seq(T), q # <<>>, NEW next, NEW a, IsChain(next, a, q)
  PROVE  a = Head(q) /\ a # 0 /\ a \in DOMAIN next /\ IsChain(next, next[a], Tail(q))
  <1>1. Len(q) \in Nat \ {0} BY EmptySeq
  <1>2. /\ Tail(q) \in Seq(T) /\ Len(Tail(q)) = Len(q) - 1
        /\ \A k \in 1 .. Len(q) - 1 : Tail(q)[k] = q[k + 1]
    BY HeadTailProperties
  <1>3. a = q[1] /\ Head(q) = q[1] BY DEF IsChain
  <1>4. a # 0 /\ a \in DOMAIN next /\ next[a] = IF 1 < Len(q) THEN q[2] ELSE 0
    BY <1>1, <1>3 DEF IsChain
  <1>5. next[a] = IF Tail(q) = <<>> THEN 0 ELSE Tail(q)[1]
    <2>1. CASE 1 < Len(q)
      <3>1. Tail(q) # <<>>
        <4>1. Len(Tail(q)) # 0 BY <2>1, <1>1, <1>2
        <4> QED BY <4>1, EmptySeq
      <3>2. Tail(q)[1] = q[2] BY <2>1, <1>1, <1>2
      <3> QED BY <3>1, <3>2, <2>1, <1>4
    <2>2. CASE ~(1 < Len(q))
      <3>1. Tail(q) = <<>> BY <2>2, <1>1, <1>2, EmptySeq
      <3> QED BY <3>1, <2>2, <1>4
    <2> QED BY <2>1, <2>2
  <1>6. ASSUME NEW k \in 1 .. Len(q) - 1
        PROVE  /\ q[k + 1] # 0 /\ q[k + 1] \in DOMAIN next
               /\ next[q[k + 1]] = IF k < Len(q) - 1 THEN q[k + 2] ELSE 0
    <2> DEFINE j == k + 1
    <2>1. j \in 1 .. Len(q) /\ (j < Len(q) <=> k < Len(q) - 1) /\ j + 1 = k + 2
      BY <1>1
    <2> HIDE DEF j
    <2>2. /\ q[j] # 0 /\ q[j] \in DOMAIN next
          /\ next[q[j]] = IF j < Len(q) THEN q[j + 1] ELSE 0
      BY <2>1 DEF IsChain
    <2> QED BY <2>1, <2>2 DEF j
  <1>7. \A k \in 1 .. Len(q) - 1 :
          k < Len(q) - 1 => Tail(q)[k + 1] = q[k + 2]
    BY <1>1, <1>2
  <1> QED BY <1>1, <1>2, <1>3, <1>4, <1>5, <1>6, <1>7 DEF IsChain

\* A block whose link leads to the list's first one becomes the first.
LEMMA ChainPushed ==
  ASSUME NEW T, NEW q \in Seq(T), NEW next, NEW a, IsChain(next, a, q),
         NEW p \in T, p # 0, p \in DOMAIN next, next[p] = a
  PROVE  /\ <<p>> \o q \in Seq(T) /\ Len(<<p>> \o q) = Len(q) + 1
         /\ (<<p>> \o q)[1] = p
         /\ \A k \in 1 .. Len(q) : (<<p>> \o q)[k + 1] = q[k]
         /\ IsChain(next, p, <<p>> \o q)
  <1> DEFINE r == <<p>> \o q
  <1>1. Len(q) \in Nat BY LenProperties
  <1>2. r \in Seq(T) /\ Len(r) = Len(q) + 1 OBVIOUS
  <1>3. r[1] = p /\ \A k \in 1 .. Len(q) : r[k + 1] = q[k] OBVIOUS
  <1> HIDE DEF r
  <1>4. r # <<>> BY <1>1, <1>2, EmptySeq
  <1>5. ASSUME NEW k \in 1 .. Len(r)
        PROVE  /\ r[k] # 0 /\ r[k] \in DOMAIN next
               /\ next[r[k]] = IF k < Len(r) THEN r[k + 1] ELSE 0
    <2>1. CASE k = 1
      <3>1. CASE q = <<>>
        <4>1. Len(q) = 0 BY <3>1, EmptySeq
        <4>2. a = 0 BY <3>1 DEF IsChain
        <4> QED BY <4>1, <4>2, <2>1, <1>2, <1>3
      <3>2. CASE q # <<>>
        <4>1. Len(q) # 0 BY <3>2, EmptySeq
        <4>2. a = q[1] BY <3>2 DEF IsChain
        <4>3. r[2] = q[1] BY <4>1, <1>1, <1>3
        <4> QED BY <4>1, <4>2, <4>3, <2>1, <1>1, <1>2, <1>3
      <3> QED BY <3>1, <3>2
    <2>2. CASE k # 1
      <3> DEFINE j == k - 1
      <3>1. j \in 1 .. Len(q) /\ k = j + 1 /\ (j < Len(q) <=> k < Len(r))
        BY <2>2, <1>1, <1>2
      <3> HIDE DEF j
      <3>2. /\ q[j] # 0 /\ q[j] \in DOMAIN next
            /\ next[q[j]] = IF j < Len(q) THEN q[j + 1] ELSE 0
        BY <3>1 DEF IsChain
      <3>3. r[k] = q[j] BY <3>1, <1>3
      <3>4. CASE j < Len(q)
        <4>1. j + 1 \in 1 .. Len(q) BY <3>1, <3>4, <1>1
        <4>2. r[k + 1] = q[j + 1] BY <4>1, <3>1, <1>3
        <4> QED BY <4>2, <3>1, <3>2, <3>3, <3>4
      <3>5. CASE ~(j < Len(q)) BY <3>5, <3>1, <3>2, <3>3
      <3> QED BY <3>4, <3>5
    <2> QED BY <2>1, <2>2
  <1>6. IsChain(next, p, r) BY <1>3, <1>4, <1>5 DEF IsChain
  <1> QED BY <1>2, <1>3, <1>6 DEF r

\* A sequence without repetitions of numbers up to n is no longer than that.
LEMMA DistinctShort ==
  ASSUME NEW n \in Nat, NEW T, NEW q \in Seq(T),
         \A k \in 1 .. Len(q) : q[k] \in 1 .. n,
         \A j, k \in 1 .. Len(q) : q[j] = q[k] => j = k
  PROVE  Len(q) <= n
  <1>1. Len(q) \in Nat BY LenProperties
  <1> DEFINE f == [k \in 1 .. Len(q) |-> q[k]]
  <1>2. f \in [1 .. Len(q) -> 1 .. n] OBVIOUS
  <1>3. \A j, k \in 1 .. Len(q) : f[j] = f[k] => j = k OBVIOUS
  <1> HIDE DEF f
  <1>4. f \in Injection(1 .. Len(q), 1 .. n) BY <1>2, <1>3, Fun_IsInj
  <1>5. IsFiniteSet(1 .. n) /\ Cardinality(1 .. n) = n BY FS_Interval
  <1>6. Cardinality(1 .. Len(q)) <= n BY <1>4, <1>5, FS_Injection
  <1> DEFINE m == Len(q)
  <1>7. Cardinality(1 .. m) = m
    <2>1. m \in Nat BY <1>1
    <2> HIDE DEF m
    <2>2. Cardinality(1 .. m) = IF 1 > m THEN 0 ELSE m - 1 + 1 BY <2>1, FS_Interval
    <2> QED BY <2>1, <2>2
  <1> QED BY <1>6, <1>7

----------------------------------------------------------------------------
(* Counting.                                                               *)

\* A part of 1 .. n that has with a number all smaller ones is the beginning
\* that its size says.
LEMMA BeginningSize ==
  ASSUME NEW n \in Nat, NEW S, S \subseteq 1 .. n,
         \A j \in 1 .. n, k \in S : j < k => j \in S
  PROVE  Cardinality(S) \in 0 .. n /\ S = 1 .. Cardinality(S)
  <1> DEFINE Rest == (1 .. n + 1) \ S
             m == Min(Rest)
  <1>1. n + 1 \in Rest /\ Rest \subseteq Nat OBVIOUS
  <1>2. m \in Rest /\ \A y \in Rest : m <= y BY <1>1, MinFacts
  <1> HIDE DEF m
  <1>3. S = 1 .. m - 1
    <2>1. ASSUME NEW j \in 1 .. m - 1 PROVE j \in S BY <1>2
    <2>2. ASSUME NEW k \in S PROVE k \in 1 .. m - 1
      <3>1. SUFFICES ASSUME k >= m PROVE FALSE BY <1>2
      <3>2. k # m BY <1>2
      <3>3. m \in 1 .. n BY <3>1, <1>2
      <3> QED BY <3>1, <3>2, <3>3, <1>2
    <2> QED BY <2>1, <2>2
  <1>4. Cardinality(1 .. m - 1) = m - 1 BY <1>2, FS_Interval
  <1> QED BY <1>2, <1>3, <1>4

\* Twice a power of two is the next one: adding an element doubles the
\* number of subsets.
LEMMA NextPower ==
  ASSUME NEW n \in Nat
  PROVE  2 ^ n \in Nat \ {0} /\ 2 ^ (n + 1) = 2 * 2 ^ n
  <1> DEFINE A == 1 .. n
             B == 1 .. n + 1
             With == {T \cup {n + 1} : T \in SUBSET A}
  <1>1. /\ IsFiniteSet(A) /\ Cardinality(A) = n
        /\ IsFiniteSet(B) /\ Cardinality(B) = n + 1
    BY FS_Interval
  <1>2. /\ IsFiniteSet(SUBSET A) /\ Cardinality(SUBSET A) = 2 ^ n
        /\ IsFiniteSet(SUBSET B) /\ Cardinality(SUBSET B) = 2 ^ (n + 1)
    BY <1>1, FS_SUBSET
  <1>3. /\ IsFiniteSet(With) /\ Cardinality(With) = Cardinality(SUBSET A)
    <2> DEFINE f == [T \in SUBSET A |-> T \cup {n + 1}]
    <2>1. f \in [SUBSET A -> With] OBVIOUS
    <2>2. ASSUME NEW T \in SUBSET A, NEW U \in SUBSET A, f[T] = f[U] PROVE T = U
      <3>1. n + 1 \notin T /\ n + 1 \notin U OBVIOUS
      <3>2. T \cup {n + 1} = U \cup {n + 1} BY <2>2
      <3> QED BY <3>1, <3>2
    <2>3. \A W \in With : \E T \in SUBSET A : f[T] = W OBVIOUS
    <2> HIDE DEF f
    <2>4. f \in Bijection(SUBSET A, With)
      BY <2>1, <2>2, <2>3, Fun_IsBij
    <2>5. ExistsBijection(SUBSET A, With) BY <2>4 DEF ExistsBijection
    <2> QED BY <2>5, <1>2, FS_Bijection
  <1>4. SUBSET B = (SUBSET A) \cup With
    <2>1. ASSUME NEW T \in SUBSET B PROVE T \in (SUBSET A) \cup With
      <3>1. CASE n + 1 \in T
        <4>1. T \ {n + 1} \in SUBSET A OBVIOUS
        <4>2. T = (T \ {n + 1}) \cup {n + 1} BY <3>1
        <4> QED BY <4>1, <4>2
      <3>2. CASE n + 1 \notin T
        <4>1. T \in SUBSET A BY <3>2
        <4> QED BY <4>1
      <3> QED BY <3>1, <3>2
    <2>2. ASSUME NEW T \in (SUBSET A) \cup With PROVE T \in SUBSET B
      BY <2>2
    <2> QED BY <2>1, <2>2
  <1>5. (SUBSET A) \cap With = {}
    <2>1. ASSUME NEW T \in SUBSET A, T \in With PROVE FALSE
      <3>1. n + 1 \in T BY <2>1
      <3>2. n + 1 \notin T OBVIOUS
      <3> QED BY <3>1, <3>2
    <2> QED BY <2>1
  <1> HIDE DEF With, A, B
  <1>6. Cardinality(SUBSET B)
          = Cardinality(SUBSET A) + Cardinality(With) - Cardinality((SUBSET A) \cap With)
    BY <1>2, <1>3, <1>4, FS_Union
  <1>7. Cardinality((SUBSET A) \cap With) = 0 BY <1>5, FS_EmptySet
  <1>8. Cardinality(SUBSET A) \in Nat BY <1>2, FS_CardinalityType
  <1>9. Cardinality(SUBSET A) # 0
    <2>1. {} \in SUBSET A OBVIOUS
    <2> QED BY <2>1, <1>2, FS_EmptySet
  <1> QED BY <1>2, <1>3, <1>6, <1>7, <1>8, <1>9
============================================================================
