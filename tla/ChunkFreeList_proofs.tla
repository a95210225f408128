------------------------ MODULE ChunkFreeList_proofs ------------------------
(***************************************************************************)
(* Proofs about the class allocators, for any size of objects that a link  *)
(* fits in: each object of the chunks has one owner, the links that the    *)
(* free objects hold make up one list of them, and that list is the one    *)
(* of ObjectStore.                                                         *)
(***************************************************************************)
EXTENDS ChunkFreeList, ListLemmas

\* What the comment at c++/test_allocator.cpp:651-654 asks of the users.
LinkFits == Word <= Size

----------------------------------------------------------------------------
(* The invariant, of any chunks cs, objects in use, memory m and list q    *)
(* that starts at a.                                                       *)

ObjectsIn(cs) == {p + k * Size : p \in cs, k \in 0 .. Chunk - 1}

Separate(cs) ==
  \A p, q \in cs : p # q => p + Chunk * Size <= q \/ q + Chunk * Size <= p

Memory == [1 .. MemTop -> Int \X Int]

Placed(cs, used, m) ==
  /\ cs \subseteq Bases /\ Separate(cs)
  /\ used \subseteq ObjectsIn(cs)
  /\ m \in Memory

\* q is a list of the objects that are not in use, each once.
Listing(cs, used, m, a, q) ==
  /\ q \in Seq(Int)
  /\ IsChain(Nexts(m, ObjectsIn(cs)), a, q)
  /\ \A j, k \in 1 .. Len(q) : q[j] = q[k] => j = k
  /\ \A k \in 1 .. Len(q) : q[k] \in ObjectsIn(cs) \ used
  /\ \A o \in ObjectsIn(cs) \ used : \E k \in 1 .. Len(q) : q[k] = o

IInv ==
  /\ Placed(chunks, live, mem)
  /\ \E q : Listing(chunks, live, mem, free_store_, q)

----------------------------------------------------------------------------
(* Where objects lie.                                                      *)

LEMMA Times ==
  ASSUME NEW i \in Nat, NEW j \in Nat
  PROVE  /\ i * Size \in Nat
         /\ i < j => i * Size + Size <= j * Size
  <1>1. Size \in Nat \ {0} BY ChunkConstants
  <1>2. ASSUME NEW x \in Nat PROVE x * Size \in Nat BY <1>1
  <1>3. ASSUME i < j PROVE i * Size + Size <= j * Size
    <2> DEFINE d == j - i - 1
    <2>1. d \in Nat /\ j = i + 1 + d BY <1>3
    <2> HIDE DEF d
    <2>2. j * Size = i * Size + Size + d * Size BY <2>1, <1>1
    <2> QED BY <2>1, <2>2, <1>1, <1>2
  <1> QED BY <1>2, <1>3

LEMMA BaseFacts ==
  ASSUME NEW p \in Bases
  PROVE  p \in Nat \ {0} /\ p + Chunk * Size + Word <= MemTop /\ p \in 1 .. MemTop
  BY ChunkConstants

\* The object of place k in the chunk at p.
LEMMA ObjectFacts ==
  ASSUME NEW p \in Bases, NEW k \in 0 .. Chunk - 1
  PROVE  /\ p + k * Size \in Nat \ {0} /\ p <= p + k * Size
         /\ p + k * Size + Size <= p + Chunk * Size
         /\ p + k * Size + Size + Word <= MemTop
  <1>1. /\ Chunk \in Nat \ {0} /\ Size \in Nat \ {0} /\ Word \in Nat \ {0}
        /\ p \in Nat \ {0} /\ MemTop \in Nat
    BY ChunkConstants, BaseFacts
  <1>2. k \in Nat /\ k < Chunk BY <1>1
  <1> DEFINE x == k * Size
             y == Chunk * Size
  <1>3. x \in Nat /\ y \in Nat /\ x + Size <= y BY <1>1, <1>2, Times
  <1>4. p + y + Word <= MemTop BY BaseFacts
  <1> HIDE DEF x, y
  <1>5. p + x \in Nat \ {0} /\ p <= p + x /\ p + x + Size <= p + y BY <1>1, <1>3
  <1>6. p + x + Size + Word <= MemTop BY <1>1, <1>3, <1>4
  <1> QED BY <1>1, <1>5, <1>6 DEF x, y

\* Objects lie in memory and do not overlap, in one chunk or in two.
LEMMA ObjectsApart ==
  ASSUME NEW cs, cs \subseteq Bases, Separate(cs)
  PROVE  /\ \A a \in ObjectsIn(cs) : a \in Nat \ {0} /\ a + Size + Word <= MemTop
         /\ \A a, b \in ObjectsIn(cs) : a # b => a + Size <= b \/ b + Size <= a
  <1>1. Size \in Nat \ {0} /\ Chunk \in Nat \ {0} /\ MemTop \in Nat BY ChunkConstants
  <1>2. ASSUME NEW a \in ObjectsIn(cs)
        PROVE  a \in Nat \ {0} /\ a + Size + Word <= MemTop
    <2>1. PICK p \in cs, k \in 0 .. Chunk - 1 : a = p + k * Size BY DEF ObjectsIn
    <2>2. p \in Bases OBVIOUS
    <2> QED BY <2>1, <2>2, ObjectFacts
  <1>3. ASSUME NEW a \in ObjectsIn(cs), NEW b \in ObjectsIn(cs), a # b
        PROVE  a + Size <= b \/ b + Size <= a
    <2>1. PICK p \in cs, k \in 0 .. Chunk - 1 : a = p + k * Size BY DEF ObjectsIn
    <2>2. PICK q \in cs, j \in 0 .. Chunk - 1 : b = q + j * Size BY DEF ObjectsIn
    <2>3. p \in Bases /\ q \in Bases OBVIOUS
    <2>4. p \in Nat /\ q \in Nat /\ k \in Nat /\ j \in Nat BY <1>1, <2>3, BaseFacts
    <2>5. CASE p = q
      <3>1. k # j BY <2>1, <2>2, <2>5, <1>3
      <3>2. k < j \/ j < k BY <3>1, <2>4
      <3>3. k * Size \in Nat /\ j * Size \in Nat
            /\ (k < j => k * Size + Size <= j * Size)
            /\ (j < k => j * Size + Size <= k * Size)
        BY <2>4, Times
      <3> DEFINE x == k * Size
                 y == j * Size
      <3>4. /\ x \in Nat /\ y \in Nat /\ (k < j => x + Size <= y)
            /\ (j < k => y + Size <= x) /\ a = p + x /\ b = p + y
        BY <3>3, <2>1, <2>2, <2>5
      <3> HIDE DEF x, y
      <3> QED BY <3>2, <3>4, <2>4, <1>1
    <2>6. CASE p # q
      <3> DEFINE n == Chunk * Size
      <3>1. /\ a \in Nat /\ p <= a /\ a + Size <= p + n
            /\ b \in Nat /\ q <= b /\ b + Size <= q + n
        BY <2>1, <2>2, <2>3, ObjectFacts
      <3>2. p + n <= q \/ q + n <= p BY <2>6 DEF Separate
      <3>3. n \in Nat BY <1>1, Times
      <3> HIDE DEF n
      <3> QED BY <3>1, <3>2, <3>3, <2>4, <1>1
    <2> QED BY <2>5, <2>6
  <1> QED BY <1>2, <1>3

----------------------------------------------------------------------------
(* Links in memory.                                                        *)

LEMMA LinkOfWhole ==
  ASSUME NEW m, NEW a, NEW v, \A k \in 0 .. Word - 1 : m[a + k] = <<v, k>>, a \in Int
  PROVE  Link(m, a) = v
  <1>1. 0 \in 0 .. Word - 1 BY ChunkConstants
  <1>2. m[a + 0] = <<v, 0>> BY <1>1
  <1>3. a + 0 = a OBVIOUS
  <1>4. m[a][1] = v BY <1>2, <1>3
  <1> QED BY <1>4 DEF Link

LEMMA LinkSame ==
  ASSUME NEW m, NEW n, NEW a \in Int, \A k \in 0 .. Word - 1 : m[a + k] = n[a + k]
  PROVE  Link(m, a) = Link(n, a)
  <1>1. 0 \in 0 .. Word - 1 BY ChunkConstants
  <1>2. m[a + 0] = n[a + 0] BY <1>1
  <1>3. a + 0 = a OBVIOUS
  <1>4. m[a] = n[a] BY <1>2, <1>3
  <1> QED BY <1>4 DEF Link

\* A link that is put into memory can be read there, and leaves other links as
\* they are that do not overlap it.
LEMMA PutFacts ==
  ASSUME NEW m \in Memory, NEW a \in Nat \ {0}, a + Word <= MemTop, NEW v \in Int
  PROVE  /\ Put(m, a, v) \in Memory
         /\ Link(Put(m, a, v), a) = v
         /\ \A b \in Nat \ {0} : b + Word <= MemTop /\ (a + Word <= b \/ b + Word <= a) =>
              Link(Put(m, a, v), b) = Link(m, b)
  <1> DEFINE n == Put(m, a, v)
  <1>1. Word \in Nat \ {0} /\ MemTop \in Nat BY ChunkConstants
  <1>2. /\ n \in Memory
        /\ \A x \in 1 .. MemTop :
             n[x] = IF a <= x /\ x < a + Word THEN <<v, x - a>> ELSE m[x]
    <2>1. DOMAIN m = 1 .. MemTop /\ \A x \in 1 .. MemTop : m[x] \in Int \X Int
      BY DEF Memory
    <2>2. \A x \in 1 .. MemTop : <<v, x - a>> \in Int \X Int OBVIOUS
    <2> QED BY <2>1, <2>2 DEF Put, Memory
  <1> HIDE DEF n
  <1>3. ASSUME NEW k \in 0 .. Word - 1 PROVE n[a + k] = <<v, k>>
    <2> DEFINE x == a + k
    <2>1. x \in 1 .. MemTop /\ a <= x /\ x < a + Word /\ x - a = k BY <1>1
    <2> HIDE DEF x
    <2>2. n[x] = <<v, x - a>> BY <2>1, <1>2
    <2> QED BY <2>1, <2>2 DEF x
  <1>4. Link(n, a) = v
    <2>1. \A k \in 0 .. Word - 1 : n[a + k] = <<v, k>> BY <1>3
    <2>2. a \in Int OBVIOUS
    <2> QED BY <2>1, <2>2, LinkOfWhole, Zenon
  <1>5. ASSUME NEW b \in Nat \ {0}, b + Word <= MemTop, a + Word <= b \/ b + Word <= a
        PROVE  Link(n, b) = Link(m, b)
    <2>1. ASSUME NEW k \in 0 .. Word - 1 PROVE n[b + k] = m[b + k]
      <3>1. b + k \in 1 .. MemTop /\ ~(a <= b + k /\ b + k < a + Word)
        BY <1>1, <1>5
      <3> QED BY <3>1, <1>2
    <2>2. \A k \in 0 .. Word - 1 : n[b + k] = m[b + k] BY <2>1
    <2>3. b \in Int OBVIOUS
    <2> QED BY <2>2, <2>3, LinkSame, Zenon
  <1> QED BY <1>2, <1>4, <1>5 DEF n

\* An object that fills its bytes leaves the links outside as they are.
LEMMA FilledFacts ==
  ASSUME NEW m \in Memory, NEW a \in Nat \ {0}
  PROVE  /\ Filled(m, a) \in Memory
         /\ \A b \in Nat \ {0} : b + Word <= MemTop /\ (a + Size <= b \/ b + Word <= a) =>
              Link(Filled(m, a), b) = Link(m, b)
  <1> DEFINE n == Filled(m, a)
  <1>1. Word \in Nat \ {0} /\ Size \in Nat \ {0} /\ MemTop \in Nat BY ChunkConstants
  <1>2. /\ n \in Memory
        /\ \A x \in 1 .. MemTop :
             n[x] = IF a <= x /\ x < a + Size THEN Data ELSE m[x]
    <2>1. DOMAIN m = 1 .. MemTop /\ \A x \in 1 .. MemTop : m[x] \in Int \X Int
      BY DEF Memory
    <2>2. Data \in Int \X Int BY DEF Data
    <2> QED BY <2>1, <2>2 DEF Filled, Memory
  <1> HIDE DEF n
  <1>3. ASSUME NEW b \in Nat \ {0}, b + Word <= MemTop, a + Size <= b \/ b + Word <= a
        PROVE  Link(n, b) = Link(m, b)
    <2>1. ASSUME NEW k \in 0 .. Word - 1 PROVE n[b + k] = m[b + k]
      <3>1. b + k \in 1 .. MemTop /\ ~(a <= b + k /\ b + k < a + Size)
        BY <1>1, <1>3
      <3> QED BY <3>1, <1>2
    <2>2. \A k \in 0 .. Word - 1 : n[b + k] = m[b + k] BY <2>1
    <2>3. b \in Int OBVIOUS
    <2> QED BY <2>2, <2>3, LinkSame, Zenon
  <1> QED BY <1>2, <1>3 DEF n

\* Each object of a new chunk at p is linked to the next one, the last to
\* none; links outside the chunk are as they were.
LEMMA StrungFacts ==
  ASSUME LinkFits, NEW m \in Memory, NEW p \in Bases
  PROVE  /\ Strung(m, p) \in Memory
         /\ \A k \in 0 .. Chunk - 1 :
              Link(Strung(m, p), p + k * Size) = IF k < Chunk - 1 THEN p + (k + 1) * Size ELSE 0
         /\ \A b \in Nat \ {0} :
              b + Word <= MemTop /\ (p + Chunk * Size <= b \/ b + Word <= p) =>
                Link(Strung(m, p), b) = Link(m, b)
  <1> DEFINE at(k) == p + k * Size
             G == [d \in Memory \X Nat |-> Put(d[1], p + (d[2] - 2) * Size, p + (d[2] - 1) * Size)]
             Turns(f) == f = [k \in 1 .. Chunk |->
                                IF k = 1 THEN m
                                ELSE Put(f[k - 1], p + (k - 2) * Size, p + (k - 1) * Size)]
             f == CHOOSE h : Turns(h)
  <1>1. /\ Chunk \in Nat \ {0} /\ Size \in Nat \ {0} /\ Word \in Nat \ {0}
        /\ MemTop \in Nat /\ p \in Nat \ {0}
    BY ChunkConstants, BaseFacts
  <1>2. ASSUME NEW k \in 0 .. Chunk - 1
        PROVE  /\ at(k) \in Nat \ {0} /\ p <= at(k)
               /\ at(k) + Word <= p + Chunk * Size /\ at(k) + Word <= MemTop
               /\ \A j \in 0 .. Chunk - 1 : j < k => at(j) + Word <= at(k)
    <2> DEFINE x == k * Size
               y == Chunk * Size
    <2>1. /\ p + x \in Nat \ {0} /\ p <= p + x /\ p + x + Size <= p + y
          /\ p + x + Size + Word <= MemTop
      BY ObjectFacts
    <2>2. x \in Nat /\ y \in Nat BY <1>1, Times
    <2>3. ASSUME NEW j \in 0 .. Chunk - 1, j < k PROVE at(j) + Word <= at(k)
      <3> DEFINE z == j * Size
      <3>1. z \in Nat /\ z + Size <= x BY <2>3, <1>1, Times
      <3> HIDE DEF x, y, z
      <3>2. p + z + Word <= p + x BY <3>1, <2>2, <1>1 DEF LinkFits
      <3> QED BY <3>2 DEF x, z
    <2> HIDE DEF x, y
    <2>4. p + x + Word <= p + y /\ p + x + Word <= MemTop BY <2>1, <2>2, <1>1 DEF LinkFits
    <2> QED BY <2>1, <2>3, <2>4 DEF x, y
  <1>3. Strung(m, p) = Put(f[Chunk], p + (Chunk - 1) * Size, 0) BY DEF Strung
  <1>4. ASSUME NEW n \in Memory, NEW a \in Int, NEW v \in Int PROVE Put(n, a, v) \in Memory
    <2>1. \A x \in 1 .. MemTop : <<v, x - a>> \in Int \X Int /\ n[x] \in Int \X Int
      BY DEF Memory
    <2>2. DOMAIN n = 1 .. MemTop BY DEF Memory
    <2> QED BY <2>1, <2>2 DEF Put, Memory
  <1>6. ASSUME NEW k \in Int PROVE p + k * Size \in Int BY <1>1
  <1>7. G \in [Memory \X Nat -> Memory]
    <2>1. ASSUME NEW d \in Memory \X Nat
          PROVE  Put(d[1], p + (d[2] - 2) * Size, p + (d[2] - 1) * Size) \in Memory
      <3>1. d[1] \in Memory /\ d[2] - 2 \in Int /\ d[2] - 1 \in Int OBVIOUS
      <3> QED BY <3>1, <1>4, <1>6
    <2> QED BY <2>1
  <1>8. \A n \in Memory, k \in Nat : G[<<n, k>>] = Put(n, p + (k - 2) * Size, p + (k - 1) * Size)
    OBVIOUS
  <1> HIDE DEF G
  <1>9. PICK h : Recursion(h, Chunk, Memory, m, G) BY <1>1, <1>7, RecursionUpTo
  <1>10. Turns(h)
    <2>1. ASSUME NEW k \in 1 .. Chunk
          PROVE  h[k] = IF k = 1 THEN m
                        ELSE Put(h[k - 1], p + (k - 2) * Size, p + (k - 1) * Size)
      <3>1. k # 1 => k - 1 \in 1 .. Chunk /\ k \in Nat BY <1>1
      <3>2. k # 1 => h[k - 1] \in Memory BY <3>1, <1>9 DEF Recursion
      <3>3. h[k] = IF k = 1 THEN m ELSE G[<<h[k - 1], k>>] BY <1>9 DEF Recursion
      <3> QED BY <3>1, <3>2, <3>3, <1>8
    <2>2. h \in [1 .. Chunk -> Memory] BY <1>9 DEF Recursion
    <2> QED BY <2>1, <2>2
  <1>11. Turns(f)
    <2> HIDE DEF Turns
    <2> QED BY <1>10
  <1> HIDE DEF f
  <1>12. \A k \in 1 .. Chunk :
           f[k] = IF k = 1 THEN m ELSE Put(f[k - 1], p + (k - 2) * Size, p + (k - 1) * Size)
    BY <1>11
  <1> HIDE DEF Turns
  \* What the first k turns have done.
  <1> DEFINE Done(n, k) ==
               /\ n \in Memory
               /\ \A j \in 0 .. Chunk - 1 : j < k => Link(n, at(j)) = at(j + 1)
               /\ \A b \in Nat \ {0} :
                    b + Word <= MemTop /\ (p + Chunk * Size <= b \/ b + Word <= p) =>
                      Link(n, b) = Link(m, b)
             S == {k \in Nat : k + 1 \in 1 .. Chunk => Done(f[k + 1], k)}
  <1>13. \A k \in 0 .. Chunk - 1 : at(k) \in Nat BY <1>2
  <1> HIDE DEF at
  <1>14. ASSUME NEW n, NEW k \in 0 .. Chunk - 1, NEW v \in Int, Done(n, k)
         PROVE  /\ Put(n, at(k), v) \in Memory
                /\ Link(Put(n, at(k), v), at(k)) = v
                /\ \A j \in 0 .. Chunk - 1 : j < k => Link(Put(n, at(k), v), at(j)) = at(j + 1)
                /\ \A b \in Nat \ {0} :
                     b + Word <= MemTop /\ (p + Chunk * Size <= b \/ b + Word <= p) =>
                       Link(Put(n, at(k), v), b) = Link(m, b)
    <2> DEFINE new == Put(n, at(k), v)
               end == p + Chunk * Size
    <2>1. /\ at(k) \in Nat \ {0} /\ p <= at(k) /\ at(k) + Word <= end
          /\ at(k) + Word <= MemTop
          /\ \A j \in 0 .. Chunk - 1 : j < k => at(j) + Word <= at(k)
      BY <1>2
    <2>2. n \in Memory BY <1>14
    <2>3. /\ new \in Memory
          /\ Link(new, at(k)) = v
          /\ \A b \in Nat \ {0} : b + Word <= MemTop /\ (at(k) + Word <= b \/ b + Word <= at(k)) =>
               Link(new, b) = Link(n, b)
      BY <2>1, <2>2, PutFacts
    <2>4. ASSUME NEW j \in 0 .. Chunk - 1, j < k PROVE Link(new, at(j)) = at(j + 1)
      <3>1. at(j) \in Nat \ {0} /\ at(j) + Word <= MemTop BY <1>2
      <3>2. at(j) + Word <= at(k) BY <2>1, <2>4
      <3>3. Link(new, at(j)) = Link(n, at(j)) BY <3>1, <3>2, <2>3
      <3> QED BY <3>3, <2>4, <1>14
    <2>5. end \in Nat
      <3>1. Chunk * Size \in Nat BY <1>1, Times
      <3> QED BY <3>1, <1>1
    <2> HIDE DEF new
    <2>6. ASSUME NEW b \in Nat \ {0}, b + Word <= MemTop, end <= b \/ b + Word <= p
          PROVE  Link(new, b) = Link(m, b)
      <3> HIDE DEF end
      <3>1. at(k) + Word <= b \/ b + Word <= at(k) BY <2>1, <2>5, <2>6, <1>1
      <3>2. Link(new, b) = Link(n, b) BY <3>1, <2>3, <2>6
      <3>3. Link(n, b) = Link(m, b) BY <2>6, <1>14 DEF end
      <3> QED BY <3>2, <3>3
    <2> QED BY <2>3, <2>4, <2>6 DEF new
  <1>15. 0 \in S
    <2>1. f[1] = m BY <1>1, <1>12
    <2>2. Done(m, 0) BY <1>13
    <2>3. 0 + 1 = 1 OBVIOUS
    <2> HIDE DEF Done
    <2> QED BY <2>1, <2>2, <2>3
  <1>16. ASSUME NEW k \in Nat, k \in S PROVE k + 1 \in S
    <2>1. SUFFICES ASSUME k + 1 + 1 \in 1 .. Chunk PROVE Done(f[k + 1 + 1], k + 1)
      <3> HIDE DEF Done
      <3> QED OBVIOUS
    <2> DEFINE n == f[k + 1]
    <2>2. k + 1 \in 1 .. Chunk /\ k \in 0 .. Chunk - 1 /\ k + 1 \in 0 .. Chunk - 1
      BY <2>1, <1>1
    <2>3. Done(n, k)
      <3> HIDE DEF Done
      <3> QED BY <2>2, <1>16
    <2>4. f[k + 1 + 1] = Put(n, at(k), at(k + 1))
      <3>1. k + 1 + 1 # 1 /\ k + 1 + 1 - 1 = k + 1 /\ k + 1 + 1 - 2 = k OBVIOUS
      <3> QED BY <2>1, <3>1, <1>12 DEF at
    <2>5. /\ Put(n, at(k), at(k + 1)) \in Memory
          /\ Link(Put(n, at(k), at(k + 1)), at(k)) = at(k + 1)
          /\ \A j \in 0 .. Chunk - 1 :
               j < k => Link(Put(n, at(k), at(k + 1)), at(j)) = at(j + 1)
          /\ \A b \in Nat \ {0} :
               b + Word <= MemTop /\ (p + Chunk * Size <= b \/ b + Word <= p) =>
                 Link(Put(n, at(k), at(k + 1)), b) = Link(m, b)
      <3>1. at(k + 1) \in Int BY <2>2, <1>13
      <3>2. k \in 0 .. Chunk - 1 BY <2>2
      <3> HIDE DEF Done, n
      <3> QED BY <3>1, <3>2, <2>3, <1>14
    <2>6. \A j \in 0 .. Chunk - 1 : j < k + 1 => j < k \/ j = k BY <2>2
    <2> HIDE DEF n
    <2> QED BY <2>4, <2>5, <2>6
  <1> HIDE DEF S
  <1>17. Nat \subseteq S BY <1>15, <1>16, SetInduction
  <1>18. Done(f[Chunk], Chunk - 1)
    <2>1. Chunk - 1 \in Nat /\ Chunk - 1 + 1 = Chunk /\ Chunk \in 1 .. Chunk BY <1>1
    <2>2. Chunk - 1 \in S BY <2>1, <1>17
    <2> HIDE DEF Done
    <2> QED BY <2>1, <2>2 DEF S
  <1>19. Chunk - 1 \in 0 .. Chunk - 1 /\ \A k \in 0 .. Chunk - 1 : k < Chunk - 1 \/ k = Chunk - 1
    BY <1>1
  <1>20. Strung(m, p) = Put(f[Chunk], at(Chunk - 1), 0) BY <1>3 DEF at
  <1>21. /\ Strung(m, p) \in Memory
         /\ Link(Strung(m, p), at(Chunk - 1)) = 0
         /\ \A j \in 0 .. Chunk - 1 :
              j < Chunk - 1 => Link(Strung(m, p), at(j)) = at(j + 1)
         /\ \A b \in Nat \ {0} :
              b + Word <= MemTop /\ (p + Chunk * Size <= b \/ b + Word <= p) =>
                Link(Strung(m, p), b) = Link(m, b)
    <2> DEFINE n == f[Chunk]
               k == Chunk - 1
    <2>1. Done(n, k) /\ k \in 0 .. Chunk - 1 BY <1>18, <1>19
    <2>2. Strung(m, p) = Put(n, at(k), 0) BY <1>20
    <2> HIDE DEF n, k, Done
    <2>3. /\ Put(n, at(k), 0) \in Memory
          /\ Link(Put(n, at(k), 0), at(k)) = 0
          /\ \A j \in 0 .. Chunk - 1 :
               j < k => Link(Put(n, at(k), 0), at(j)) = at(j + 1)
          /\ \A b \in Nat \ {0} :
               b + Word <= MemTop /\ (p + Chunk * Size <= b \/ b + Word <= p) =>
                 Link(Put(n, at(k), 0), b) = Link(m, b)
      BY <2>1, <1>14
    <2> QED BY <2>2, <2>3 DEF k
  <1>22. ASSUME NEW k \in 0 .. Chunk - 1
         PROVE  Link(Strung(m, p), at(k)) = IF k < Chunk - 1 THEN at(k + 1) ELSE 0
    <2>1. CASE k < Chunk - 1 BY <2>1, <1>21
    <2>2. CASE k = Chunk - 1
      <3>1. ~(k < Chunk - 1) BY <2>2, <1>1
      <3> QED BY <3>1, <2>2, <1>21
    <2> QED BY <2>1, <2>2, <1>19
  <1> QED BY <1>21, <1>22 DEF at

----------------------------------------------------------------------------
(* The list.                                                               *)

\* The list is no longer than memory, and the list that TLC sees.
LEMMA ListingFacts ==
  ASSUME NEW cs, NEW used, NEW m, Placed(cs, used, m), NEW a, NEW q,
         Listing(cs, used, m, a, q)
  PROVE  ChainFrom(Nexts(m, ObjectsIn(cs)), a, MemTop) = q
  <1>1. MemTop \in Nat /\ Size \in Nat \ {0} /\ Word \in Nat \ {0} BY ChunkConstants
  <1>2. \A k \in 1 .. Len(q) : q[k] \in 1 .. MemTop
    <2> SUFFICES ASSUME NEW k \in 1 .. Len(q) PROVE q[k] \in 1 .. MemTop OBVIOUS
    <2>1. q[k] \in ObjectsIn(cs) BY DEF Listing
    <2>2. q[k] \in Nat \ {0} /\ q[k] + Size + Word <= MemTop
      BY <2>1, ObjectsApart DEF Placed
    <2> QED BY <2>2, <1>1
  <1>3. Len(q) <= MemTop BY <1>1, <1>2, DistinctShort DEF Listing
  <1> QED BY <1>1, <1>3, ChainIsList DEF Listing

\* The first object of the list is handed out.
LEMMA Given ==
  ASSUME LinkFits, NEW cs, NEW used, NEW m, Placed(cs, used, m), NEW a, NEW q,
         Listing(cs, used, m, a, q), q # <<>>
  PROVE  /\ a = Head(q) /\ a \in ObjectsIn(cs)
         /\ Placed(cs, used \cup {a}, Filled(m, a))
         /\ Listing(cs, used \cup {a}, Filled(m, a), Link(m, a), Tail(q))
  <1> DEFINE O == ObjectsIn(cs)
             n == Filled(m, a)
             r == Tail(q)
  <1>1. Size \in Nat \ {0} /\ Word \in Nat \ {0} /\ Word <= Size /\ MemTop \in Nat
    BY ChunkConstants DEF LinkFits
  <1>2. q \in Seq(Int) /\ IsChain(Nexts(m, O), a, q) /\ Len(q) \in Nat \ {0}
    BY EmptySeq DEF Listing
  <1>3. /\ r \in Seq(Int) /\ Len(r) = Len(q) - 1 /\ Head(q) = q[1]
        /\ \A k \in 1 .. Len(q) - 1 : r[k] = q[k + 1]
    BY <1>2, HeadTailProperties
  <1>4. /\ a = q[1] /\ a \in DOMAIN Nexts(m, O)
        /\ IsChain(Nexts(m, O), Nexts(m, O)[a], r)
    BY <1>2, <1>3, ChainPopped
  <1>5. a \in O /\ Nexts(m, O)[a] = Link(m, a) BY <1>4 DEF Nexts
  <1>6. /\ \A b \in O : b \in Nat \ {0} /\ b + Size + Word <= MemTop
        /\ \A b, c \in O : b # c => b + Size <= c \/ c + Size <= b
    BY ObjectsApart DEF Placed
  <1>7. /\ n \in Memory
        /\ \A b \in Nat \ {0} : b + Word <= MemTop /\ (a + Size <= b \/ b + Word <= a) =>
             Link(n, b) = Link(m, b)
    BY <1>5, <1>6, FilledFacts DEF Placed
  <1> HIDE DEF O, n, r
  <1>8. ASSUME NEW k \in 1 .. Len(r) PROVE r[k] \in O \ used /\ r[k] # a
    <2>1. k + 1 \in 1 .. Len(q) /\ 1 \in 1 .. Len(q) /\ k + 1 # 1 BY <1>2, <1>3
    <2>2. q[k + 1] \in O \ used BY <2>1 DEF Listing, O
    <2>3. q[k + 1] # q[1] BY <2>1 DEF Listing
    <2>4. r[k] = q[k + 1] BY <1>3
    <2> QED BY <2>2, <2>3, <2>4, <1>4
  <1>9. \A b \in O : b # a => Link(n, b) = Link(m, b)
    <2> SUFFICES ASSUME NEW b \in O, b # a PROVE Link(n, b) = Link(m, b) OBVIOUS
    <2>1. b \in Nat \ {0} /\ a \in Nat \ {0} /\ b + Size + Word <= MemTop BY <1>5, <1>6
    <2>2. a + Size <= b \/ b + Size <= a BY <1>5, <1>6
    <2>3. b + Word <= MemTop /\ (a + Size <= b \/ b + Word <= a) BY <1>1, <2>1, <2>2
    <2> QED BY <2>1, <2>3, <1>7
  <1>10. IsChain(Nexts(n, O), Link(m, a), r)
    <2>1. \A k \in 1 .. Len(r) :
            r[k] \in DOMAIN Nexts(n, O) /\ Nexts(n, O)[r[k]] = Nexts(m, O)[r[k]]
      BY <1>8, <1>9 DEF Nexts
    <2> QED BY <2>1, <1>4, <1>5, ChainKept
  <1>11. \A j, k \in 1 .. Len(r) : r[j] = r[k] => j = k
    <2> SUFFICES ASSUME NEW j \in 1 .. Len(r), NEW k \in 1 .. Len(r), r[j] = r[k] PROVE j = k
      OBVIOUS
    <2>1. j + 1 \in 1 .. Len(q) /\ k + 1 \in 1 .. Len(q) BY <1>2, <1>3
    <2>2. q[j + 1] = q[k + 1] BY <1>3
    <2>3. j + 1 = k + 1 BY <2>1, <2>2 DEF Listing
    <2> QED BY <2>3, <1>2, <1>3
  <1>12. ASSUME NEW o \in O \ (used \cup {a}) PROVE \E k \in 1 .. Len(r) : r[k] = o
    <2>1. PICK k \in 1 .. Len(q) : q[k] = o BY DEF Listing, O
    <2>2. k # 1 BY <2>1, <1>4
    <2>3. k - 1 \in 1 .. Len(r) /\ k - 1 + 1 = k BY <2>2, <1>2, <1>3
    <2>4. r[k - 1] = o BY <2>1, <2>3, <1>3
    <2> QED BY <2>3, <2>4
  <1>13. Listing(cs, used \cup {a}, n, Link(m, a), r)
    BY <1>3, <1>8, <1>10, <1>11, <1>12 DEF Listing, O
  <1>14. Placed(cs, used \cup {a}, n) BY <1>5, <1>7 DEF Placed, O
  <1> QED BY <1>3, <1>4, <1>5, <1>13, <1>14 DEF O, n, r

\* An object comes back.
LEMMA Taken ==
  ASSUME LinkFits, NEW cs, NEW used, NEW m, Placed(cs, used, m), NEW a, NEW q,
         Listing(cs, used, m, a, q), NEW o \in used
  PROVE  /\ Placed(cs, used \ {o}, Put(m, o, a))
         /\ Listing(cs, used \ {o}, Put(m, o, a), o, <<o>> \o q)
  <1> DEFINE O == ObjectsIn(cs)
             n == Put(m, o, a)
             r == <<o>> \o q
  <1>1. Size \in Nat \ {0} /\ Word \in Nat \ {0} /\ Word <= Size /\ MemTop \in Nat
    BY ChunkConstants DEF LinkFits
  <1>2. q \in Seq(Int) /\ IsChain(Nexts(m, O), a, q) /\ Len(q) \in Nat
    BY LenProperties DEF Listing
  <1>3. /\ \A b \in O : b \in Nat \ {0} /\ b + Size + Word <= MemTop
        /\ \A b, c \in O : b # c => b + Size <= c \/ c + Size <= b
    BY ObjectsApart DEF Placed
  <1>4. o \in O /\ o \in Nat \ {0} /\ o \in Int /\ o # 0 /\ o + Word <= MemTop
    <2>1. o \in O BY DEF Placed
    <2>2. o \in Nat \ {0} /\ o + Size + Word <= MemTop BY <2>1, <1>3
    <2> HIDE DEF O
    <2> QED BY <2>1, <2>2, <1>1
  <1>5. a \in Int
    <2>1. CASE q = <<>> BY <2>1, <1>2 DEF IsChain
    <2>2. CASE q # <<>>
      <3>1. 1 \in 1 .. Len(q) BY <2>2, <1>2, EmptySeq
      <3>2. q[1] \in Int BY <3>1, <1>2, ElementOfSeq
      <3> QED BY <2>2, <3>2, <1>2 DEF IsChain
    <2> QED BY <2>1, <2>2
  <1>6. /\ n \in Memory /\ Link(n, o) = a
        /\ \A b \in Nat \ {0} : b + Word <= MemTop /\ (o + Word <= b \/ b + Word <= o) =>
             Link(n, b) = Link(m, b)
    BY <1>4, <1>5, PutFacts DEF Placed
  <1> HIDE DEF O, n, r
  <1>7. \A k \in 1 .. Len(q) : q[k] \in O \ used /\ q[k] # o BY DEF Listing, O
  <1>8. \A b \in O : b # o => Link(n, b) = Link(m, b)
    <2> SUFFICES ASSUME NEW b \in O, b # o PROVE Link(n, b) = Link(m, b) OBVIOUS
    <2>1. b \in Nat \ {0} /\ b + Size + Word <= MemTop BY <1>3
    <2>2. o + Size <= b \/ b + Size <= o BY <1>3, <1>4
    <2>3. b + Word <= MemTop /\ (o + Word <= b \/ b + Word <= o) BY <1>1, <1>4, <2>1, <2>2
    <2> QED BY <2>1, <2>3, <1>6
  <1>9. IsChain(Nexts(n, O), a, q)
    <2>1. \A k \in 1 .. Len(q) :
            q[k] \in DOMAIN Nexts(n, O) /\ Nexts(n, O)[q[k]] = Nexts(m, O)[q[k]]
      BY <1>7, <1>8 DEF Nexts
    <2> QED BY <2>1, <1>2, ChainKept
  <1>10. o \in DOMAIN Nexts(n, O) /\ Nexts(n, O)[o] = a BY <1>4, <1>6 DEF Nexts
  <1>11. /\ r \in Seq(Int) /\ Len(r) = Len(q) + 1 /\ r[1] = o
         /\ \A k \in 1 .. Len(q) : r[k + 1] = q[k]
         /\ IsChain(Nexts(n, O), o, r)
    BY <1>2, <1>4, <1>9, <1>10, ChainPushed DEF r
  <1>12. \A k \in 1 .. Len(r) : k = 1 \/ (k - 1 \in 1 .. Len(q) /\ r[k] = q[k - 1])
    <2> SUFFICES ASSUME NEW k \in 1 .. Len(r), k # 1
                 PROVE  k - 1 \in 1 .. Len(q) /\ r[k] = q[k - 1]
      OBVIOUS
    <2>1. k - 1 \in 1 .. Len(q) /\ k - 1 + 1 = k BY <1>2, <1>11
    <2> QED BY <2>1, <1>11
  <1>13. \A j, k \in 1 .. Len(r) : r[j] = r[k] => j = k
    <2> SUFFICES ASSUME NEW j \in 1 .. Len(r), NEW k \in 1 .. Len(r), r[j] = r[k] PROVE j = k
      OBVIOUS
    <2>1. CASE j = 1 /\ k = 1 BY <2>1
    <2>2. CASE j = 1 /\ k # 1 BY <2>2, <1>7, <1>11, <1>12
    <2>3. CASE j # 1 /\ k = 1 BY <2>3, <1>7, <1>11, <1>12
    <2>4. CASE j # 1 /\ k # 1
      <3>1. /\ j - 1 \in 1 .. Len(q) /\ k - 1 \in 1 .. Len(q)
            /\ q[j - 1] = q[k - 1]
        BY <2>4, <1>12
      <3>2. j - 1 = k - 1 BY <3>1 DEF Listing
      <3> QED BY <3>2, <1>2, <1>11
    <2> QED BY <2>1, <2>2, <2>3, <2>4
  <1>14. \A k \in 1 .. Len(r) : r[k] \in O \ (used \ {o}) BY <1>4, <1>7, <1>11, <1>12
  <1>15. ASSUME NEW b \in O \ (used \ {o}) PROVE \E k \in 1 .. Len(r) : r[k] = b
    <2>1. CASE b = o
      <3>1. 1 \in 1 .. Len(r) BY <1>2, <1>11
      <3> QED BY <2>1, <3>1, <1>11
    <2>2. CASE b # o
      <3>1. b \in O \ used BY <2>2
      <3>2. PICK k \in 1 .. Len(q) : q[k] = b BY <3>1 DEF Listing, O
      <3>3. k + 1 \in 1 .. Len(r) BY <1>2, <1>11
      <3> QED BY <3>2, <3>3, <1>11
    <2> QED BY <2>1, <2>2
  <1>16. Listing(cs, used \ {o}, n, o, r) BY <1>11, <1>13, <1>14, <1>15 DEF Listing, O
  <1>17. Placed(cs, used \ {o}, n) BY <1>6 DEF Placed
  <1> QED BY <1>16, <1>17 DEF n, r

\* A new chunk: its objects are the list.
LEMMA Grown ==
  ASSUME LinkFits, NEW cs, NEW used, NEW m, Placed(cs, used, m),
         ObjectsIn(cs) \subseteq used, NEW p \in Bases,
         \A q \in cs : p + Chunk * Size <= q \/ q + Chunk * Size <= p
  PROVE  LET new == [k \in 1 .. Chunk |-> p + (k - 1) * Size]
         IN  /\ Placed(cs \cup {p}, used, Strung(m, p))
             /\ Listing(cs \cup {p}, used, Strung(m, p), p, new)
             /\ new # <<>>
             /\ \A a \in used : a + Size <= p \/ p + Chunk * Size <= a
  <1> DEFINE new == [k \in 1 .. Chunk |-> p + (k - 1) * Size]
             at(k) == p + k * Size
             n == Strung(m, p)
             y == Chunk * Size
             O == ObjectsIn(cs \cup {p})
  <1>1. /\ Chunk \in Nat \ {0} /\ Size \in Nat \ {0} /\ Word \in Nat \ {0}
        /\ MemTop \in Nat /\ p \in Nat \ {0} /\ y \in Nat
    BY ChunkConstants, BaseFacts, Times
  <1>2. /\ n \in Memory
        /\ \A k \in 0 .. Chunk - 1 : Link(n, at(k)) = IF k < Chunk - 1 THEN at(k + 1) ELSE 0
    BY StrungFacts DEF Placed
  <1>3. \A k \in 0 .. Chunk - 1 :
          at(k) \in Nat \ {0} /\ p <= at(k) /\ at(k) + Size <= p + y
    BY ObjectFacts
  <1>4. at(0) = p BY <1>1
  <1>5. O = ObjectsIn(cs) \cup {at(k) : k \in 0 .. Chunk - 1} BY DEF ObjectsIn
  <1>6. \A j, k \in 0 .. Chunk - 1 : at(j) = at(k) => j = k
    <2> SUFFICES ASSUME NEW j \in 0 .. Chunk - 1, NEW k \in 0 .. Chunk - 1, j < k
                 PROVE  at(j) # at(k)
      BY <1>1
    <2> DEFINE u == j * Size
               v == k * Size
    <2>1. u \in Nat /\ v \in Nat /\ u + Size <= v BY <1>1, Times
    <2> HIDE DEF u, v
    <2>2. p + u # p + v BY <2>1, <1>1
    <2> QED BY <2>2 DEF u, v
  <1>7. \A q \in cs : p + y <= q \/ q + y <= p OBVIOUS
  <1>8. \A b \in ObjectsIn(cs) : b \in Nat /\ (b + Size <= p \/ p + y <= b)
    <2> SUFFICES ASSUME NEW b \in ObjectsIn(cs)
                 PROVE  b \in Nat /\ (b + Size <= p \/ p + y <= b)
      OBVIOUS
    <2>1. PICK q \in cs, j \in 0 .. Chunk - 1 : b = q + j * Size BY DEF ObjectsIn
    <2>2. q \in Bases BY DEF Placed
    <2>3. b \in Nat /\ q <= b /\ b + Size <= q + y BY <2>1, <2>2, ObjectFacts
    <2>4. p + y <= q \/ q + y <= p BY <1>7
    <2>5. q \in Nat BY <2>2, BaseFacts
    <2> HIDE DEF y
    <2> QED BY <2>3, <2>4, <2>5, <1>1
  <1> HIDE DEF y, n, O
  <1>9. \A k \in 0 .. Chunk - 1 : at(k) \notin ObjectsIn(cs) BY <1>1, <1>3, <1>8
  <1>10. used = ObjectsIn(cs) BY DEF Placed
  <1>11. cs \cup {p} \subseteq Bases /\ Separate(cs \cup {p})
    BY <1>7 DEF Placed, Separate, y
  <1>12. /\ new \in Seq(Int) /\ Len(new) = Chunk
         /\ \A k \in 1 .. Chunk : k - 1 \in 0 .. Chunk - 1 /\ new[k] = at(k - 1)
    <2>1. \A k \in 1 .. Chunk : k - 1 \in 0 .. Chunk - 1 BY <1>1
    <2>2. \A k \in 1 .. Chunk : at(k - 1) \in Int BY <2>1, <1>3
    <2>3. new \in [1 .. Chunk -> Int] BY <2>2
    <2> HIDE DEF at
    <2>4. \A k \in 1 .. Chunk : new[k] = at(k - 1) BY DEF at
    <2> HIDE DEF new
    <2>5. new \in Seq(Int) /\ Len(new) = Chunk BY <2>3, <1>1
    <2> QED BY <2>1, <2>4, <2>5
  <1>13. new # <<>> BY <1>1, <1>12, EmptySeq
  <1> HIDE DEF new
  <1> HIDE DEF at
  <1>14. ASSUME NEW k \in 1 .. Chunk
         PROVE  /\ new[k] # 0 /\ new[k] \in DOMAIN Nexts(n, O)
                /\ Nexts(n, O)[new[k]] = IF k < Chunk THEN new[k + 1] ELSE 0
    <2> DEFINE j == k - 1
    <2>1. /\ j \in 0 .. Chunk - 1 /\ new[k] = at(j) /\ j + 1 = k
          /\ (j < Chunk - 1 <=> k < Chunk)
      BY <1>1, <1>12
    <2>2. k < Chunk => k + 1 \in 1 .. Chunk /\ k + 1 - 1 = k BY <1>1
    <2>3. k < Chunk => new[k + 1] = at(k) BY <2>2, <1>12
    <2> HIDE DEF j
    <2>4. at(j) # 0 /\ at(j) \in O BY <2>1, <1>3, <1>5
    <2>5. Link(n, at(j)) = IF j < Chunk - 1 THEN at(j + 1) ELSE 0 BY <2>1, <1>2
    <2>6. Nexts(n, O)[at(j)] = Link(n, at(j)) /\ DOMAIN Nexts(n, O) = O BY <2>4 DEF Nexts
    <2> QED BY <2>1, <2>3, <2>4, <2>5, <2>6
  <1>15. new[1] = p
    <2>1. 1 \in 1 .. Chunk /\ 1 - 1 = 0 BY <1>1
    <2> QED BY <2>1, <1>12, <1>4
  <1>16. IsChain(Nexts(n, O), p, new) BY <1>12, <1>13, <1>14, <1>15 DEF IsChain
  <1>17. \A j, k \in 1 .. Len(new) : new[j] = new[k] => j = k
    <2> SUFFICES ASSUME NEW j \in 1 .. Chunk, NEW k \in 1 .. Chunk, new[j] = new[k] PROVE j = k
      BY <1>12
    <2>1. at(j - 1) = at(k - 1) /\ j - 1 \in 0 .. Chunk - 1 /\ k - 1 \in 0 .. Chunk - 1 BY <1>12
    <2>2. j - 1 = k - 1 BY <2>1, <1>6
    <2> QED BY <2>2
  <1>18. \A k \in 1 .. Len(new) : new[k] \in O \ used BY <1>5, <1>9, <1>10, <1>12
  <1>19. ASSUME NEW b \in O \ used PROVE \E k \in 1 .. Len(new) : new[k] = b
    <2>1. PICK j \in 0 .. Chunk - 1 : b = at(j) BY <1>5, <1>10
    <2>2. j + 1 \in 1 .. Chunk /\ j + 1 - 1 = j BY <1>1
    <2>3. new[j + 1] = at(j) BY <2>2, <1>12
    <2> QED BY <2>1, <2>2, <2>3, <1>12
  <1>20. Listing(cs \cup {p}, used, n, p, new)
    BY <1>12, <1>16, <1>17, <1>18, <1>19 DEF Listing, O
  <1>21. Placed(cs \cup {p}, used, n) BY <1>2, <1>5, <1>10, <1>11 DEF Placed, O
  <1> QED BY <1>8, <1>10, <1>13, <1>20, <1>21 DEF n, y, new

----------------------------------------------------------------------------
(* The steps, and the steps of ObjectStore that they are.                  *)

LEMMA FreeIs ==
  ASSUME Placed(chunks, live, mem), NEW q, Listing(chunks, live, mem, free_store_, q)
  PROVE  Free = q
  <1>1. Objects = ObjectsIn(chunks) BY DEF Objects, ObjectsIn
  <1> QED BY <1>1, ListingFacts DEF Free

\* The same of the next state.
LEMMA FreeNextIs ==
  ASSUME NEW cs, NEW used, NEW m, NEW a, cs = chunks', used = live', m = mem', a = free_store_',
         Placed(cs, used, m), NEW q, Listing(cs, used, m, a, q)
  PROVE  IInv' /\ Free' = q
  <1>1. Objects' = ObjectsIn(cs) BY DEF Objects, ObjectsIn
  <1>2. Free' = q BY <1>1, ListingFacts DEF Free
  <1>3. IInv' BY DEF IInv
  <1> QED BY <1>2, <1>3

LEMMA InitOK == Init => IInv /\ Store!Init
  <1> SUFFICES ASSUME Init PROVE IInv /\ Store!Init OBVIOUS
  <1>1. /\ free_store_ = 0 /\ chunks = {} /\ live = {} /\ mem = [x \in 1 .. MemTop |-> Data]
    BY DEF Init
  <1>2. ObjectsIn(chunks) = {} BY <1>1 DEF ObjectsIn
  <1>3. Placed(chunks, live, mem)
    <2>1. Data \in Int \X Int BY DEF Data
    <2>2. mem \in Memory BY <1>1, <2>1 DEF Memory
    <2> QED BY <1>1, <2>2 DEF Placed, Separate
  <1>4. Listing(chunks, live, mem, free_store_, <<>>)
    <2>1. <<>> \in Seq(Int) /\ Len(<<>>) = 0 BY EmptySeq
    <2>2. 1 .. 0 = {} OBVIOUS
    <2>3. IsChain(Nexts(mem, ObjectsIn(chunks)), free_store_, <<>>)
      BY <1>1, <2>1, <2>2 DEF IsChain
    <2> QED BY <1>2, <2>1, <2>2, <2>3 DEF Listing
  <1>5. Free = <<>> BY <1>3, <1>4, FreeIs
  <1>6. IInv BY <1>3, <1>4 DEF IInv
  <1> QED BY <1>1, <1>5, <1>6 DEF Store!Init

LEMMA NewOK ==
  ASSUME LinkFits, IInv, New
  PROVE  IInv' /\ Store!Reuse
  <1>1. PICK q : Placed(chunks, live, mem) /\ Listing(chunks, live, mem, free_store_, q)
    BY DEF IInv
  <1>2. Free = q BY <1>1, FreeIs
  <1>3. /\ free_store_ # 0 /\ free_store_' = Link(mem, free_store_)
        /\ live' = live \cup {free_store_} /\ mem' = Filled(mem, free_store_)
        /\ chunks' = chunks
    BY DEF New, Give
  <1>4. q # <<>> BY <1>1, <1>3 DEF Listing, IsChain
  <1>5. /\ free_store_ = Head(q)
        /\ Placed(chunks', live', mem')
        /\ Listing(chunks', live', mem', free_store_', Tail(q))
    BY <1>1, <1>3, <1>4, Given
  <1>6. IInv' /\ Free' = Tail(q) BY <1>5, FreeNextIs
  <1> QED BY <1>2, <1>3, <1>4, <1>5, <1>6 DEF Store!Reuse

LEMMA NewChunkOK ==
  ASSUME LinkFits, IInv, NEW p \in Bases, NewChunk(p)
  PROVE  IInv' /\ Store!NewChunk(p)
  <1>1. PICK q : Placed(chunks, live, mem) /\ Listing(chunks, live, mem, free_store_, q)
    BY DEF IInv
  <1>2. Free = q BY <1>1, FreeIs
  <1> DEFINE m == Strung(mem, p)
             new == [k \in 1 .. Chunk |-> p + (k - 1) * Size]
  <1>3. /\ free_store_ = 0 /\ chunks' = chunks \cup {p}
        /\ \A c \in chunks : p + Chunk * Size <= c \/ c + Chunk * Size <= p
        /\ free_store_' = Link(m, p) /\ live' = live \cup {p} /\ mem' = Filled(m, p)
    BY DEF NewChunk, Give
  <1>4. q = <<>>
    <2>1. SUFFICES ASSUME q # <<>> PROVE FALSE OBVIOUS
    <2>2. q \in Seq(Int) /\ Len(q) \in Nat \ {0} BY <1>1, <2>1, EmptySeq DEF Listing
    <2>3. q[1] # 0 BY <1>1, <2>2 DEF Listing, IsChain
    <2> QED BY <1>1, <1>3, <2>1, <2>3 DEF Listing, IsChain
  <1>5. ObjectsIn(chunks) \subseteq live
    <2>1. Len(q) = 0 BY <1>4, EmptySeq
    <2> QED BY <2>1, <1>1 DEF Listing
  <1>6. /\ Placed(chunks \cup {p}, live, m)
        /\ Listing(chunks \cup {p}, live, m, p, new)
        /\ new # <<>>
        /\ \A a \in live : a + Size <= p \/ p + Chunk * Size <= a
    BY <1>1, <1>3, <1>5, Grown
  <1> HIDE DEF m, new
  <1>7. /\ Placed(chunks', live', mem')
        /\ Listing(chunks', live', mem', free_store_', Tail(new))
    BY <1>3, <1>6, Given
  <1>8. IInv' /\ Free' = Tail(new) BY <1>7, FreeNextIs
  <1> QED BY <1>2, <1>3, <1>4, <1>6, <1>8 DEF Store!NewChunk, Store!Apart, Store!ChunkAt, new

LEMMA DeleteOK ==
  ASSUME LinkFits, IInv, NEW a, Delete(a)
  PROVE  IInv' /\ a \in live /\ Store!Delete(a)
  <1>1. PICK q : Placed(chunks, live, mem) /\ Listing(chunks, live, mem, free_store_, q)
    BY DEF IInv
  <1>2. Free = q BY <1>1, FreeIs
  <1>3. /\ a \in live /\ mem' = Put(mem, a, free_store_) /\ free_store_' = a
        /\ live' = live \ {a} /\ chunks' = chunks
    BY DEF Delete
  <1>4. /\ Placed(chunks', live', mem')
        /\ Listing(chunks', live', mem', free_store_', <<a>> \o q)
    BY <1>1, <1>3, Taken
  <1>5. IInv' /\ Free' = <<a>> \o q BY <1>4, FreeNextIs
  <1> QED BY <1>2, <1>3, <1>5 DEF Store!Delete

\* Every step keeps the invariant and is a step of ObjectStore or none.
LEMMA StepOK ==
  ASSUME LinkFits
  PROVE  IInv /\ [Next]_vars => IInv' /\ [Store!Next]_(Store!vars)
  <1> SUFFICES ASSUME IInv, [Next]_vars PROVE IInv' /\ [Store!Next]_(Store!vars) OBVIOUS
  <1>1. CASE New BY <1>1, NewOK DEF Store!Next
  <1>2. ASSUME NEW p \in Bases, NewChunk(p) PROVE IInv' /\ [Store!Next]_(Store!vars)
    BY <1>2, NewChunkOK DEF Store!Next
  <1>3. ASSUME NEW a \in Objects, Delete(a) PROVE IInv' /\ [Store!Next]_(Store!vars)
    BY <1>3, DeleteOK DEF Store!Next
  <1>4. CASE UNCHANGED vars
    <2>1. Objects' = Objects BY <1>4 DEF vars, Objects
    <2>2. Free' = Free BY <1>4, <2>1 DEF vars, Free
    <2>3. IInv' BY <1>4 DEF vars, IInv
    <2> QED BY <2>2, <2>3, <1>4 DEF vars, Store!vars
  <1> QED BY <1>1, <1>2, <1>3, <1>4 DEF Next

\* The invariant holds of every state that the allocator reaches.
THEOREM Invariance == LinkFits => (Spec => []IInv)
  <1> SUFFICES ASSUME LinkFits PROVE Spec => []IInv OBVIOUS
  <1>1. Init => IInv BY InitOK
  <1>2. IInv /\ [Next]_vars => IInv' BY StepOK
  <1> QED BY <1>1, <1>2, PTL DEF Spec

----------------------------------------------------------------------------
\* The list starts at an object, and objects in use belong to a chunk.
THEOREM TypeCorrect == LinkFits => (Spec => []TypeOK)
  <1> SUFFICES ASSUME LinkFits PROVE Spec => []TypeOK OBVIOUS
  <1>1. IInv => TypeOK
    <2> SUFFICES ASSUME IInv PROVE TypeOK OBVIOUS
    <2>1. PICK q : Placed(chunks, live, mem) /\ Listing(chunks, live, mem, free_store_, q)
      BY DEF IInv
    <2>2. Objects = ObjectsIn(chunks) BY DEF Objects, ObjectsIn
    <2>3. free_store_ \in Objects \cup {0}
      <3>1. CASE q = <<>> BY <3>1, <2>1 DEF Listing, IsChain
      <3>2. CASE q # <<>>
        <4>1. Len(q) \in Nat \ {0} BY <3>2, <2>1, EmptySeq DEF Listing
        <4>2. q[1] \in ObjectsIn(chunks) BY <4>1, <2>1 DEF Listing
        <4> QED BY <3>2, <4>2, <2>1, <2>2 DEF Listing, IsChain
      <3> QED BY <3>1, <3>2
    <2> QED BY <2>1, <2>2, <2>3 DEF TypeOK, Placed
  <1> QED BY <1>1, Invariance, PTL

\* Each object of the chunks is in use or on the list, and on the list once:
\* no link is lost to what objects keep in the same bytes (operator new,
\* operator delete).
THEOREM ObjectsOnce == LinkFits => (Spec => []EachObjectOnce)
  <1> SUFFICES ASSUME LinkFits PROVE Spec => []EachObjectOnce OBVIOUS
  <1>1. IInv => EachObjectOnce
    <2> SUFFICES ASSUME IInv PROVE EachObjectOnce OBVIOUS
    <2>1. PICK q : Placed(chunks, live, mem) /\ Listing(chunks, live, mem, free_store_, q)
      BY DEF IInv
    <2>2. Objects = ObjectsIn(chunks) BY DEF Objects, ObjectsIn
    <2>3. Free = q BY <2>1, FreeIs
    <2>4. DOMAIN q = 1 .. Len(q) BY <2>1, LenProperties DEF Listing
    <2>5. {q[k] : k \in DOMAIN q} = ObjectsIn(chunks) \ live BY <2>1, <2>4 DEF Listing
    <2>6. \A j, k \in DOMAIN q : q[j] = q[k] => j = k BY <2>1, <2>4 DEF Listing
    <2> QED BY <2>2, <2>3, <2>5, <2>6 DEF EachObjectOnce
  <1> QED BY <1>1, Invariance, PTL

\* The links in memory are the list of ObjectStore: objects come side by
\* side, and the last one deleted is the first used again.
THEOREM StoreRefinement == LinkFits => (Spec => ImplementsStore)
  <1> SUFFICES ASSUME LinkFits PROVE Spec => ImplementsStore OBVIOUS
  <1>1. Init => Store!Init BY InitOK
  <1>2. IInv /\ [Next]_vars => [Store!Next]_(Store!vars) BY StepOK
  <1> QED BY <1>1, <1>2, Invariance, PTL DEF Spec, ImplementsStore, Store!Spec

----------------------------------------------------------------------------
(* The contract of all allocators.                                         *)

\* An object that is handed out was not in use.
LEMMA GivenWasFree ==
  ASSUME LinkFits, IInv
  PROVE  /\ New => free_store_ \notin live
         /\ \A p \in Bases : NewChunk(p) => p \notin live
  <1>1. PICK q : Placed(chunks, live, mem) /\ Listing(chunks, live, mem, free_store_, q)
    BY DEF IInv
  <1>2. ASSUME New PROVE free_store_ \notin live
    <2>1. Free = q /\ Free # <<>> /\ live' = live \cup {Head(Free)}
          /\ live' = live \cup {free_store_}
      BY <1>1, <1>2, FreeIs, NewOK DEF Store!Reuse, New, Give
    <2>2. q \in Seq(Int) /\ Len(q) \in Nat \ {0} BY <1>1, <2>1, EmptySeq DEF Listing
    <2>3. free_store_ = q[1] BY <1>1, <2>1 DEF Listing, IsChain
    <2> QED BY <1>1, <2>2, <2>3 DEF Listing
  <1>3. ASSUME NEW p \in Bases, NewChunk(p), p \in live PROVE FALSE
    <2>1. p + Size <= p \/ p + Chunk * Size <= p
      BY <1>3, NewChunkOK DEF Store!NewChunk, Store!Apart
    <2>2. Size \in Nat \ {0} /\ Chunk \in Nat \ {0} /\ p \in Nat BY ChunkConstants, BaseFacts
    <2>3. Chunk * Size \in Nat \ {0} BY <2>2
    <2> QED BY <2>1, <2>2, <2>3
  <1> QED BY <1>2, <1>3

\* Handing out an object that was not in use is a grant.
LEMMA GivenIsGrant ==
  ASSUME IInv', NEW a, a \notin live, live' = live \cup {a}
  PROVE  Contract!Next
  <1>1. chunks' \subseteq Bases /\ Separate(chunks') /\ live' \subseteq ObjectsIn(chunks')
    BY DEF IInv, Placed
  <1>2. /\ \A b \in live' : b \in Nat \ {0} /\ b + Size + Word <= MemTop
        /\ \A b, c \in live' : b # c => b + Size <= c \/ c + Size <= b
    <2>1. PICK cs : cs = chunks' OBVIOUS
    <2>2. /\ \A b \in ObjectsIn(cs) : b \in Nat \ {0} /\ b + Size + Word <= MemTop
          /\ \A b, c \in ObjectsIn(cs) : b # c => b + Size <= c \/ c + Size <= b
      BY <1>1, <2>1, ObjectsApart
    <2>3. live' \subseteq ObjectsIn(cs) BY <1>1, <2>1 DEF ObjectsIn
    <2> QED BY <2>2, <2>3
  <1>3. a \in 1 .. MemTop /\ a % 1 = 0 BY <1>2, ChunkConstants
  <1>4. \A x \in InUse : Contract!Disjoint(a, Size, x.addr, x.bytes)
    BY <1>2 DEF Contract!Disjoint, InUse
  <1>5. InUse' = InUse \cup {[addr |-> a, bytes |-> Size]} BY DEF InUse
  <1>6. Contract!Grant(Size, a) BY <1>3, <1>4, <1>5 DEF Contract!Grant
  <1> QED BY <1>3, <1>6 DEF Contract!Next

\* Deleting an object gives its block back.
LEMMA DeletedIsRelease ==
  ASSUME NEW a \in live, live' = live \ {a}
  PROVE  Contract!Next
  <1> DEFINE x == [addr |-> a, bytes |-> Size]
  <1>1. x \in InUse BY DEF InUse
  <1>2. InUse' = InUse \ {x} BY DEF InUse
  <1>3. Contract!Release(x) BY <1>2 DEF Contract!Release
  <1> QED BY <1>1, <1>3 DEF Contract!Next

\* No two objects in use share a byte, and an object stays its owner's until
\* it is deleted (operator new, operator delete).
THEOREM ContractRefinement == LinkFits => (Spec => ImplementsContract)
  <1> SUFFICES ASSUME LinkFits PROVE Spec => ImplementsContract OBVIOUS
  <1>1. Init => Contract!Init BY DEF Init, Contract!Init, InUse
  <1>2. IInv /\ [Next]_vars => [Contract!Next]_InUse
    <2> SUFFICES ASSUME IInv, [Next]_vars PROVE [Contract!Next]_InUse OBVIOUS
    <2>1. CASE New
      <3>1. live' = live \cup {free_store_} BY <2>1 DEF New, Give
      <3> QED BY <2>1, <3>1, NewOK, GivenWasFree, GivenIsGrant
    <2>2. ASSUME NEW p \in Bases, NewChunk(p) PROVE Contract!Next
      <3>1. live' = live \cup {p} BY <2>2 DEF NewChunk, Give
      <3> QED BY <2>2, <3>1, NewChunkOK, GivenWasFree, GivenIsGrant
    <2>3. ASSUME NEW a \in Objects, Delete(a) PROVE Contract!Next
      BY <2>3, DeletedIsRelease DEF Delete
    <2>4. CASE UNCHANGED vars BY <2>4 DEF vars, InUse
    <2> QED BY <2>1, <2>2, <2>3, <2>4 DEF Next
  <1> QED BY <1>1, <1>2, Invariance, PTL DEF Spec, ImplementsContract, Contract!Spec
=============================================================================
