-------------------------- MODULE PoolAlloc_proofs --------------------------
(***************************************************************************)
(* Proofs about PoolAlloc, for every alignment, number of lists, objects   *)
(* per refill, heap and requests.                                          *)
(*                                                                         *)
(* The invariant says that the pieces memory is cut into (live blocks,     *)
(* blocks on the lists, the chunk) do not overlap and lie in memory        *)
(* operator new gave out.  It is stated for arbitrary lists, chunk, heap   *)
(* and live blocks, because an allocation goes through states of the pool  *)
(* that are no state of the specification: the left-over piece is filed,   *)
(* a new chunk is set, the chunk is cut up.  There is one lemma for each   *)
(* such move; an action is a sequence of moves.                            *)
(***************************************************************************)
EXTENDS PoolAlloc, TLAPS

----------------------------------------------------------------------------
(* Arithmetic of sizes and lists.                                          *)

\* _M_round_up returns the next multiple of Align.
LEMMA RoundUpFacts ==
  ASSUME NEW b \in Nat
  PROVE  /\ RoundUp(b) \in Nat
         /\ RoundUp(b) >= b
         /\ RoundUp(b) % Align = 0
  <1>1. Align \in Nat \ {0} BY PoolConstants
  <1>2. (b + Align - 1) \in Nat BY <1>1
  <1> DEFINE x == b + Align - 1
  <1>3. x \div Align \in Nat /\ x % Align \in 0 .. Align - 1 BY <1>1, <1>2
  <1>4. x = (x \div Align) * Align + (x % Align) BY <1>1, <1>2
  <1>5. ((x \div Align) * Align) % Align = 0 BY <1>1, <1>3
  <1>6. (x \div Align) * Align \in Nat BY <1>1, <1>3
  <1> QED BY <1>1, <1>3, <1>4, <1>5, <1>6 DEF RoundUp

\* Every size the pool serves has a list, and _M_get_free_list finds the one
\* whose blocks have the rounded size.
LEMMA ListOfSize ==
  ASSUME NEW b \in Nat \ {0}, b <= MaxBytes
  PROVE  /\ FreeListOf(b) \in Lists
         /\ BlockSize(FreeListOf(b)) = RoundUp(b)
         /\ FreeListOf(RoundUp(b)) = FreeListOf(b)
         /\ RoundUp(b) <= MaxBytes
  <1>1. Align \in Nat \ {0} /\ MaxBytes \in Nat /\ MaxBytes % Align = 0
    BY PoolConstants
  <1> DEFINE x == b + Align - 1
             q == x \div Align
             t == MaxBytes \div Align
  <1>2. x \in Nat /\ x >= Align BY <1>1
  <1>3. q \in Nat /\ x % Align \in 0 .. Align - 1 BY <1>1, <1>2
  <1>4. x = q * Align + (x % Align) BY <1>1, <1>2
  <1>5. t \in Nat /\ MaxBytes = t * Align BY <1>1
  <1>6. q >= 1
    <2>1. SUFFICES ASSUME q = 0 PROVE FALSE BY <1>3
    <2> QED BY <2>1, <1>2, <1>3, <1>4, <1>1
  <1>7. q <= t
    <2>1. SUFFICES ASSUME q >= t + 1 PROVE FALSE BY <1>3, <1>5
    <2>2. q * Align >= (t + 1) * Align BY <2>1, <1>1, <1>3, <1>5
    <2>3. (t + 1) * Align = t * Align + Align BY <1>1, <1>5
    <2>4. q * Align \in Nat /\ t * Align \in Nat BY <1>1, <1>3, <1>5
    <2> QED BY <2>2, <2>3, <2>4, <1>1, <1>3, <1>4, <1>5
  <1>8. FreeListOf(b) = q - 1 BY DEF FreeListOf
  <1>9. RoundUp(b) = q * Align BY DEF RoundUp
  <1>10. FreeListOf(b) \in Lists BY <1>3, <1>5, <1>6, <1>7, <1>8 DEF Lists
  <1>11. BlockSize(FreeListOf(b)) = RoundUp(b)
    BY <1>3, <1>8, <1>9 DEF BlockSize
  <1>12. RoundUp(b) <= MaxBytes BY <1>1, <1>3, <1>5, <1>7, <1>9
  <1>13. (q * Align + (Align - 1)) \div Align = q BY <1>1, <1>3
  <1>14. FreeListOf(RoundUp(b)) = FreeListOf(b)
    <2>1. q * Align \in Nat BY <1>1, <1>3
    <2>2. q * Align + Align - 1 = q * Align + (Align - 1) BY <2>1, <1>1
    <2> HIDE DEF q
    <2> QED BY <2>2, <1>8, <1>9, <1>13 DEF FreeListOf
  <1> QED BY <1>10, <1>11, <1>12, <1>14

\* A block of a list has a positive size, a multiple of Align.
LEMMA BlockSizeFacts ==
  ASSUME NEW i \in Lists
  PROVE  /\ BlockSize(i) \in Nat \ {0}
         /\ BlockSize(i) % Align = 0
  <1>1. Align \in Nat \ {0} /\ MaxBytes \in Nat BY PoolConstants
  <1>2. MaxBytes \div Align \in Nat BY <1>1
  <1>3. i + 1 \in Nat \ {0} BY <1>2 DEF Lists
  <1>4. (i + 1) * Align \in Nat \ {0} BY <1>1, <1>3
  <1>5. ((i + 1) * Align) % Align = 0 BY <1>1, <1>3
  <1> QED BY <1>4, <1>5 DEF BlockSize

\* Sums and differences of multiples of Align are multiples of Align.
LEMMA Multiples ==
  ASSUME NEW x \in Nat, NEW y \in Nat, x % Align = 0, y % Align = 0
  PROVE  /\ (x + y) % Align = 0
         /\ x >= y => (x - y) % Align = 0
  <1>1. Align \in Nat \ {0} BY PoolConstants
  <1>2. PICK k \in Nat : x = k * Align BY <1>1
  <1>3. PICK m \in Nat : y = m * Align BY <1>1
  <1>4. (x + y) % Align = 0
    <2>1. x + y = (k + m) * Align BY <1>1, <1>2, <1>3
    <2>2. k + m \in Nat /\ ((k + m) * Align) % Align = 0 BY <1>1
    <2> QED BY <2>1, <2>2
  <1>5. ASSUME x >= y PROVE (x - y) % Align = 0
    <2>1. k >= m
      <3>1. SUFFICES ASSUME m >= k + 1 PROVE FALSE OBVIOUS
      <3>2. m * Align >= (k + 1) * Align BY <3>1, <1>1
      <3>3. (k + 1) * Align = k * Align + Align BY <1>1
      <3> QED BY <3>2, <3>3, <1>1, <1>2, <1>3, <1>5
    <2>2. k - m \in Nat /\ x - y = (k - m) * Align BY <2>1, <1>1, <1>2, <1>3
    <2>3. ((k - m) * Align) % Align = 0 BY <2>2, <1>1
    <2> QED BY <2>2, <2>3
  <1> QED BY <1>4, <1>5

\* Rounding a multiple of Align leaves it alone.
LEMMA RoundUpOfMultiple ==
  ASSUME NEW x \in Nat, x % Align = 0
  PROVE  RoundUp(x) = x
  <1>1. Align \in Nat \ {0} BY PoolConstants
  <1>2. PICK k \in Nat : x = k * Align BY <1>1
  <1>3. (k * Align + (Align - 1)) \div Align = k BY <1>1
  <1>4. x + Align - 1 = k * Align + (Align - 1) BY <1>1, <1>2
  <1> QED BY <1>2, <1>3, <1>4 DEF RoundUp

----------------------------------------------------------------------------
(* Free lists as sequences.                                                *)

\* Taking the head off a list leaves the other places in order.
LEMMA TailPlaces ==
  ASSUME NEW q \in Seq(Nat), q # <<>>
  PROVE  /\ Tail(q) \in Seq(Nat)
         /\ 1 \in DOMAIN q /\ Head(q) = q[1] /\ Head(q) \in Nat
         /\ \A k \in DOMAIN Tail(q) :
              k \in Nat \ {0} /\ k + 1 \in DOMAIN q /\ Tail(q)[k] = q[k + 1]
  OBVIOUS

\* Pushing a block on a list adds one place, in front of the others.
LEMMA PushPlaces ==
  ASSUME NEW q \in Seq(Nat), NEW p \in Nat
  PROVE  /\ <<p>> \o q \in Seq(Nat)
         /\ \A k \in DOMAIN (<<p>> \o q) :
              \/ k = 1 /\ (<<p>> \o q)[k] = p
              \/ k \in Nat \ {0, 1} /\ k - 1 \in DOMAIN q /\ (<<p>> \o q)[k] = q[k - 1]
  OBVIOUS

----------------------------------------------------------------------------
(* The invariant, of lists L, chunk [s, e), heap H and live blocks V.      *)

BackedBy(H, p, m) == \E r \in H : Inside(p, m, r)

Typed(L, s, e, H, V) ==
  /\ L \in [Lists -> Seq(Nat)]
  /\ s \in Nat
  /\ e \in Nat
  /\ H \subseteq Blocks
  /\ V \subseteq Blocks
  /\ \A x \in V : x.bytes \in Requests

CutAligned(L, s, e, V) ==
  /\ s <= e
  /\ s % Align = 0
  /\ e % Align = 0
  /\ \A x \in V : x.addr % Align = 0
  /\ \A i \in Lists : \A k \in DOMAIN L[i] : L[i][k] % Align = 0

LivePrivate(L, s, e, V) ==
  /\ \A x, y \in V : x # y => Disjoint(x.addr, Footprint(x), y.addr, Footprint(y))
  /\ \A x \in V, i \in Lists : \A k \in DOMAIN L[i] :
       Disjoint(x.addr, Footprint(x), L[i][k], BlockSize(i))
  /\ \A x \in V : s < e => Disjoint(x.addr, Footprint(x), s, e - s)

FreeDisjoint(L, s, e) ==
  /\ \A i, j \in Lists : \A k \in DOMAIN L[i], m \in DOMAIN L[j] :
       <<i, k>> # <<j, m>> => Disjoint(L[i][k], BlockSize(i), L[j][m], BlockSize(j))
  /\ \A i \in Lists : \A k \in DOMAIN L[i] :
       s < e => Disjoint(L[i][k], BlockSize(i), s, e - s)

PiecesBacked(L, s, e, H, V) ==
  /\ \A x \in V : BackedBy(H, x.addr, Footprint(x))
  /\ \A x \in V : x.bytes > MaxBytes => x \in H
  /\ \A i \in Lists : \A k \in DOMAIN L[i] : BackedBy(H, L[i][k], BlockSize(i))
  /\ s < e => BackedBy(H, s, e - s)

HeapOK(H) ==
  /\ \A r, t \in H : r # t => Disjoint(r.addr, r.bytes, t.addr, t.bytes)
  /\ \A r \in H : r.addr + r.bytes <= MemTop

Sound(L, s, e, H, V) ==
  /\ Typed(L, s, e, H, V)
  /\ CutAligned(L, s, e, V)
  /\ LivePrivate(L, s, e, V)
  /\ FreeDisjoint(L, s, e)
  /\ PiecesBacked(L, s, e, H, V)
  /\ HeapOK(H)

\* The stretch [p, p+m) is memory of the pool that is no part of a piece.
Spare(p, m, L, s, e, H, V) ==
  /\ p \in Nat
  /\ m \in Nat \ {0}
  /\ p % Align = 0
  /\ BackedBy(H, p, m)
  /\ \A x \in V : Disjoint(x.addr, Footprint(x), p, m)
  /\ \A i \in Lists : \A k \in DOMAIN L[i] : Disjoint(L[i][k], BlockSize(i), p, m)
  /\ s < e => Disjoint(s, e - s, p, m)

----------------------------------------------------------------------------
(* The moves.                                                              *)

\* Taking the head off a list makes it spare.
LEMMA PopMove ==
  ASSUME NEW L, NEW s, NEW e, NEW H, NEW V, Sound(L, s, e, H, V),
         NEW i \in Lists, L[i] # <<>>
  PROVE  LET M == [L EXCEPT ![i] = Tail(@)]
         IN  /\ Sound(M, s, e, H, V)
             /\ Spare(Head(L[i]), BlockSize(i), M, s, e, H, V)
  <1> DEFINE M == [L EXCEPT ![i] = Tail(@)]
  <1>1. L \in [Lists -> Seq(Nat)] /\ L[i] \in Seq(Nat) BY DEF Sound, Typed
  <1>2. M \in [Lists -> Seq(Nat)] /\ M[i] = Tail(L[i])
    BY <1>1, TailPlaces
  <1>3. ASSUME NEW j \in Lists, NEW k \in DOMAIN M[j]
        PROVE  \E h \in DOMAIN L[j] :
                 /\ M[j][k] = L[j][h]
                 /\ j = i => h = k + 1 /\ k \in Nat \ {0}
                 /\ j # i => h = k
    BY <1>1, <1>2, <1>3, TailPlaces
  <1>4. 1 \in DOMAIN L[i] /\ Head(L[i]) = L[i][1] /\ Head(L[i]) \in Nat
    BY <1>1, TailPlaces
  <1> HIDE DEF M
  <1>5. Sound(M, s, e, H, V)
    <2>1. Typed(M, s, e, H, V) BY <1>2 DEF Sound, Typed
    <2>2. CutAligned(M, s, e, V) BY <1>3 DEF Sound, CutAligned
    <2>3. LivePrivate(M, s, e, V) BY <1>3 DEF Sound, LivePrivate
    <2>4. FreeDisjoint(M, s, e)
      <3>1. ASSUME NEW j \in Lists, NEW l \in Lists,
                   NEW k \in DOMAIN M[j], NEW m \in DOMAIN M[l], <<j, k>> # <<l, m>>
            PROVE  Disjoint(M[j][k], BlockSize(j), M[l][m], BlockSize(l))
        <4>1. PICK h \in DOMAIN L[j] : /\ M[j][k] = L[j][h]
                                       /\ j = i => h = k + 1 /\ k \in Nat \ {0}
                                       /\ j # i => h = k
          BY <1>3
        <4>2. PICK g \in DOMAIN L[l] : /\ M[l][m] = L[l][g]
                                       /\ l = i => g = m + 1 /\ m \in Nat \ {0}
                                       /\ l # i => g = m
          BY <1>3
        <4>3. <<j, h>> # <<l, g>> BY <3>1, <4>1, <4>2
        <4> QED BY <4>1, <4>2, <4>3 DEF Sound, FreeDisjoint
      <3> QED BY <3>1, <1>3 DEF Sound, FreeDisjoint
    <2>5. PiecesBacked(M, s, e, H, V) BY <1>3 DEF Sound, PiecesBacked
    <2> QED BY <2>1, <2>2, <2>3, <2>4, <2>5 DEF Sound
  <1>6. Spare(Head(L[i]), BlockSize(i), M, s, e, H, V)
    <2>1. ASSUME NEW j \in Lists, NEW k \in DOMAIN M[j]
          PROVE  Disjoint(M[j][k], BlockSize(j), L[i][1], BlockSize(i))
      <3>1. PICK h \in DOMAIN L[j] : /\ M[j][k] = L[j][h]
                                     /\ j = i => h = k + 1 /\ k \in Nat \ {0}
                                     /\ j # i => h = k
        BY <1>3
      <3>2. <<j, h>> # <<i, 1>> BY <3>1
      <3> QED BY <1>4, <3>1, <3>2 DEF Sound, FreeDisjoint
    <2>2. BlockSize(i) \in Nat \ {0} BY BlockSizeFacts
    <2>3. /\ L[i][1] % Align = 0
          /\ BackedBy(H, L[i][1], BlockSize(i))
          /\ \A x \in V : Disjoint(x.addr, Footprint(x), L[i][1], BlockSize(i))
      BY <1>4 DEF Sound, CutAligned, PiecesBacked, LivePrivate
    <2>4. s < e => Disjoint(L[i][1], BlockSize(i), s, e - s)
      BY <1>4 DEF Sound, FreeDisjoint
    <2>5. s < e => Disjoint(s, e - s, L[i][1], BlockSize(i))
      BY <2>4 DEF Disjoint
    <2> QED BY <1>4, <2>1, <2>2, <2>3, <2>5 DEF Spare
  <1> QED BY <1>5, <1>6 DEF M

\* A spare stretch of the right size may be pushed on a list.
LEMMA PushMove ==
  ASSUME NEW L, NEW s, NEW e, NEW H, NEW V, Sound(L, s, e, H, V),
         NEW i \in Lists, NEW p, Spare(p, BlockSize(i), L, s, e, H, V)
  PROVE  Sound([L EXCEPT ![i] = <<p>> \o @], s, e, H, V)
  <1> DEFINE M == [L EXCEPT ![i] = <<p>> \o @]
  <1>1. L \in [Lists -> Seq(Nat)] /\ L[i] \in Seq(Nat) /\ p \in Nat
    BY DEF Sound, Typed, Spare
  <1>2. M \in [Lists -> Seq(Nat)] /\ M[i] = <<p>> \o L[i]
    BY <1>1, PushPlaces
  <1>3. ASSUME NEW j \in Lists, NEW k \in DOMAIN M[j]
        PROVE  \/ j = i /\ k = 1 /\ M[j][k] = p
               \/ \E h \in DOMAIN L[j] :
                    /\ M[j][k] = L[j][h]
                    /\ j = i => h = k - 1 /\ k \in Nat \ {0, 1}
                    /\ j # i => h = k
    BY <1>1, <1>2, <1>3, PushPlaces
  <1> HIDE DEF M
  <1>4. Typed(M, s, e, H, V) BY <1>2 DEF Sound, Typed
  <1>5. CutAligned(M, s, e, V) BY <1>3 DEF Sound, CutAligned, Spare
  <1>6. LivePrivate(M, s, e, V) BY <1>3 DEF Sound, LivePrivate, Spare
  <1>7. FreeDisjoint(M, s, e)
    <2>1. ASSUME NEW j \in Lists, NEW l \in Lists,
                 NEW k \in DOMAIN M[j], NEW m \in DOMAIN M[l], <<j, k>> # <<l, m>>
          PROVE  Disjoint(M[j][k], BlockSize(j), M[l][m], BlockSize(l))
      <3>1. CASE j = i /\ k = 1 /\ M[j][k] = p
        <4>1. PICK g \in DOMAIN L[l] : M[l][m] = L[l][g] BY <2>1, <3>1, <1>3
        <4>2. Disjoint(L[l][g], BlockSize(l), p, BlockSize(i)) BY DEF Spare
        <4> QED BY <3>1, <4>1, <4>2 DEF Disjoint
      <3>2. CASE l = i /\ m = 1 /\ M[l][m] = p
        <4>1. PICK h \in DOMAIN L[j] : M[j][k] = L[j][h] BY <2>1, <3>2, <1>3
        <4> QED BY <3>2, <4>1 DEF Spare
      <3>3. CASE ~(j = i /\ k = 1 /\ M[j][k] = p) /\ ~(l = i /\ m = 1 /\ M[l][m] = p)
        <4>1. PICK h \in DOMAIN L[j] : /\ M[j][k] = L[j][h]
                                       /\ j = i => h = k - 1 /\ k \in Nat \ {0, 1}
                                       /\ j # i => h = k
          BY <3>3, <1>3
        <4>2. PICK g \in DOMAIN L[l] : /\ M[l][m] = L[l][g]
                                       /\ l = i => g = m - 1 /\ m \in Nat \ {0, 1}
                                       /\ l # i => g = m
          BY <3>3, <1>3
        <4>3. <<j, h>> # <<l, g>> BY <2>1, <4>1, <4>2
        <4> QED BY <4>1, <4>2, <4>3 DEF Sound, FreeDisjoint
      <3> QED BY <3>1, <3>2, <3>3
    <2>2. s < e => Disjoint(p, BlockSize(i), s, e - s) BY DEF Spare, Disjoint
    <2> QED BY <2>1, <2>2, <1>3 DEF Sound, FreeDisjoint
  <1>8. PiecesBacked(M, s, e, H, V) BY <1>3 DEF Sound, PiecesBacked, Spare
  <1> QED BY <1>4, <1>5, <1>6, <1>7, <1>8 DEF Sound, M

\* A spare stretch may be given to a client that asked for no more.
LEMMA GrantMove ==
  ASSUME NEW L, NEW s, NEW e, NEW H, NEW V, Sound(L, s, e, H, V),
         NEW x \in Blocks, x.bytes \in Requests, x.bytes > MaxBytes => x \in H,
         Spare(x.addr, Footprint(x), L, s, e, H, V)
  PROVE  Sound(L, s, e, H, V \cup {x})
  <1> DEFINE W == V \cup {x}
  <1>1. Typed(L, s, e, H, W) BY DEF Sound, Typed
  <1>2. CutAligned(L, s, e, W) BY DEF Sound, CutAligned, Spare
  <1>3. LivePrivate(L, s, e, W)
    <2>1. \A i \in Lists : \A k \in DOMAIN L[i] :
            Disjoint(x.addr, Footprint(x), L[i][k], BlockSize(i))
      BY DEF Spare, Disjoint
    <2>2. s < e => Disjoint(x.addr, Footprint(x), s, e - s)
      BY DEF Spare, Disjoint
    <2>3. \A y \in V : /\ Disjoint(x.addr, Footprint(x), y.addr, Footprint(y))
                       /\ Disjoint(y.addr, Footprint(y), x.addr, Footprint(x))
      BY DEF Spare, Disjoint
    <2> QED BY <2>1, <2>2, <2>3 DEF Sound, LivePrivate
  <1>4. PiecesBacked(L, s, e, H, W) BY DEF Sound, PiecesBacked, Spare
  <1> QED BY <1>1, <1>2, <1>3, <1>4 DEF Sound

\* The footprint of a block: positive, and no less than what was asked for.
LEMMA FootprintFacts ==
  ASSUME NEW x \in Blocks
  PROVE  /\ Footprint(x) \in Nat \ {0}
         /\ Footprint(x) >= x.bytes
  <1>1. x.bytes \in Nat \ {0} BY DEF Blocks
  <1> QED BY <1>1, RoundUpFacts DEF Footprint

\* A block a client gives back is spare.
LEMMA ReleaseMove ==
  ASSUME NEW L, NEW s, NEW e, NEW H, NEW V, Sound(L, s, e, H, V), NEW x \in V
  PROVE  /\ Sound(L, s, e, H, V \ {x})
         /\ Spare(x.addr, Footprint(x), L, s, e, H, V \ {x})
  <1> DEFINE W == V \ {x}
  <1>1. x \in Blocks BY DEF Sound, Typed
  <1>2. Sound(L, s, e, H, W)
    BY DEF Sound, Typed, CutAligned, LivePrivate, PiecesBacked
  <1>3. \A y \in W : Disjoint(y.addr, Footprint(y), x.addr, Footprint(x))
    BY DEF Sound, LivePrivate
  <1>4. \A i \in Lists : \A k \in DOMAIN L[i] :
          Disjoint(L[i][k], BlockSize(i), x.addr, Footprint(x))
    BY DEF Sound, LivePrivate, Disjoint
  <1>5. s < e => Disjoint(s, e - s, x.addr, Footprint(x))
    BY DEF Sound, LivePrivate, Disjoint
  <1>6. /\ x.addr \in Nat
        /\ x.addr % Align = 0
        /\ BackedBy(H, x.addr, Footprint(x))
    BY <1>1 DEF Sound, CutAligned, PiecesBacked, Blocks
  <1> QED BY <1>1, <1>2, <1>3, <1>4, <1>5, <1>6, FootprintFacts DEF Spare

\* Without its chunk the pool is sound, and what was the chunk is spare.
LEMMA DropChunkMove ==
  ASSUME NEW L, NEW s, NEW e, NEW H, NEW V, Sound(L, s, e, H, V)
  PROVE  /\ Sound(L, 0, 0, H, V)
         /\ s < e => Spare(s, e - s, L, 0, 0, H, V)
  <1>1. 0 % Align = 0 BY PoolConstants
  <1>2. Sound(L, 0, 0, H, V)
    BY <1>1 DEF Sound, Typed, CutAligned, LivePrivate, FreeDisjoint, PiecesBacked
  <1>3. ASSUME s < e PROVE Spare(s, e - s, L, 0, 0, H, V)
    <2>1. s \in Nat /\ e - s \in Nat \ {0} /\ s % Align = 0
      BY <1>3 DEF Sound, Typed, CutAligned
    <2>2. BackedBy(H, s, e - s) BY <1>3 DEF Sound, PiecesBacked
    <2>3. \A x \in V : Disjoint(x.addr, Footprint(x), s, e - s)
      BY <1>3 DEF Sound, LivePrivate
    <2>4. \A i \in Lists : \A k \in DOMAIN L[i] :
            Disjoint(L[i][k], BlockSize(i), s, e - s)
      BY <1>3 DEF Sound, FreeDisjoint
    <2> QED BY <2>1, <2>2, <2>3, <2>4 DEF Spare
  <1> QED BY <1>2, <1>3

\* A spare stretch may become the chunk of a pool without one.
LEMMA SetChunkMove ==
  ASSUME NEW L, NEW H, NEW V, Sound(L, 0, 0, H, V),
         NEW p, NEW m, Spare(p, m, L, 0, 0, H, V), m % Align = 0
  PROVE  Sound(L, p, p + m, H, V)
  <1>1. p \in Nat /\ m \in Nat \ {0} /\ p % Align = 0 BY DEF Spare
  <1>2. p + m - p = m /\ p + m \in Nat /\ p <= p + m BY <1>1
  <1>3. (p + m) % Align = 0 BY <1>1, Multiples
  <1>4. Typed(L, p, p + m, H, V) BY <1>1 DEF Sound, Typed
  <1>5. CutAligned(L, p, p + m, V) BY <1>1, <1>2, <1>3 DEF Sound, CutAligned
  <1>6. LivePrivate(L, p, p + m, V) BY <1>2 DEF Sound, LivePrivate, Spare
  <1>7. FreeDisjoint(L, p, p + m) BY <1>2 DEF Sound, FreeDisjoint, Spare
  <1>8. PiecesBacked(L, p, p + m, H, V) BY <1>2 DEF Sound, PiecesBacked, Spare
  <1> QED BY <1>4, <1>5, <1>6, <1>7, <1>8 DEF Sound

\* A stretch of fresh memory enters the heap, and is spare.
LEMMA GrowMove ==
  ASSUME NEW L, NEW s, NEW e, NEW H, NEW V, Sound(L, s, e, H, V),
         NEW p \in Nat \ {0}, NEW m \in Nat \ {0}, p % Align = 0,
         p + m <= MemTop, \A r \in H : Disjoint(p, m, r.addr, r.bytes)
  PROVE  LET G == H \cup {[addr |-> p, bytes |-> m]}
         IN  /\ Sound(L, s, e, G, V)
             /\ Spare(p, m, L, s, e, G, V)
  <1> DEFINE r0 == [addr |-> p, bytes |-> m]
             G == H \cup {r0}
  <1>1. r0 \in Blocks /\ r0.addr = p /\ r0.bytes = m BY DEF Blocks
  <1>2. \A q, n : BackedBy(H, q, n) => BackedBy(G, q, n) BY DEF BackedBy
  <1>3. Sound(L, s, e, G, V)
    <2> HIDE DEF r0
    <2>1. Typed(L, s, e, G, V) BY <1>1 DEF Sound, Typed
    <2>2. PiecesBacked(L, s, e, G, V) BY <1>2 DEF Sound, PiecesBacked
    <2>3. \A t \in H : /\ Disjoint(t.addr, t.bytes, r0.addr, r0.bytes)
                      /\ Disjoint(r0.addr, r0.bytes, t.addr, t.bytes)
      BY <1>1 DEF Disjoint
    <2>4. HeapOK(G) BY <1>1, <2>3 DEF Sound, HeapOK
    <2> QED BY <2>1, <2>2, <2>4 DEF Sound
  <1>4. \A q \in Nat, n \in Nat : BackedBy(H, q, n) => Disjoint(q, n, p, m)
    <2> SUFFICES ASSUME NEW q \in Nat, NEW n \in Nat, NEW r \in H, Inside(q, n, r)
                 PROVE  Disjoint(q, n, p, m)
      BY DEF BackedBy
    <2>1. r.addr \in Nat /\ r.bytes \in Nat BY DEF Sound, Typed, Blocks
    <2> QED BY <2>1 DEF Inside, Disjoint
  <1>5. \A x \in V : Disjoint(x.addr, Footprint(x), p, m)
    <2> SUFFICES ASSUME NEW x \in V PROVE Disjoint(x.addr, Footprint(x), p, m)
      OBVIOUS
    <2>1. x \in Blocks BY DEF Sound, Typed
    <2>2. x.addr \in Nat /\ Footprint(x) \in Nat BY <2>1, FootprintFacts DEF Blocks
    <2> QED BY <1>4, <2>2 DEF Sound, PiecesBacked
  <1>6. \A i \in Lists : \A k \in DOMAIN L[i] : Disjoint(L[i][k], BlockSize(i), p, m)
    <2> SUFFICES ASSUME NEW i \in Lists, NEW k \in DOMAIN L[i]
                 PROVE  Disjoint(L[i][k], BlockSize(i), p, m)
      OBVIOUS
    <2>1. L[i][k] \in Nat BY DEF Sound, Typed
    <2>2. BlockSize(i) \in Nat BY BlockSizeFacts
    <2> QED BY <1>4, <2>1, <2>2 DEF Sound, PiecesBacked
  <1>7. s < e => Disjoint(s, e - s, p, m)
    BY <1>4 DEF Sound, PiecesBacked, Typed
  <1>8. BackedBy(G, p, m)
    <2>1. Inside(p, m, r0) BY <1>1 DEF Inside
    <2> QED BY <2>1 DEF BackedBy
  <1> QED BY <1>3, <1>5, <1>6, <1>7, <1>8 DEF Spare

\* Memory of the heap that is spare may leave it.
LEMMA ShrinkMove ==
  ASSUME NEW L, NEW s, NEW e, NEW H, NEW V, Sound(L, s, e, H, V),
         NEW r \in H, r \notin V, Spare(r.addr, r.bytes, L, s, e, H, V)
  PROVE  Sound(L, s, e, H \ {r}, V)
  <1> DEFINE G == H \ {r}
  <1>1. r.addr \in Nat /\ r.bytes \in Nat \ {0} BY DEF Spare
  <1>2. ASSUME NEW q \in Nat, NEW n \in Nat \ {0},
               BackedBy(H, q, n), Disjoint(q, n, r.addr, r.bytes)
        PROVE  BackedBy(G, q, n)
    <2>1. PICK t \in H : Inside(q, n, t) BY <1>2 DEF BackedBy
    <2>2. t # r BY <1>1, <1>2, <2>1 DEF Inside, Disjoint
    <2> QED BY <2>1, <2>2 DEF BackedBy
  <1>3. \A x \in V : BackedBy(G, x.addr, Footprint(x))
    <2> SUFFICES ASSUME NEW x \in V PROVE BackedBy(G, x.addr, Footprint(x))
      OBVIOUS
    <2>1. x \in Blocks BY DEF Sound, Typed
    <2>2. x.addr \in Nat /\ Footprint(x) \in Nat \ {0}
      BY <2>1, FootprintFacts DEF Blocks
    <2> QED BY <1>2, <2>2 DEF Sound, PiecesBacked, Spare
  <1>4. \A i \in Lists : \A k \in DOMAIN L[i] : BackedBy(G, L[i][k], BlockSize(i))
    <2> SUFFICES ASSUME NEW i \in Lists, NEW k \in DOMAIN L[i]
                 PROVE  BackedBy(G, L[i][k], BlockSize(i))
      OBVIOUS
    <2>1. L[i][k] \in Nat BY DEF Sound, Typed
    <2>2. BlockSize(i) \in Nat \ {0} BY BlockSizeFacts
    <2> QED BY <1>2, <2>1, <2>2 DEF Sound, PiecesBacked, Spare
  <1>5. ASSUME s < e PROVE BackedBy(G, s, e - s)
    <2>1. s \in Nat /\ e - s \in Nat \ {0} BY <1>5 DEF Sound, Typed
    <2>2. BackedBy(H, s, e - s) BY <1>5 DEF Sound, PiecesBacked
    <2>3. Disjoint(s, e - s, r.addr, r.bytes) BY <1>5 DEF Spare
    <2> QED BY <1>2, <2>1, <2>2, <2>3
  <1>6. PiecesBacked(L, s, e, G, V) BY <1>3, <1>4, <1>5 DEF Sound, PiecesBacked
  <1>7. Typed(L, s, e, G, V) /\ HeapOK(G) BY DEF Sound, Typed, HeapOK
  <1> QED BY <1>6, <1>7 DEF Sound

\* The front of the chunk may be cut off, and is spare.
LEMMA CutMove ==
  ASSUME NEW L, NEW s, NEW e, NEW H, NEW V, Sound(L, s, e, H, V),
         NEW m \in Nat \ {0}, m <= e - s, m % Align = 0
  PROVE  /\ Sound(L, s + m, e, H, V)
         /\ Spare(s, m, L, s + m, e, H, V)
  <1>1. s \in Nat /\ e \in Nat /\ s < e /\ s + m \in Nat /\ s + m <= e
    BY DEF Sound, Typed
  <1>2. (s + m) % Align = 0 BY <1>1, Multiples DEF Sound, CutAligned
  <1>3. \A q \in Nat, n \in Nat :
          Disjoint(q, n, s, e - s) => /\ Disjoint(q, n, s, m)
                                      /\ Disjoint(q, n, s + m, e - (s + m))
    BY <1>1 DEF Disjoint
  <1>4. \A x \in V : x.addr \in Nat /\ Footprint(x) \in Nat
    BY FootprintFacts DEF Sound, Typed, Blocks
  <1>5. \A i \in Lists : /\ BlockSize(i) \in Nat
                         /\ \A k \in DOMAIN L[i] : L[i][k] \in Nat
    BY BlockSizeFacts DEF Sound, Typed
  <1>6. /\ BackedBy(H, s, m)
        /\ s + m < e => BackedBy(H, s + m, e - (s + m))
    <2>1. PICK r \in H : Inside(s, e - s, r) BY <1>1 DEF Sound, PiecesBacked, BackedBy
    <2>2. r.addr \in Nat /\ r.bytes \in Nat BY DEF Sound, Typed, Blocks
    <2>3. Inside(s, m, r) BY <1>1, <2>1, <2>2 DEF Inside
    <2>4. s + m < e => Inside(s + m, e - (s + m), r) BY <1>1, <2>1, <2>2 DEF Inside
    <2> QED BY <2>3, <2>4 DEF BackedBy
  <1>7. Typed(L, s + m, e, H, V) BY <1>1 DEF Sound, Typed
  <1>8. CutAligned(L, s + m, e, V) BY <1>1, <1>2 DEF Sound, CutAligned
  <1>9. LivePrivate(L, s + m, e, V) BY <1>1, <1>3, <1>4 DEF Sound, LivePrivate
  <1>10. FreeDisjoint(L, s + m, e) BY <1>1, <1>3, <1>5 DEF Sound, FreeDisjoint
  <1>11. PiecesBacked(L, s + m, e, H, V) BY <1>6 DEF Sound, PiecesBacked
  <1>12. \A x \in V : Disjoint(x.addr, Footprint(x), s, m)
    BY <1>1, <1>3, <1>4 DEF Sound, LivePrivate
  <1>13. \A i \in Lists : \A k \in DOMAIN L[i] : Disjoint(L[i][k], BlockSize(i), s, m)
    BY <1>1, <1>3, <1>5 DEF Sound, FreeDisjoint
  <1>14. s + m < e => Disjoint(s + m, e - (s + m), s, m) BY <1>1 DEF Disjoint
  <1>15. s % Align = 0 BY DEF Sound, CutAligned
  <1> QED
    BY <1>1, <1>6, <1>7, <1>8, <1>9, <1>10, <1>11, <1>12, <1>13, <1>14, <1>15
    DEF Sound, Spare

\* The list _M_refill builds: c blocks of n bytes, the first at p + n.
CutUp(q, p, c, n) == q = [k \in 1 .. c |-> p + k * n]

\* A spare stretch of c blocks may be put on an empty list, block by block.
LEMMA FillMove ==
  ASSUME NEW L, NEW s, NEW e, NEW H, NEW V, Sound(L, s, e, H, V),
         NEW i \in Lists, L[i] = <<>>, NEW c \in Nat \ {0}, NEW p \in Nat,
         Spare(p + BlockSize(i), c * BlockSize(i), L, s, e, H, V), p % Align = 0,
         NEW new, CutUp(new, p, c, BlockSize(i))
  PROVE  Sound([L EXCEPT ![i] = new], s, e, H, V)
  <1> DEFINE n == BlockSize(i)
             M == [L EXCEPT ![i] = new]
  <1>1. n \in Nat \ {0} /\ n % Align = 0 BY BlockSizeFacts
  <1>2. Align \in Nat \ {0} BY PoolConstants
  <1>3. ASSUME NEW k \in 1 .. c
        PROVE  /\ k * n \in Nat
               /\ (k * n) % Align = 0
               /\ k * n >= n
               /\ k * n <= c * n
    <2> HIDE DEF n
    <2>1. PICK h \in Nat : n = h * Align BY <1>1, <1>2
    <2>2. k * n = (k * h) * Align /\ k * h \in Nat BY <2>1, <1>2
    <2>3. ((k * h) * Align) % Align = 0 BY <2>2, <1>2
    <2>4. k * n \in Nat /\ k * n >= n /\ k * n <= c * n BY <1>1
    <2> QED BY <2>2, <2>3, <2>4
  <1>4. ASSUME NEW k \in 1 .. c, NEW m \in 1 .. c, k < m
        PROVE  k * n + n <= m * n
    <2> HIDE DEF n
    <2>1. (k + 1) * n <= m * n BY <1>1, <1>4
    <2>2. (k + 1) * n = k * n + n BY <1>1
    <2> QED BY <2>1, <2>2
  <1>5. c * n \in Nat BY <1>3
  <1>6. \A q \in Nat, m \in Nat : Disjoint(q, m, p + n, c * n) =>
          \A k \in 1 .. c : Disjoint(q, m, p + k * n, n)
    <2> SUFFICES ASSUME NEW q \in Nat, NEW m \in Nat, Disjoint(q, m, p + n, c * n),
                        NEW k \in 1 .. c
                 PROVE  Disjoint(q, m, p + k * n, n)
      OBVIOUS
    <2>1. k * n \in Nat /\ k * n >= n /\ k * n <= c * n BY <1>3
    <2> HIDE DEF n
    <2> QED BY <1>1, <1>5, <2>1 DEF Disjoint
  <1>7. M \in [Lists -> Seq(Nat)] /\ M[i] = new /\ \A j \in Lists \ {i} : M[j] = L[j]
    <2>1. \A k \in 1 .. c : p + k * n \in Nat BY <1>3
    <2>2. new \in Seq(Nat) BY <2>1 DEF CutUp
    <2> QED BY <2>2 DEF Sound, Typed
  <1>8. DOMAIN new = 1 .. c /\ \A k \in 1 .. c : new[k] = p + k * n
    BY DEF CutUp
  <1> HIDE DEF n, M
  <1>9. Typed(M, s, e, H, V) BY <1>7 DEF Sound, Typed
  <1>10. CutAligned(M, s, e, V)
    <2>1. \A k \in 1 .. c : (p + k * n) % Align = 0 BY <1>3, Multiples
    <2> QED BY <2>1, <1>7, <1>8 DEF Sound, CutAligned
  <1>11. \A x \in V : x.addr \in Nat /\ Footprint(x) \in Nat
    BY FootprintFacts DEF Sound, Typed, Blocks
  <1>12. \A j \in Lists : /\ BlockSize(j) \in Nat
                          /\ \A k \in DOMAIN L[j] : L[j][k] \in Nat
    BY BlockSizeFacts DEF Sound, Typed
  <1>13. Spare(p + n, c * n, L, s, e, H, V) BY DEF n
  <1>14. LivePrivate(M, s, e, V)
    <2>1. \A x \in V, k \in 1 .. c : Disjoint(x.addr, Footprint(x), p + k * n, n)
      BY <1>6, <1>11, <1>13 DEF Spare
    <2> QED BY <2>1, <1>7, <1>8 DEF Sound, LivePrivate, n
  <1>15. FreeDisjoint(M, s, e)
    <2>1. ASSUME NEW j \in Lists, NEW l \in Lists,
                 NEW k \in DOMAIN M[j], NEW m \in DOMAIN M[l], <<j, k>> # <<l, m>>
          PROVE  Disjoint(M[j][k], BlockSize(j), M[l][m], BlockSize(l))
      <3>1. CASE j # i /\ l # i BY <2>1, <3>1, <1>7 DEF Sound, FreeDisjoint
      <3>2. CASE j # i /\ l = i
        BY <3>2, <1>6, <1>7, <1>8, <1>12, <1>13 DEF Spare, n
      <3>3. CASE j = i /\ l # i
        <4>1. Disjoint(M[l][m], BlockSize(l), M[j][k], BlockSize(j))
          BY <3>3, <1>6, <1>7, <1>8, <1>12, <1>13 DEF Spare, n
        <4> QED BY <4>1 DEF Disjoint
      <3>4. CASE j = i /\ l = i
        <4>1. k \in 1 .. c /\ m \in 1 .. c /\ k # m BY <2>1, <3>4, <1>7, <1>8
        <4>2. k * n \in Nat /\ m * n \in Nat BY <4>1, <1>3
        <4>3. k * n + n <= m * n \/ m * n + n <= k * n BY <4>1, <1>4
        <4>4. Disjoint(p + k * n, n, p + m * n, n) BY <4>2, <4>3, <1>1 DEF Disjoint
        <4> QED BY <3>4, <4>1, <4>4, <1>7, <1>8 DEF n
      <3> QED BY <3>1, <3>2, <3>3, <3>4
    <2>2. ASSUME NEW j \in Lists, NEW k \in DOMAIN M[j], s < e
          PROVE  Disjoint(M[j][k], BlockSize(j), s, e - s)
      <3>1. CASE j # i BY <2>2, <3>1, <1>7 DEF Sound, FreeDisjoint
      <3>2. CASE j = i
        <4>1. s \in Nat /\ e - s \in Nat BY <2>2 DEF Sound, Typed
        <4>2. Disjoint(s, e - s, p + k * n, n)
          BY <2>2, <3>2, <4>1, <1>6, <1>7, <1>8, <1>13 DEF Spare
        <4> QED BY <3>2, <4>2, <1>7, <1>8 DEF Disjoint, n
      <3> QED BY <3>1, <3>2
    <2> QED BY <2>1, <2>2 DEF FreeDisjoint
  <1>16. PiecesBacked(M, s, e, H, V)
    <2>1. PICK r \in H : Inside(p + n, c * n, r) BY <1>13 DEF Spare, BackedBy
    <2>2. r.addr \in Nat /\ r.bytes \in Nat BY DEF Sound, Typed, Blocks
    <2>3. ASSUME NEW k \in 1 .. c PROVE Inside(p + k * n, n, r)
      <3>1. k * n \in Nat /\ k * n >= n /\ k * n <= c * n BY <1>3
      <3>2. r.addr <= p + n /\ p + n + c * n <= r.addr + r.bytes BY <2>1 DEF Inside
      <3>3. r.addr <= p + k * n /\ p + k * n + n <= r.addr + r.bytes
        <4> DEFINE u == k * n
                   v == c * n
                   w == r.addr
                   z == r.bytes
        <4>1. /\ u \in Nat /\ u >= n /\ v \in Nat /\ u <= v
              /\ w \in Nat /\ z \in Nat /\ w <= p + n /\ p + n + v <= w + z
          BY <3>1, <3>2, <1>5, <2>2
        <4> HIDE DEF u, v, w, z, n
        <4>2. w <= p + u /\ p + u + n <= w + z BY <4>1, <1>1
        <4> QED BY <4>2 DEF u, w, z
      <3> QED BY <3>3 DEF Inside
    <2>4. \A k \in 1 .. c : BackedBy(H, p + k * n, n) BY <2>3 DEF BackedBy
    <2> QED BY <2>4, <1>7, <1>8 DEF Sound, PiecesBacked, n
  <1> QED BY <1>9, <1>10, <1>14, <1>15, <1>16 DEF Sound, M, n

\* A block x that a client may be given next to the live blocks V: what the
\* contract asks of a granted block.
Grantable(x, V) ==
  /\ x \in Blocks
  /\ x.addr % Align = 0
  /\ x.addr \in 1 .. MemTop
  /\ \A y \in V : Disjoint(y.addr, Footprint(y), x.addr, Footprint(x))

\* A block that is spare may be granted.
LEMMA SpareIsGrantable ==
  ASSUME NEW L, NEW s, NEW e, NEW H, NEW V, Sound(L, s, e, H, V),
         NEW p, NEW b \in Requests,
         Spare(p, Footprint([addr |-> p, bytes |-> b]), L, s, e, H, V)
  PROVE  Grantable([addr |-> p, bytes |-> b], V)
  <1> DEFINE x == [addr |-> p, bytes |-> b]
  <1>1. x.addr = p /\ x.bytes = b OBVIOUS
  <1>2. PICK r \in H : Inside(p, Footprint(x), r) BY DEF Spare, BackedBy
  <1>3. /\ r.addr \in Nat \ {0} /\ r.bytes \in Nat
        /\ MemTop \in Nat /\ r.addr + r.bytes <= MemTop
    BY PoolConstants DEF Sound, Typed, Blocks, HeapOK
  <1>4. p \in Nat /\ Footprint(x) \in Nat \ {0} /\ p % Align = 0 BY DEF Spare
  <1>5. p \in 1 .. MemTop BY <1>2, <1>3, <1>4 DEF Inside
  <1>6. x \in Blocks BY <1>5, PoolConstants DEF Blocks
  <1> HIDE DEF x
  <1> QED BY <1>1, <1>4, <1>5, <1>6 DEF Grantable, Spare, x

\* How many objects _M_allocate_chunk hands out of a chunk that has room for
\* one: at least one, and no more than fit.
LEMMA CarvedFacts ==
  ASSUME NEW left \in Nat, NEW n \in Nat \ {0}, left >= n
  PROVE  /\ Carved(left, n) \in Nat \ {0}
         /\ Carved(left, n) * n \in Nat
         /\ Carved(left, n) * n <= left
  <1>1. NObjs \in Nat \ {0} BY PoolConstants
  <1>2. CASE left >= NObjs * n
    BY <1>1, <1>2 DEF Carved
  <1>3. CASE ~(left >= NObjs * n)
    <2>1. left \div n \in Nat /\ left % n \in 0 .. n - 1 OBVIOUS
    <2>2. left = (left \div n) * n + (left % n) OBVIOUS
    <2>3. left \div n # 0
      <3>1. SUFFICES ASSUME left \div n = 0 PROVE FALSE OBVIOUS
      <3> QED BY <3>1, <2>1, <2>2
    <2>4. (left \div n) * n \in Nat BY <2>1
    <2>5. Carved(left, n) = left \div n BY <1>3 DEF Carved
    <2> QED BY <2>1, <2>2, <2>3, <2>4, <2>5
  <1> QED BY <1>2, <1>3

\* _M_refill of an empty list from a chunk with room for an object.
LEMMA RefillMove ==
  ASSUME NEW L, NEW s, NEW e, NEW H, NEW V, Sound(L, s, e, H, V),
         NEW b \in Requests, b <= MaxBytes,
         L[FreeListOf(b)] = <<>>, e - s >= RoundUp(b)
  PROVE  LET n == RoundUp(b)
             count == Carved(e - s, n)
             x == [addr |-> s, bytes |-> b]
             M == IF count = 1 THEN L
                  ELSE [L EXCEPT ![FreeListOf(n)] =
                          [k \in 1 .. count - 1 |-> s + k * n]]
         IN  /\ Sound(M, s + count * n, e, H, V \cup {x})
             /\ Grantable(x, V)
  <1> DEFINE n == RoundUp(b)
             count == Carved(e - s, n)
             x == [addr |-> s, bytes |-> b]
             i == FreeListOf(b)
             t == s + count * n
  <1>1. b \in Nat \ {0} BY PoolConstants
  <1>2. i \in Lists /\ BlockSize(i) = n /\ FreeListOf(n) = i
    BY <1>1, ListOfSize
  <1>3. n \in Nat \ {0} /\ n % Align = 0 BY <1>1, RoundUpFacts
  <1>4. s \in Nat /\ e \in Nat /\ e - s \in Nat /\ s % Align = 0
    BY <1>3 DEF Sound, Typed, CutAligned
  <1> HIDE DEF n, i
  <1>5. /\ count \in Nat \ {0}
        /\ count * n \in Nat
        /\ count * n <= e - s
    BY <1>3, <1>4, CarvedFacts DEF n
  <1>6. Align \in Nat \ {0} BY PoolConstants
  <1> HIDE DEF count
  <1>7. (count * n) % Align = 0
    <2>1. PICK h \in Nat : n = h * Align BY <1>3, <1>6
    <2>2. count * n = (count * h) * Align /\ count * h \in Nat BY <2>1, <1>5, <1>6
    <2>3. ((count * h) * Align) % Align = 0 BY <2>2, <1>6
    <2> QED BY <2>2, <2>3
  <1>8. count * n \in Nat \ {0} /\ count * n >= n BY <1>3, <1>5
  <1>9. Sound(L, t, e, H, V) /\ Spare(s, count * n, L, t, e, H, V)
    BY <1>5, <1>7, <1>8, CutMove
  <1>10. Footprint(x) = n BY DEF Footprint, n
  \* The two parts of what was cut off: the client's block and the rest.
  <1>11. \A q \in Nat, m \in Nat : Disjoint(q, m, s, count * n) =>
           /\ Disjoint(q, m, s, n)
           /\ Disjoint(q, m, s + n, count * n - n)
    BY <1>3, <1>4, <1>8 DEF Disjoint
  <1>12. PICK r \in H : Inside(s, count * n, r) BY <1>9 DEF Spare, BackedBy
  <1>13. r.addr \in Nat /\ r.bytes \in Nat BY DEF Sound, Typed, Blocks
  <1>14. BackedBy(H, s, n)
    BY <1>3, <1>4, <1>8, <1>12, <1>13 DEF Inside, BackedBy
  <1>15. count > 1 => BackedBy(H, s + n, count * n - n)
    BY <1>3, <1>4, <1>8, <1>12, <1>13 DEF Inside, BackedBy
  <1>16. /\ t \in Nat
         /\ \A y \in V : y.addr \in Nat /\ Footprint(y) \in Nat
         /\ \A j \in Lists : /\ BlockSize(j) \in Nat
                             /\ \A k \in DOMAIN L[j] : L[j][k] \in Nat
    BY <1>4, <1>5, FootprintFacts, BlockSizeFacts DEF Sound, Typed, Blocks
  <1> HIDE DEF t
  <1>17. Spare(s, n, L, t, e, H, V)
    <2>1. \A y \in V : Disjoint(y.addr, Footprint(y), s, n)
      BY <1>9, <1>11, <1>16 DEF Spare
    <2>2. \A j \in Lists : \A k \in DOMAIN L[j] : Disjoint(L[j][k], BlockSize(j), s, n)
      BY <1>9, <1>11, <1>16 DEF Spare
    <2>3. ASSUME t < e PROVE Disjoint(t, e - t, s, n)
      <3>1. e - t \in Nat BY <2>3, <1>4, <1>16
      <3> QED BY <2>3, <3>1, <1>9, <1>11, <1>16 DEF Spare
    <2> QED BY <2>1, <2>2, <2>3, <1>3, <1>4, <1>14 DEF Spare
  <1>18. Grantable(x, V) BY <1>9, <1>10, <1>17, SpareIsGrantable
  <1>19. Sound(L, t, e, H, V \cup {x})
    <2>1. x \in Blocks /\ x.addr = s /\ x.bytes = b BY <1>18 DEF Grantable
    <2>2. ~(x.bytes > MaxBytes) BY <2>1, <1>1, PoolConstants
    <2> HIDE DEF x
    <2> QED BY <2>1, <2>2, <1>9, <1>10, <1>17, GrantMove
  <1>20. CASE count = 1 BY <1>18, <1>19, <1>20 DEF count, n, t
  <1>21. CASE count # 1
    <2>1. count - 1 \in Nat \ {0} /\ count > 1 BY <1>5, <1>21
    <2>2. (count - 1) * n = count * n - n /\ count * n - n \in Nat \ {0}
      <3>1. (count - 1) * n = count * n - n BY <1>3, <1>5
      <3>2. \A d \in Nat \ {0}, m \in Nat \ {0} : d * m \in Nat \ {0} OBVIOUS
      <3>3. (count - 1) * n \in Nat \ {0} BY <2>1, <1>3, <3>2
      <3> QED BY <3>1, <3>3
    <2>3. Disjoint(s, n, s + n, count * n - n) BY <1>3, <1>4 DEF Disjoint
    <2>4. (s + n) % Align = 0 BY <1>3, <1>4, Multiples
    <2>5. Spare(s + n, count * n - n, L, t, e, H, V \cup {x})
      BY <1>3, <1>4, <1>9, <1>10, <1>11, <1>15, <1>16, <2>1, <2>2, <2>3, <2>4 DEF Spare
    <2>6. Sound([L EXCEPT ![i] = [k \in 1 .. count - 1 |-> s + k * n]],
                t, e, H, V \cup {x})
      <3> DEFINE W == V \cup {x}
      <3>1. Sound(L, t, e, H, W) BY <1>19
      <3>2. Spare(s + n, (count - 1) * n, L, t, e, H, W) BY <2>2, <2>5
      <3>3. L[i] = <<>> BY DEF i
      <3> HIDE DEF x, W
      <3> DEFINE c == count - 1
      <3>4. Spare(s + BlockSize(i), c * BlockSize(i), L, t, e, H, W) BY <3>2, <1>2
      <3>5. c \in Nat \ {0} BY <2>1
      <3> HIDE DEF c
      <3> DEFINE new == [k \in 1 .. c |-> s + k * BlockSize(i)]
      <3>6. CutUp(new, s, c, BlockSize(i)) BY DEF CutUp
      <3> HIDE DEF new
      <3>7. Sound([L EXCEPT ![i] = new], t, e, H, W)
        BY <3>1, <3>3, <3>4, <3>5, <3>6, <1>2, <1>4, FillMove
      <3> QED BY <3>7, <1>2 DEF W, c, new
    <2> QED BY <2>6, <1>2, <1>18, <1>21 DEF count, n, t
  <1> QED BY <1>20, <1>21

----------------------------------------------------------------------------
(* The steps.                                                              *)

IInv ==
  /\ heapSize \in Nat
  /\ Sound(freeList, startFree, endFree, heap, live)

\* x was granted in this step.
Granted(x) == x.bytes \in Requests /\ Grantable(x, live) /\ live' = live \cup {x}

LEMMA InitSound == Init => IInv
  <1> SUFFICES ASSUME Init PROVE IInv
    OBVIOUS
  <1>1. 0 % Align = 0 BY PoolConstants
  <1>2. freeList \in [Lists -> Seq(Nat)] /\ \A i \in Lists : DOMAIN freeList[i] = {}
    BY DEF Init
  <1>3. /\ startFree = 0 /\ endFree = 0 /\ heapSize = 0 /\ heap = {} /\ live = {}
    BY DEF Init
  <1> QED
    BY <1>1, <1>2, <1>3 DEF IInv, Sound, Typed, CutAligned, LivePrivate,
       FreeDisjoint, PiecesBacked, HeapOK

\* Filing the left-over piece and dropping the chunk.
LEMMA FileLeftover ==
  ASSUME IInv, NEW b \in Requests, NeedsChunk(b)
  PROVE  /\ Sound(LeftoverFiled, 0, 0, heap, live)
         /\ LeftoverFiled[FreeListOf(b)] = <<>>
  <1>1. b \in Nat \ {0} /\ b <= MaxBytes /\ freeList[FreeListOf(b)] = <<>>
    BY PoolConstants DEF NeedsChunk, NeedsRefill, FromPool
  <1>2. /\ startFree \in Nat /\ endFree \in Nat /\ startFree <= endFree
        /\ startFree % Align = 0 /\ endFree % Align = 0
        /\ freeList \in [Lists -> Seq(Nat)]
    BY DEF IInv, Sound, Typed, CutAligned
  <1>3. /\ Sound(freeList, 0, 0, heap, live)
        /\ startFree < endFree =>
             Spare(startFree, BytesLeft, freeList, 0, 0, heap, live)
    BY DropChunkMove DEF IInv, BytesLeft
  <1>4. CASE ~(BytesLeft > 0)
    BY <1>1, <1>3, <1>4 DEF LeftoverFiled
  <1>5. CASE BytesLeft > 0
    <2> DEFINE i == FreeListOf(BytesLeft)
    <2>1. BytesLeft \in Nat \ {0} /\ startFree < endFree BY <1>2, <1>5 DEF BytesLeft
    <2>2. BytesLeft % Align = 0 BY <1>2, Multiples DEF BytesLeft
    <2>3. BytesLeft < RoundUp(b) BY DEF NeedsChunk
    <2>4. RoundUp(b) \in Nat /\ RoundUp(b) <= MaxBytes
      BY <1>1, ListOfSize, RoundUpFacts
    <2>5. BytesLeft <= MaxBytes BY <2>1, <2>3, <2>4, PoolConstants
    <2>6. i \in Lists /\ BlockSize(i) = BytesLeft
      BY <2>1, <2>2, <2>5, ListOfSize, RoundUpOfMultiple
    <2>7. i # FreeListOf(b)
      <3>1. BlockSize(FreeListOf(b)) = RoundUp(b) BY <1>1, ListOfSize
      <3> QED BY <2>1, <2>3, <2>4, <2>6, <3>1
    <2>8. LeftoverFiled = [freeList EXCEPT ![i] = <<startFree>> \o @]
      BY <1>5 DEF LeftoverFiled
    <2>9. Spare(startFree, BlockSize(i), freeList, 0, 0, heap, live)
      BY <1>3, <2>1, <2>6
    <2> HIDE DEF i
    <2>10. Sound(LeftoverFiled, 0, 0, heap, live)
      BY <1>3, <2>6, <2>8, <2>9, PushMove
    <2>11. LeftoverFiled[FreeListOf(b)] = <<>>
      BY <1>1, <1>2, <2>7, <2>8, ListOfSize
    <2> QED BY <2>10, <2>11
  <1> QED BY <1>4, <1>5

\* An allocation that cuts its block from the chunk [s, e) of the lists L.
LEMMA RefillStep ==
  ASSUME NEW L, NEW s, NEW e, NEW H, NEW b \in Requests, b <= MaxBytes,
         Sound(L, s, e, H, live), L[FreeListOf(b)] = <<>>, e - s >= RoundUp(b),
         Refill(L, s, e, RoundUp(b), b)
  PROVE  /\ Sound(freeList', startFree', endFree', H, live')
         /\ Granted([addr |-> s, bytes |-> b])
  <1> DEFINE n == RoundUp(b)
             count == Carved(e - s, n)
             x == [addr |-> s, bytes |-> b]
             M == IF count = 1 THEN L
                  ELSE [L EXCEPT ![FreeListOf(n)] =
                          [k \in 1 .. count - 1 |-> s + k * n]]
  <1>1. /\ Sound(M, s + count * n, e, H, live \cup {x})
        /\ Grantable(x, live)
    BY RefillMove
  <1>2. /\ startFree' = s + count * n
        /\ endFree' = e
        /\ freeList' = M
        /\ live' = live \cup {x}
    BY DEF Refill
  <1>3. x.bytes \in Requests OBVIOUS
  <1> HIDE DEF M, x, count, n
  <1> QED BY <1>1, <1>2, <1>3 DEF Granted, x

\* What a step may do to the clients' blocks.
ClientStep ==
  \/ \E x \in Blocks : Granted(x)
  \/ \E x \in live : live' = live \ {x}
  \/ UNCHANGED live

LEMMA FromListStep ==
  ASSUME IInv, NEW b \in Requests, AllocateFromList(b)
  PROVE  IInv' /\ ClientStep
  <1> DEFINE i == FreeListOf(b)
             x == [addr |-> Head(freeList[i]), bytes |-> b]
             M == [freeList EXCEPT ![i] = Tail(@)]
  <1>1. b \in Nat \ {0} /\ b <= MaxBytes /\ ~(b > MaxBytes) /\ freeList[i] # <<>>
    BY PoolConstants DEF AllocateFromList, FromPool
  <1>2. i \in Lists /\ BlockSize(i) = RoundUp(b) BY <1>1, ListOfSize
  <1>3. x.bytes = b /\ x.addr = Head(freeList[i]) /\ Footprint(x) = BlockSize(i)
    BY <1>1, <1>2 DEF Footprint
  <1>4. /\ freeList' = M /\ live' = live \cup {x}
        /\ UNCHANGED <<startFree, endFree, heapSize, heap>>
    BY DEF AllocateFromList
  <1> HIDE DEF i
  <1>5. /\ Sound(M, startFree, endFree, heap, live)
        /\ Spare(Head(freeList[i]), BlockSize(i), M, startFree, endFree, heap, live)
    BY <1>1, <1>2, PopMove DEF IInv
  <1> HIDE DEF M
  <1>6. Grantable(x, live) BY <1>3, <1>5, SpareIsGrantable
  <1> HIDE DEF x
  <1>7. Sound(M, startFree, endFree, heap, live \cup {x})
    BY <1>1, <1>3, <1>5, <1>6, GrantMove DEF Grantable
  <1>8. IInv' BY <1>4, <1>7 DEF IInv
  <1>9. ClientStep BY <1>3, <1>4, <1>6 DEF ClientStep, Granted, Grantable
  <1> QED BY <1>8, <1>9

\* A refill leaves the clients one block richer.
LEMMA GrantedIsClientStep ==
  ASSUME NEW x, Granted(x)
  PROVE  ClientStep
  BY DEF ClientStep, Granted, Grantable

LEMMA FromChunkStep ==
  ASSUME IInv, NEW b \in Requests, AllocateFromChunk(b)
  PROVE  IInv' /\ ClientStep
  <1>1. /\ b <= MaxBytes /\ freeList[FreeListOf(b)] = <<>>
        /\ endFree - startFree >= RoundUp(b)
        /\ Refill(freeList, startFree, endFree, RoundUp(b), b)
        /\ UNCHANGED <<heapSize, heap>>
    BY DEF AllocateFromChunk, NeedsRefill, FromPool, BytesLeft
  <1>2. /\ Sound(freeList', startFree', endFree', heap, live')
        /\ Granted([addr |-> startFree, bytes |-> b])
    BY <1>1, RefillStep DEF IInv
  <1>3. IInv' BY <1>1, <1>2 DEF IInv
  <1> QED BY <1>2, <1>3, GrantedIsClientStep

\* A new chunk is a multiple of Align and has room for the object.
LEMMA ChunkSize ==
  ASSUME heapSize \in Nat, NEW b \in Nat \ {0}, b <= MaxBytes
  PROVE  /\ BytesToGet(RoundUp(b)) \in Nat \ {0}
         /\ BytesToGet(RoundUp(b)) % Align = 0
         /\ BytesToGet(RoundUp(b)) >= RoundUp(b)
  <1> DEFINE n == RoundUp(b)
             g == heapSize \div GrowthDiv
  <1>1. Align \in Nat \ {0} /\ NObjs \in Nat \ {0} /\ GrowthDiv \in Nat \ {0}
    BY PoolConstants
  <1>2. n \in Nat \ {0} /\ n % Align = 0 BY RoundUpFacts
  <1>3. g \in Nat BY <1>1
  <1> HIDE DEF g
  <1>4. RoundUp(g) \in Nat /\ RoundUp(g) % Align = 0 BY <1>3, RoundUpFacts
  <1> HIDE DEF n
  <1>5. 2 * (n * NObjs) \in Nat /\ 2 * (n * NObjs) >= n BY <1>1, <1>2
  <1>6. (2 * (n * NObjs)) % Align = 0
    <2>1. PICK h \in Nat : n = h * Align BY <1>1, <1>2
    <2> DEFINE k == 2 * NObjs * h
    <2>2. k \in Nat /\ 2 * (n * NObjs) = k * Align BY <2>1, <1>1
    <2> HIDE DEF k
    <2>3. (k * Align) % Align = 0 BY <2>2, <1>1
    <2> QED BY <2>2, <2>3
  <1>7. (2 * (n * NObjs) + RoundUp(g)) % Align = 0 BY <1>4, <1>5, <1>6, Multiples
  <1>8. BytesToGet(n) = 2 * (n * NObjs) + RoundUp(g) BY DEF BytesToGet, g
  <1> QED BY <1>2, <1>4, <1>5, <1>7, <1>8 DEF n

LEMMA FromHeapStep ==
  ASSUME IInv, NEW b \in Requests, NEW p \in Bases, AllocateFromHeap(b, p)
  PROVE  IInv' /\ ClientStep
  <1> DEFINE n == RoundUp(b)
             m == BytesToGet(n)
             G == heap \cup {[addr |-> p, bytes |-> m]}
  <1>1. /\ NeedsChunk(b) /\ FreshAt(p, m)
        /\ heap' = G /\ heapSize' = heapSize + m
        /\ Refill(LeftoverFiled, p, p + m, n, b)
    BY DEF AllocateFromHeap
  <1>2. b \in Nat \ {0} /\ b <= MaxBytes /\ p \in Nat \ {0} /\ p % Align = 0
    BY <1>1, PoolConstants DEF NeedsChunk, NeedsRefill, FromPool
  <1>3. m \in Nat \ {0} /\ m % Align = 0 /\ m >= n /\ n \in Nat
    BY <1>2, ChunkSize, RoundUpFacts DEF IInv
  <1>4. /\ Sound(LeftoverFiled, 0, 0, heap, live)
        /\ LeftoverFiled[FreeListOf(b)] = <<>>
    BY <1>1, FileLeftover
  <1>5. p + m <= MemTop /\ \A r \in heap : Disjoint(p, m, r.addr, r.bytes)
    BY <1>1 DEF FreshAt
  <1> HIDE DEF m
  <1>6. /\ Sound(LeftoverFiled, 0, 0, G, live)
        /\ Spare(p, m, LeftoverFiled, 0, 0, G, live)
    BY <1>2, <1>3, <1>4, <1>5, GrowMove
  <1> HIDE DEF G
  <1>7. Sound(LeftoverFiled, p, p + m, G, live) BY <1>3, <1>6, SetChunkMove
  <1> DEFINE e == p + m
  <1>8. e - p >= n BY <1>2, <1>3
  <1> HIDE DEF e, n
  <1>9. /\ Sound(freeList', startFree', endFree', G, live')
        /\ Granted([addr |-> p, bytes |-> b])
    BY <1>1, <1>2, <1>4, <1>7, <1>8, RefillStep DEF e, n
  <1>10. heapSize' \in Nat BY <1>1, <1>3 DEF IInv
  <1>11. IInv' BY <1>1, <1>9, <1>10 DEF IInv
  <1> QED BY <1>9, <1>11, GrantedIsClientStep

LEMMA FromLargerStep ==
  ASSUME IInv, NEW b \in Requests, AllocateFromLarger(b)
  PROVE  IInv' /\ ClientStep
  <1> DEFINE n == RoundUp(b)
             f == FreeListOf(b)
  <1>1. NeedsChunk(b) /\ b \in Nat \ {0} /\ b <= MaxBytes
    BY PoolConstants DEF AllocateFromLarger, NeedsChunk, NeedsRefill, FromPool
  <1>2. /\ Sound(LeftoverFiled, 0, 0, heap, live)
        /\ LeftoverFiled[f] = <<>>
    BY <1>1, FileLeftover
  <1>3. PICK i \in Usable(n) :
          Refill([LeftoverFiled EXCEPT ![i] = Tail(@)], Head(LeftoverFiled[i]),
                 Head(LeftoverFiled[i]) + BlockSize(i), n, b)
    BY DEF AllocateFromLarger
  <1>4. f \in Lists /\ BlockSize(f) = n /\ FreeListOf(n) = f BY <1>1, ListOfSize
  <1>5. i \in Lists /\ LeftoverFiled[i] # <<>> /\ i >= f
    BY <1>3, <1>4 DEF Usable
  <1>6. i # f BY <1>2, <1>5
  <1>7. BlockSize(i) >= n
    <2>1. Align \in Nat \ {0} /\ MaxBytes \div Align \in Nat BY PoolConstants
    <2>2. i \in Nat /\ f \in Nat BY <1>4, <1>5, <2>1 DEF Lists
    <2> HIDE DEF f
    <2>3. (i + 1) * Align >= (f + 1) * Align BY <1>5, <2>1, <2>2
    <2> QED BY <1>4, <2>3 DEF BlockSize
  <1> DEFINE q == Head(LeftoverFiled[i])
             M == [LeftoverFiled EXCEPT ![i] = Tail(@)]
             e == q + BlockSize(i)
  <1>8. /\ Sound(M, 0, 0, heap, live)
        /\ Spare(q, BlockSize(i), M, 0, 0, heap, live)
    BY <1>2, <1>5, PopMove
  <1>9. M[f] = <<>>
    BY <1>2, <1>4, <1>5, <1>6 DEF Sound, Typed
  <1>10. Refill(M, q, e, n, b) BY <1>3
  <1>11. q \in Nat /\ BlockSize(i) \in Nat /\ BlockSize(i) % Align = 0
    BY <1>5, <1>8, BlockSizeFacts DEF Spare
  <1>12. n \in Nat BY <1>1, RoundUpFacts
  <1>13. UNCHANGED <<heapSize, heap>> BY DEF AllocateFromLarger
  <1> HIDE DEF M, q
  <1>14. Sound(M, q, e, heap, live) BY <1>8, <1>11, SetChunkMove
  <1>15. e - q >= n BY <1>7, <1>11, <1>12
  <1> HIDE DEF e
  <1>16. /\ Sound(freeList', startFree', endFree', heap, live')
         /\ Granted([addr |-> q, bytes |-> b])
    BY <1>1, <1>9, <1>10, <1>14, <1>15, RefillStep
  <1>17. IInv' BY <1>13, <1>16 DEF IInv
  <1> QED BY <1>16, <1>17, GrantedIsClientStep

LEMMA FailsStep ==
  ASSUME IInv, NEW b \in Requests, AllocateFails(b)
  PROVE  IInv' /\ ClientStep
  <1>1. Sound(LeftoverFiled, 0, 0, heap, live)
    BY FileLeftover DEF AllocateFails
  <1>2. /\ freeList' = LeftoverFiled /\ startFree' = 0 /\ endFree' = 0
        /\ UNCHANGED <<heapSize, heap, live>>
    BY DEF AllocateFails
  <1> QED BY <1>1, <1>2 DEF IInv, ClientStep

LEMMA LargeStep ==
  ASSUME IInv, NEW b \in Requests, NEW p \in Bases, AllocateLarge(b, p)
  PROVE  IInv' /\ ClientStep
  <1> DEFINE x == [addr |-> p, bytes |-> b]
             G == heap \cup {x}
  <1>1. /\ b > MaxBytes /\ FreshAt(p, b) /\ heap' = G /\ live' = live \cup {x}
        /\ UNCHANGED <<freeList, startFree, endFree, heapSize>>
    BY DEF AllocateLarge, pool
  <1>2. p \in Nat \ {0} /\ p % Align = 0 /\ b \in Nat \ {0} BY PoolConstants
  <1>3. p + b <= MemTop /\ \A r \in heap : Disjoint(p, b, r.addr, r.bytes)
    BY <1>1 DEF FreshAt
  <1>4. /\ Sound(freeList, startFree, endFree, G, live)
        /\ Spare(p, b, freeList, startFree, endFree, G, live)
    BY <1>2, <1>3, GrowMove DEF IInv
  <1>5. x.addr = p /\ x.bytes = b /\ x \in G OBVIOUS
  <1>6. Footprint(x) = b
    <2>1. ~(b <= MaxBytes) BY <1>1, <1>2, PoolConstants
    <2> QED BY <2>1 DEF Footprint
  <1> HIDE DEF G
  <1>7. Grantable(x, live) BY <1>4, <1>6, SpareIsGrantable
  <1> HIDE DEF x
  <1>8. Sound(freeList, startFree, endFree, G, live \cup {x})
    BY <1>4, <1>5, <1>6, <1>7, GrantMove DEF Grantable
  <1>9. IInv' BY <1>1, <1>8 DEF IInv
  <1>10. Granted(x) BY <1>1, <1>5, <1>7 DEF Granted
  <1> QED BY <1>9, <1>10, GrantedIsClientStep

LEMMA ToListStep ==
  ASSUME IInv, NEW blk \in live, DeallocateToList(blk)
  PROVE  IInv' /\ ClientStep
  <1> DEFINE i == FreeListOf(blk.bytes)
             W == live \ {blk}
  <1>1. /\ blk.bytes <= MaxBytes
        /\ freeList' = [freeList EXCEPT ![i] = <<blk.addr>> \o @]
        /\ live' = W
        /\ UNCHANGED <<startFree, endFree, heapSize, heap>>
    BY DEF DeallocateToList
  <1>2. blk.bytes \in Nat \ {0} BY DEF IInv, Sound, Typed, Blocks
  <1>3. i \in Lists /\ BlockSize(i) = Footprint(blk)
    BY <1>1, <1>2, ListOfSize DEF Footprint
  <1>4. /\ Sound(freeList, startFree, endFree, heap, W)
        /\ Spare(blk.addr, Footprint(blk), freeList, startFree, endFree, heap, W)
    BY ReleaseMove DEF IInv
  <1> HIDE DEF i, W
  <1>5. Sound([freeList EXCEPT ![i] = <<blk.addr>> \o @], startFree, endFree, heap, W)
    BY <1>3, <1>4, PushMove
  <1>6. IInv' BY <1>1, <1>5 DEF IInv
  <1> QED BY <1>1, <1>6 DEF ClientStep, W

LEMMA FreeLargeStep ==
  ASSUME IInv, NEW blk \in live, DeallocateLarge(blk)
  PROVE  IInv' /\ ClientStep
  <1> DEFINE W == live \ {blk}
  <1>1. /\ blk.bytes > MaxBytes /\ heap' = heap \ {blk} /\ live' = W
        /\ UNCHANGED <<freeList, startFree, endFree, heapSize>>
    BY DEF DeallocateLarge, pool
  <1>2. blk.bytes \in Nat \ {0} BY DEF IInv, Sound, Typed, Blocks
  <1>3. Footprint(blk) = blk.bytes
    <2>1. ~(blk.bytes <= MaxBytes) BY <1>1, <1>2, PoolConstants
    <2> QED BY <2>1 DEF Footprint
  <1>4. blk \in heap /\ blk \notin W
    BY <1>1 DEF IInv, Sound, PiecesBacked
  <1>5. /\ Sound(freeList, startFree, endFree, heap, W)
        /\ Spare(blk.addr, blk.bytes, freeList, startFree, endFree, heap, W)
    BY <1>3, ReleaseMove DEF IInv
  <1> HIDE DEF W
  <1>6. Sound(freeList, startFree, endFree, heap \ {blk}, W)
    BY <1>4, <1>5, ShrinkMove
  <1>7. IInv' BY <1>1, <1>6 DEF IInv
  <1> QED BY <1>1, <1>7 DEF ClientStep, W

\* Every step keeps the invariant, and treats the clients as it should.
LEMMA StepSound == IInv /\ [Next]_vars => IInv' /\ ClientStep
  <1> SUFFICES ASSUME IInv, [Next]_vars PROVE IInv' /\ ClientStep
    OBVIOUS
  <1>1. CASE UNCHANGED vars BY <1>1 DEF vars, IInv, ClientStep
  <1>2. ASSUME NEW b \in Requests, AllocateFromList(b) PROVE IInv' /\ ClientStep
    BY <1>2, FromListStep
  <1>3. ASSUME NEW b \in Requests, AllocateFromChunk(b) PROVE IInv' /\ ClientStep
    BY <1>3, FromChunkStep
  <1>4. ASSUME NEW b \in Requests, NEW p \in Bases, AllocateFromHeap(b, p)
        PROVE  IInv' /\ ClientStep
    BY <1>4, FromHeapStep
  <1>5. ASSUME NEW b \in Requests, AllocateFromLarger(b) PROVE IInv' /\ ClientStep
    BY <1>5, FromLargerStep
  <1>6. ASSUME NEW b \in Requests, AllocateFails(b) PROVE IInv' /\ ClientStep
    BY <1>6, FailsStep
  <1>7. ASSUME NEW b \in Requests, NEW p \in Bases, AllocateLarge(b, p)
        PROVE  IInv' /\ ClientStep
    BY <1>7, LargeStep
  <1>8. ASSUME NEW blk \in live, DeallocateToList(blk) PROVE IInv' /\ ClientStep
    BY <1>8, ToListStep
  <1>9. ASSUME NEW blk \in live, DeallocateLarge(blk) PROVE IInv' /\ ClientStep
    BY <1>9, FreeLargeStep
  <1> QED
    BY <1>1, <1>2, <1>3, <1>4, <1>5, <1>6, <1>7, <1>8, <1>9
    DEF Next, Allocate, Deallocate

----------------------------------------------------------------------------
(* The theorems.                                                           *)

\* The pool (allocate, deallocate, _M_refill, _M_allocate_chunk) keeps the
\* inductive invariant.
THEOREM Invariance == Spec => []IInv
  <1>1. Init => IInv BY InitSound
  <1>2. IInv /\ [Next]_vars => IInv' BY StepSound
  <1> QED BY <1>1, <1>2, PTL DEF Spec

\* Every variable of the pool has its type in every reachable state: no
\* address or size _M_refill and _M_allocate_chunk compute is negative, and
\* no block a client gets is at null.
THEOREM TypeCorrect == Spec => []TypeOK
  <1>1. IInv => TypeOK BY DEF IInv, Sound, Typed, TypeOK
  <1> QED BY <1>1, Invariance, PTL

\* No client's block overlaps another client's, a free block or the chunk
\* (allocate, _M_refill, _M_allocate_chunk).
THEOREM MemoryPrivate == Spec => []ClientMemoryPrivate
  <1>1. IInv => ClientMemoryPrivate
    BY DEF IInv, Sound, LivePrivate, ClientMemoryPrivate, BytesLeft
  <1> QED BY <1>1, Invariance, PTL

\* No byte is free twice (_M_refill, the left-over piece and the search of
\* _M_allocate_chunk).
THEOREM FreeOnce == Spec => []FreeMemoryDisjoint
  <1>1. IInv => FreeMemoryDisjoint
    BY DEF IInv, Sound, FreeDisjoint, FreeMemoryDisjoint, BytesLeft
  <1> QED BY <1>1, Invariance, PTL

\* Chunk and blocks are cut at multiples of _S_align, so the left-over piece
\* is a block of the list it is filed on (_M_allocate_chunk).
THEOREM CutsAligned == Spec => []Aligned
  <1>1. IInv => Aligned BY DEF IInv, Sound, CutAligned, Aligned
  <1> QED BY <1>1, Invariance, PTL

\* All memory handed out or kept came from operator new and was not given
\* back (allocate, deallocate, _M_allocate_chunk).
THEOREM MemoryBacked == Spec => []AllBacked
  <1>1. IInv => AllBacked
    BY DEF IInv, Sound, PiecesBacked, HeapOK, AllBacked, BackedBy, Backed, BytesLeft
  <1> QED BY <1>1, Invariance, PTL

\* The pool implements the allocator's contract.
THEOREM Refinement == Spec => ImplementsContract
  <1>1. Init => Contract!Init BY DEF Init, Contract!Init
  <1>2. ASSUME IInv, ClientStep PROVE [Contract!Next]_live
    <2>1. ASSUME NEW x \in Blocks, Granted(x) PROVE Contract!Next
      <3>1. /\ x \in Blocks /\ x.bytes \in Requests /\ x.addr \in 1 .. MemTop
            /\ x.addr % Align = 0 /\ live' = live \cup {x}
        BY <2>1 DEF Granted, Grantable
      <3>2. x = [addr |-> x.addr, bytes |-> x.bytes] BY <3>1 DEF Blocks
      <3>3. ASSUME NEW y \in live
            PROVE  Contract!Disjoint(x.addr, x.bytes, y.addr, y.bytes)
        <4>1. y \in Blocks BY <1>2 DEF IInv, Sound, Typed
        <4>2. /\ Footprint(x) \in Nat /\ Footprint(x) >= x.bytes
              /\ Footprint(y) \in Nat /\ Footprint(y) >= y.bytes
          BY <3>1, <4>1, FootprintFacts
        <4>3. Disjoint(y.addr, Footprint(y), x.addr, Footprint(x))
          BY <2>1 DEF Granted, Grantable
        <4>4. /\ x.addr \in Nat /\ x.bytes \in Nat
              /\ y.addr \in Nat /\ y.bytes \in Nat
          BY <3>1, <4>1 DEF Blocks
        <4> QED BY <4>2, <4>3, <4>4 DEF Disjoint, Contract!Disjoint
      <3>4. Contract!Grant(x.bytes, x.addr)
        BY <3>1, <3>2, <3>3 DEF Contract!Grant
      <3> QED BY <3>1, <3>4 DEF Contract!Next
    <2>2. ASSUME NEW x \in live, live' = live \ {x} PROVE Contract!Next
      BY <2>2 DEF Contract!Next, Contract!Release
    <2> QED BY <1>2, <2>1, <2>2 DEF ClientStep
  <1>3. IInv /\ [Next]_vars => [Contract!Next]_live
    BY <1>2, StepSound
  <1> QED BY <1>1, <1>3, Invariance, PTL DEF Spec, ImplementsContract, Contract!Spec

----------------------------------------------------------------------------
(* The pool loses no byte.                                                 *)
(*                                                                         *)
(* The argument follows a byte through the moves above: a byte that a      *)
(* piece (live block, block on a list, chunk) holds is held by a piece     *)
(* after the move, or lies in the stretch the move makes spare, and the    *)
(* next move of the action gives that stretch to a piece again.            *)

(* Who holds a byte, of lists L, chunk [s, e) and live blocks V.           *)

\* The byte a is one of [p, p+m).
Within(a, p, m) == p <= a /\ a < p + m

ClientHolds(V, a) == \E x \in V : Within(a, x.addr, Footprint(x))

ListHolds(L, a) ==
  \E i \in Lists : \E k \in DOMAIN L[i] : Within(a, L[i][k], BlockSize(i))

Held(L, s, e, V, a) ==
  ClientHolds(V, a) \/ ListHolds(L, a) \/ (s <= a /\ a < e)

\* A byte of the pool's state is accounted for when a piece holds it.
LEMMA AccountedIsHeld ==
  ASSUME NEW a
  PROVE  Accounted(a) <=> Held(freeList, startFree, endFree, live, a)
  BY DEF Accounted, Held, ClientHolds, ListHolds, Within

----------------------------------------------------------------------------
(* The moves of a byte.                                                    *)

\* Taking the head off a list lets go of the head only.
LEMMA HeldPop ==
  ASSUME NEW L \in [Lists -> Seq(Nat)], NEW i \in Lists, L[i] # <<>>,
         NEW a, ListHolds(L, a)
  PROVE  \/ ListHolds([L EXCEPT ![i] = Tail(@)], a)
         \/ Within(a, Head(L[i]), BlockSize(i))
  <1> DEFINE M == [L EXCEPT ![i] = Tail(@)]
  <1>1. PICK j \in Lists : \E k \in DOMAIN L[j] : Within(a, L[j][k], BlockSize(j))
    BY DEF ListHolds
  <1>2. PICK k \in DOMAIN L[j] : Within(a, L[j][k], BlockSize(j)) BY <1>1
  <1>3. L[i] \in Seq(Nat) /\ Head(L[i]) = L[i][1] /\ M[i] = Tail(L[i])
    OBVIOUS
  <1>4. CASE j # i
    <2>1. M[j] = L[j] BY <1>4
    <2> QED BY <2>1, <1>2 DEF ListHolds
  <1>5. CASE j = i /\ k = 1 BY <1>2, <1>3, <1>5
  <1>6. CASE j = i /\ k # 1
    <2>1. k - 1 \in DOMAIN Tail(L[i]) /\ Tail(L[i])[k - 1] = L[i][k]
      BY <1>2, <1>3, <1>6
    <2> QED BY <2>1, <1>2, <1>3, <1>6 DEF ListHolds
  <1> QED BY <1>4, <1>5, <1>6

\* A list holds what is pushed on it, and what it held before.
LEMMA HeldPush ==
  ASSUME NEW L \in [Lists -> Seq(Nat)], NEW i \in Lists, NEW p \in Nat,
         NEW a, ListHolds(L, a) \/ Within(a, p, BlockSize(i))
  PROVE  ListHolds([L EXCEPT ![i] = <<p>> \o @], a)
  <1> DEFINE M == [L EXCEPT ![i] = <<p>> \o @]
  <1>1. L[i] \in Seq(Nat) /\ M[i] = <<p>> \o L[i] OBVIOUS
  <1>2. ASSUME Within(a, p, BlockSize(i)) PROVE ListHolds(M, a)
    <2>1. 1 \in DOMAIN (<<p>> \o L[i]) /\ (<<p>> \o L[i])[1] = p BY <1>1
    <2> QED BY <2>1, <1>1, <1>2 DEF ListHolds
  <1>3. ASSUME NEW j \in Lists, NEW k \in DOMAIN L[j], Within(a, L[j][k], BlockSize(j))
        PROVE  ListHolds(M, a)
    <2>1. CASE j # i
      <3>1. M[j] = L[j] BY <2>1
      <3> QED BY <3>1, <1>3 DEF ListHolds
    <2>2. CASE j = i
      <3>1. /\ k + 1 \in DOMAIN (<<p>> \o L[i])
            /\ (<<p>> \o L[i])[k + 1] = L[i][k]
        BY <1>1, <1>3, <2>2
      <3> QED BY <3>1, <1>1, <1>3, <2>2 DEF ListHolds
    <2> QED BY <2>1, <2>2
  <1> QED BY <1>2, <1>3 DEF ListHolds

\* Blocks of n bytes, one after the other, leave no byte out.
LEMMA NoGaps ==
  ASSUME NEW n \in Nat \ {0}, NEW c \in Nat \ {0}, NEW p \in Nat, NEW a \in Nat,
         Within(a, p + n, c * n)
  PROVE  \E k \in 1 .. c : Within(a, p + k * n, n)
  <1> DEFINE d == a - p
             k == d \div n
  <1>1. c * n \in Nat OBVIOUS
  <1>2. d \in Nat /\ d >= n /\ d < n + c * n BY <1>1 DEF Within
  <1> HIDE DEF d
  <1>3. k \in Nat /\ d % n \in 0 .. n - 1 /\ d = k * n + (d % n) BY <1>2
  <1> HIDE DEF k
  <1>4. k >= 1
    <2>1. SUFFICES ASSUME k = 0 PROVE FALSE BY <1>3
    <2> QED BY <2>1, <1>2, <1>3
  <1>5. k <= c
    <2>1. SUFFICES ASSUME k >= c + 1 PROVE FALSE BY <1>3
    <2>2. k * n >= (c + 1) * n BY <2>1, <1>3
    <2>3. (c + 1) * n = c * n + n OBVIOUS
    <2>4. k * n \in Nat BY <1>3
    <2> QED BY <2>2, <2>3, <2>4, <1>1, <1>2, <1>3
  <1>6. k * n \in Nat BY <1>3
  <1>7. Within(a, p + k * n, n)
    <2>1. a = p + d BY <1>2 DEF d
    <2> QED BY <2>1, <1>2, <1>3, <1>6 DEF Within
  <1>8. k \in 1 .. c BY <1>3, <1>4, <1>5
  <1> QED BY <1>7, <1>8

\* An empty list that is filled from a stretch holds every byte of it, and
\* nothing held on a list is let go.
LEMMA HeldFill ==
  ASSUME NEW L \in [Lists -> Seq(Nat)], NEW i \in Lists, L[i] = <<>>,
         NEW c \in Nat \ {0}, NEW p \in Nat, NEW new, CutUp(new, p, c, BlockSize(i)),
         NEW a \in Nat,
         ListHolds(L, a) \/ Within(a, p + BlockSize(i), c * BlockSize(i))
  PROVE  ListHolds([L EXCEPT ![i] = new], a)
  <1> DEFINE M == [L EXCEPT ![i] = new]
             n == BlockSize(i)
  <1>1. n \in Nat \ {0} BY BlockSizeFacts
  <1>2. M[i] = new OBVIOUS
  <1>3. DOMAIN new = 1 .. c /\ \A k \in 1 .. c : new[k] = p + k * n BY DEF CutUp
  <1> HIDE DEF n
  <1>4. ASSUME Within(a, p + n, c * n) PROVE ListHolds(M, a)
    <2>1. PICK k \in 1 .. c : Within(a, p + k * n, n) BY <1>1, <1>4, NoGaps
    <2>2. k \in DOMAIN M[i] /\ Within(a, M[i][k], BlockSize(i))
      BY <2>1, <1>2, <1>3 DEF n
    <2> QED BY <2>2 DEF ListHolds
  <1>5. ASSUME NEW j \in Lists, NEW k \in DOMAIN L[j], Within(a, L[j][k], BlockSize(j))
        PROVE  ListHolds(M, a)
    <2>1. j # i BY <1>5
    <2>2. M[j] = L[j] BY <2>1
    <2> QED BY <2>2, <1>5 DEF ListHolds
  <1> QED BY <1>4, <1>5 DEF ListHolds, n

\* _M_refill of an empty list: the client's block, the list and the chunk
\* that is left hold all the chunk held.
LEMMA HeldRefill ==
  ASSUME NEW L \in [Lists -> Seq(Nat)], NEW s \in Nat, NEW e \in Nat, NEW V,
         NEW b \in Requests, b <= MaxBytes, L[FreeListOf(b)] = <<>>,
         e - s >= RoundUp(b), NEW a \in Nat, Held(L, s, e, V, a)
  PROVE  LET n == RoundUp(b)
             count == Carved(e - s, n)
             x == [addr |-> s, bytes |-> b]
             M == IF count = 1 THEN L
                  ELSE [L EXCEPT ![FreeListOf(n)] =
                          [k \in 1 .. count - 1 |-> s + k * n]]
         IN  Held(M, s + count * n, e, V \cup {x}, a)
  <1> DEFINE n == RoundUp(b)
             count == Carved(e - s, n)
             x == [addr |-> s, bytes |-> b]
             i == FreeListOf(b)
             M == IF count = 1 THEN L
                  ELSE [L EXCEPT ![FreeListOf(n)] =
                          [k \in 1 .. count - 1 |-> s + k * n]]
             t == s + count * n
             W == V \cup {x}
  <1>1. b \in Nat \ {0} BY PoolConstants
  <1>2. i \in Lists /\ BlockSize(i) = n /\ FreeListOf(n) = i
    BY <1>1, ListOfSize
  <1>3. n \in Nat \ {0} BY <1>1, RoundUpFacts
  <1>4. Footprint(x) = n /\ x.addr = s BY DEF Footprint
  <1>5. L[i] = <<>> OBVIOUS
  <1> HIDE DEF n, i, x
  <1>6. e - s \in Nat BY <1>3 DEF n
  <1>7. count \in Nat \ {0} /\ count * n \in Nat BY <1>3, <1>6, CarvedFacts DEF n
  <1> HIDE DEF count
  <1> DEFINE c == count - 1
             new == [k \in 1 .. c |-> s + k * n]
  <1>8. (count - 1) * n = count * n - n BY <1>3, <1>7
  <1>9. ASSUME ListHolds(L, a) \/ (count # 1 /\ Within(a, s + n, count * n - n))
        PROVE  ListHolds(M, a)
    <2>1. CASE count = 1 BY <2>1, <1>9
    <2>2. CASE count # 1
      <3>1. M = [L EXCEPT ![i] = new] BY <2>2, <1>2
      <3>2. c \in Nat \ {0} BY <2>2, <1>7
      <3>3. CutUp(new, s, c, BlockSize(i)) BY <1>2 DEF CutUp
      <3>4. ListHolds(L, a) \/ Within(a, s + BlockSize(i), c * BlockSize(i))
        BY <1>2, <1>8, <1>9
      <3> HIDE DEF c, new, M
      <3>5. ListHolds([L EXCEPT ![i] = new], a)
        BY <3>2, <3>3, <3>4, <1>2, <1>5, HeldFill
      <3> QED BY <3>1, <3>5
    <2> QED BY <2>1, <2>2
  <1>10. ASSUME ClientHolds(V, a) \/ Within(a, s, n) PROVE ClientHolds(W, a)
    BY <1>4, <1>10 DEF ClientHolds
  <1>11. s <= a /\ a < e =>
           \/ Within(a, s, n)
           \/ count # 1 /\ Within(a, s + n, count * n - n)
           \/ t <= a /\ a < e
    <2>1. count = 1 => count * n = n BY <1>3
    <2> QED BY <2>1, <1>3, <1>7 DEF Within
  <1> HIDE DEF M, t, W
  <1>12. Held(M, t, e, W, a) BY <1>9, <1>10, <1>11 DEF Held
  <1> QED BY <1>12 DEF M, t, W, count, n, x

\* Filing the left-over piece: its list holds what the chunk held.
LEMMA HeldFile ==
  ASSUME IInv, NEW b \in Requests, NeedsChunk(b), NEW a \in Nat,
         Held(freeList, startFree, endFree, live, a)
  PROVE  Held(LeftoverFiled, 0, 0, live, a)
  <1>1. b \in Nat \ {0} /\ b <= MaxBytes
    BY PoolConstants DEF NeedsChunk, NeedsRefill, FromPool
  <1>2. /\ startFree \in Nat /\ endFree \in Nat /\ startFree <= endFree
        /\ startFree % Align = 0 /\ endFree % Align = 0
        /\ freeList \in [Lists -> Seq(Nat)]
    BY DEF IInv, Sound, Typed, CutAligned
  <1>3. CASE ~(BytesLeft > 0)
    <2>1. ~(startFree <= a /\ a < endFree) BY <1>2, <1>3 DEF BytesLeft
    <2> QED BY <2>1, <1>3 DEF Held, LeftoverFiled
  <1>4. CASE BytesLeft > 0
    <2> DEFINE i == FreeListOf(BytesLeft)
    <2>1. BytesLeft \in Nat \ {0} BY <1>2, <1>4 DEF BytesLeft
    <2>2. BytesLeft % Align = 0 BY <1>2, Multiples DEF BytesLeft
    <2>3. BytesLeft <= MaxBytes
      <3>1. RoundUp(b) \in Nat /\ RoundUp(b) <= MaxBytes
        BY <1>1, ListOfSize, RoundUpFacts
      <3> QED BY <3>1, <2>1, PoolConstants DEF NeedsChunk
    <2>4. i \in Lists /\ BlockSize(i) = BytesLeft
      BY <2>1, <2>2, <2>3, ListOfSize, RoundUpOfMultiple
    <2>5. LeftoverFiled = [freeList EXCEPT ![i] = <<startFree>> \o @]
      BY <1>4 DEF LeftoverFiled
    <2>6. startFree <= a /\ a < endFree => Within(a, startFree, BlockSize(i))
      BY <2>4, <1>2 DEF Within, BytesLeft
    <2> HIDE DEF i
    <2>7. ListHolds(freeList, a) \/ (startFree <= a /\ a < endFree)
            => ListHolds(LeftoverFiled, a)
      BY <2>4, <2>5, <2>6, <1>2, HeldPush
    <2> QED BY <2>7 DEF Held
  <1> QED BY <1>3, <1>4

----------------------------------------------------------------------------
(* The steps.                                                              *)

\* The bytes operator new has given the pool and its clients.
HeapByte(a) == \E r \in heap : Within(a, r.addr, r.bytes)

AllHeld == \A a \in Nat : HeapByte(a) => Held(freeList, startFree, endFree, live, a)

\* A refill from [s, e) keeps what is held.
LEMMA RefillHolds ==
  ASSUME NEW L \in [Lists -> Seq(Nat)], NEW s \in Nat, NEW e \in Nat,
         NEW b \in Requests, b <= MaxBytes, L[FreeListOf(b)] = <<>>,
         e - s >= RoundUp(b), Refill(L, s, e, RoundUp(b), b),
         NEW a \in Nat, Held(L, s, e, live, a)
  PROVE  Held(freeList, startFree, endFree, live, a)'
  <1> DEFINE n == RoundUp(b)
             count == Carved(e - s, n)
             x == [addr |-> s, bytes |-> b]
             M == IF count = 1 THEN L
                  ELSE [L EXCEPT ![FreeListOf(n)] =
                          [k \in 1 .. count - 1 |-> s + k * n]]
  <1>1. Held(M, s + count * n, e, live \cup {x}, a) BY HeldRefill
  <1>2. /\ startFree' = s + count * n
        /\ endFree' = e
        /\ freeList' = M
        /\ live' = live \cup {x}
    BY DEF Refill
  <1> HIDE DEF M, x, count, n
  <1>3. Held(freeList', startFree', endFree', live', a) BY <1>1, <1>2
  <1> QED BY <1>3 DEF Held, ClientHolds, ListHolds

LEMMA FromListHolds ==
  ASSUME IInv, AllHeld, NEW b \in Requests, AllocateFromList(b)
  PROVE  AllHeld'
  <1> DEFINE i == FreeListOf(b)
             x == [addr |-> Head(freeList[i]), bytes |-> b]
             M == [freeList EXCEPT ![i] = Tail(@)]
  <1>1. b \in Nat \ {0} /\ b <= MaxBytes /\ freeList[i] # <<>>
    BY PoolConstants DEF AllocateFromList, FromPool
  <1>2. i \in Lists /\ BlockSize(i) = RoundUp(b) BY <1>1, ListOfSize
  <1>3. x.addr = Head(freeList[i]) /\ Footprint(x) = BlockSize(i)
    BY <1>1, <1>2 DEF Footprint
  <1>4. /\ freeList' = M /\ live' = live \cup {x}
        /\ UNCHANGED <<startFree, endFree, heap>>
    BY DEF AllocateFromList
  <1>5. freeList \in [Lists -> Seq(Nat)] BY DEF IInv, Sound, Typed
  <1> SUFFICES ASSUME NEW a \in Nat, HeapByte(a)
               PROVE  Held(M, startFree, endFree, live \cup {x}, a)
    BY <1>4 DEF AllHeld, HeapByte, Held, ClientHolds, ListHolds
  <1>6. Held(freeList, startFree, endFree, live, a) BY DEF AllHeld
  <1> HIDE DEF i, x
  <1>7. ListHolds(freeList, a) => ListHolds(M, a) \/ Within(a, x.addr, Footprint(x))
    BY <1>1, <1>2, <1>3, <1>5, HeldPop
  <1> HIDE DEF M
  <1>8. ClientHolds(live, a) \/ Within(a, x.addr, Footprint(x))
          => ClientHolds(live \cup {x}, a)
    BY DEF ClientHolds
  <1> QED BY <1>6, <1>7, <1>8 DEF Held

LEMMA FromChunkHolds ==
  ASSUME IInv, AllHeld, NEW b \in Requests, AllocateFromChunk(b)
  PROVE  AllHeld'
  <1>1. /\ b <= MaxBytes /\ freeList[FreeListOf(b)] = <<>>
        /\ endFree - startFree >= RoundUp(b)
        /\ Refill(freeList, startFree, endFree, RoundUp(b), b)
        /\ UNCHANGED heap
    BY DEF AllocateFromChunk, NeedsRefill, FromPool, BytesLeft
  <1>2. freeList \in [Lists -> Seq(Nat)] /\ startFree \in Nat /\ endFree \in Nat
    BY DEF IInv, Sound, Typed
  <1>3. ASSUME NEW a \in Nat, HeapByte(a)
        PROVE  Held(freeList, startFree, endFree, live, a)'
    <2>1. Held(freeList, startFree, endFree, live, a) BY <1>3 DEF AllHeld
    <2> QED BY <2>1, <1>1, <1>2, RefillHolds
  <1> QED BY <1>1, <1>3 DEF AllHeld, HeapByte

LEMMA FromHeapHolds ==
  ASSUME IInv, AllHeld, NEW b \in Requests, NEW p \in Bases, AllocateFromHeap(b, p)
  PROVE  AllHeld'
  <1> DEFINE n == RoundUp(b)
             m == BytesToGet(n)
             e == p + m
  <1>1. /\ NeedsChunk(b)
        /\ heap' = heap \cup {[addr |-> p, bytes |-> m]}
        /\ Refill(LeftoverFiled, p, e, n, b)
    BY DEF AllocateFromHeap
  <1>2. b \in Nat \ {0} /\ b <= MaxBytes /\ p \in Nat
    BY <1>1, PoolConstants DEF NeedsChunk, NeedsRefill, FromPool
  <1>3. m \in Nat \ {0} /\ m >= n /\ n \in Nat
    BY <1>2, ChunkSize, RoundUpFacts DEF IInv
  <1>4. /\ LeftoverFiled \in [Lists -> Seq(Nat)]
        /\ LeftoverFiled[FreeListOf(b)] = <<>>
    BY <1>1, FileLeftover DEF Sound, Typed
  <1> HIDE DEF m
  <1>5. e \in Nat /\ e - p >= n BY <1>2, <1>3
  <1>6. ASSUME NEW a \in Nat, HeapByte(a) \/ Within(a, p, m)
        PROVE  Held(freeList, startFree, endFree, live, a)'
    <2>1. HeapByte(a) => Held(LeftoverFiled, 0, 0, live, a)
      BY <1>1, HeldFile DEF AllHeld
    <2>2. Held(LeftoverFiled, p, e, live, a)
      BY <2>1, <1>6 DEF Held, Within
    <2> HIDE DEF e
    <2> QED BY <2>2, <1>1, <1>2, <1>4, <1>5, RefillHolds
  <1>7. \A a : HeapByte(a)' => HeapByte(a) \/ Within(a, p, m)
    BY <1>1 DEF HeapByte
  <1> QED BY <1>6, <1>7 DEF AllHeld

LEMMA FromLargerHolds ==
  ASSUME IInv, AllHeld, NEW b \in Requests, AllocateFromLarger(b)
  PROVE  AllHeld'
  <1> DEFINE n == RoundUp(b)
             f == FreeListOf(b)
  <1>1. NeedsChunk(b) /\ b \in Nat \ {0} /\ b <= MaxBytes
    BY PoolConstants DEF AllocateFromLarger, NeedsChunk, NeedsRefill, FromPool
  <1>2. LeftoverFiled \in [Lists -> Seq(Nat)] /\ LeftoverFiled[f] = <<>>
    BY <1>1, FileLeftover DEF Sound, Typed
  <1>3. PICK i \in Usable(n) :
          Refill([LeftoverFiled EXCEPT ![i] = Tail(@)], Head(LeftoverFiled[i]),
                 Head(LeftoverFiled[i]) + BlockSize(i), n, b)
    BY DEF AllocateFromLarger
  <1>4. f \in Lists /\ BlockSize(f) = n /\ FreeListOf(n) = f BY <1>1, ListOfSize
  <1>5. i \in Lists /\ LeftoverFiled[i] # <<>> /\ i >= f
    BY <1>3, <1>4 DEF Usable
  <1>6. i # f BY <1>2, <1>5
  <1>7. BlockSize(i) >= n /\ BlockSize(i) \in Nat
    <2>1. Align \in Nat \ {0} /\ MaxBytes \div Align \in Nat BY PoolConstants
    <2>2. i \in Nat /\ f \in Nat BY <1>4, <1>5, <2>1 DEF Lists
    <2> HIDE DEF f
    <2>3. (i + 1) * Align >= (f + 1) * Align BY <1>5, <2>1, <2>2
    <2> QED BY <1>4, <1>5, <2>3, BlockSizeFacts DEF BlockSize
  <1> DEFINE q == Head(LeftoverFiled[i])
             M == [LeftoverFiled EXCEPT ![i] = Tail(@)]
             e == q + BlockSize(i)
  <1>8. q \in Nat /\ M \in [Lists -> Seq(Nat)] /\ M[f] = <<>>
    BY <1>2, <1>4, <1>5, <1>6, TailPlaces
  <1>9. Refill(M, q, e, n, b) /\ UNCHANGED heap BY <1>3 DEF AllocateFromLarger
  <1>10. n \in Nat BY <1>1, RoundUpFacts
  <1>11. ASSUME NEW a \in Nat, HeapByte(a)
         PROVE  Held(freeList, startFree, endFree, live, a)'
    <2>1. Held(LeftoverFiled, 0, 0, live, a) BY <1>1, <1>11, HeldFile DEF AllHeld
    <2>2. ListHolds(LeftoverFiled, a) => ListHolds(M, a) \/ Within(a, q, BlockSize(i))
      BY <1>2, <1>5, HeldPop
    <2> HIDE DEF M, q
    <2>3. Held(M, q, e, live, a) BY <2>1, <2>2 DEF Held, Within
    <2>4. e \in Nat /\ e - q >= n BY <1>7, <1>8, <1>10
    <2> HIDE DEF e
    <2> QED BY <2>3, <2>4, <1>1, <1>8, <1>9, RefillHolds
  <1> QED BY <1>9, <1>11 DEF AllHeld, HeapByte

LEMMA FailsHolds ==
  ASSUME IInv, AllHeld, NEW b \in Requests, AllocateFails(b)
  PROVE  AllHeld'
  <1>1. /\ NeedsChunk(b)
        /\ freeList' = LeftoverFiled /\ startFree' = 0 /\ endFree' = 0
        /\ UNCHANGED <<heap, live>>
    BY DEF AllocateFails
  <1>2. ASSUME NEW a \in Nat, HeapByte(a) PROVE Held(LeftoverFiled, 0, 0, live, a)
    BY <1>1, <1>2, HeldFile DEF AllHeld
  <1> QED BY <1>1, <1>2 DEF AllHeld, HeapByte, Held, ClientHolds, ListHolds

LEMMA LargeHolds ==
  ASSUME IInv, AllHeld, NEW b \in Requests, NEW p \in Bases, AllocateLarge(b, p)
  PROVE  AllHeld'
  <1> DEFINE x == [addr |-> p, bytes |-> b]
  <1>1. /\ b > MaxBytes /\ heap' = heap \cup {x} /\ live' = live \cup {x}
        /\ UNCHANGED <<freeList, startFree, endFree>>
    BY DEF AllocateLarge, pool
  <1>2. Footprint(x) = x.bytes
    <2>1. ~(b <= MaxBytes) BY <1>1, PoolConstants
    <2> QED BY <2>1 DEF Footprint
  <1> HIDE DEF x
  <1>3. \A a : HeapByte(a)' => HeapByte(a) \/ Within(a, x.addr, Footprint(x))
    BY <1>1, <1>2 DEF HeapByte
  <1>4. \A a : ClientHolds(live, a) \/ Within(a, x.addr, Footprint(x))
                 => ClientHolds(live, a)'
    BY <1>1 DEF ClientHolds
  <1>5. \A a : ListHolds(freeList, a) => ListHolds(freeList, a)'
    BY <1>1 DEF ListHolds
  <1> QED BY <1>1, <1>3, <1>4, <1>5 DEF AllHeld, Held

LEMMA ToListHolds ==
  ASSUME IInv, AllHeld, NEW blk \in live, DeallocateToList(blk)
  PROVE  AllHeld'
  <1> DEFINE i == FreeListOf(blk.bytes)
  <1>1. /\ blk.bytes <= MaxBytes
        /\ freeList' = [freeList EXCEPT ![i] = <<blk.addr>> \o @]
        /\ live' = live \ {blk}
        /\ UNCHANGED <<startFree, endFree, heap>>
    BY DEF DeallocateToList
  <1>2. blk.bytes \in Nat \ {0} /\ blk.addr \in Nat
    BY DEF IInv, Sound, Typed, Blocks
  <1>3. i \in Lists /\ BlockSize(i) = Footprint(blk)
    BY <1>1, <1>2, ListOfSize DEF Footprint
  <1>4. freeList \in [Lists -> Seq(Nat)] BY DEF IInv, Sound, Typed
  <1> HIDE DEF i
  <1>5. \A a : HeapByte(a)' => HeapByte(a) BY <1>1 DEF HeapByte
  <1>6. \A a : ClientHolds(live, a) =>
                 ClientHolds(live, a)' \/ Within(a, blk.addr, Footprint(blk))
    BY <1>1 DEF ClientHolds
  <1>7. ASSUME NEW a, ListHolds(freeList, a) \/ Within(a, blk.addr, Footprint(blk))
        PROVE  ListHolds(freeList, a)'
    <2>1. ListHolds([freeList EXCEPT ![i] = <<blk.addr>> \o @], a)
      BY <1>2, <1>3, <1>4, <1>7, HeldPush
    <2> QED BY <2>1, <1>1 DEF ListHolds
  <1> QED BY <1>1, <1>5, <1>6, <1>7 DEF AllHeld, Held

\* A large block takes only its own bytes with it: what else the heap gave
\* out does not overlap it.
LEMMA FreeLargeHolds ==
  ASSUME IInv, AllHeld, NEW blk \in live, DeallocateLarge(blk)
  PROVE  AllHeld'
  <1>1. /\ blk.bytes > MaxBytes /\ heap' = heap \ {blk} /\ live' = live \ {blk}
        /\ UNCHANGED <<freeList, startFree, endFree>>
    BY DEF DeallocateLarge, pool
  <1>2. blk.bytes \in Nat \ {0} /\ blk.addr \in Nat
    BY DEF IInv, Sound, Typed, Blocks
  <1>3. Footprint(blk) = blk.bytes
    <2>1. ~(blk.bytes <= MaxBytes) BY <1>1, <1>2, PoolConstants
    <2> QED BY <2>1 DEF Footprint
  <1>4. blk \in heap BY <1>1 DEF IInv, Sound, PiecesBacked
  <1>5. ASSUME NEW a \in Nat, HeapByte(a)'
        PROVE  HeapByte(a) /\ ~ Within(a, blk.addr, Footprint(blk))
    <2>1. PICK r \in heap \ {blk} : Within(a, r.addr, r.bytes)
      BY <1>1, <1>5 DEF HeapByte
    <2>2. Disjoint(r.addr, r.bytes, blk.addr, blk.bytes)
      BY <2>1, <1>4 DEF IInv, Sound, HeapOK
    <2>3. r.addr \in Nat /\ r.bytes \in Nat BY <2>1 DEF IInv, Sound, Typed, Blocks
    <2>4. ~ Within(a, blk.addr, blk.bytes)
      BY <2>1, <2>2, <2>3, <1>2 DEF Disjoint, Within
    <2> QED BY <2>1, <2>4, <1>3 DEF HeapByte
  <1>6. \A a : ClientHolds(live, a) =>
                 ClientHolds(live, a)' \/ Within(a, blk.addr, Footprint(blk))
    BY <1>1 DEF ClientHolds
  <1>7. \A a : ListHolds(freeList, a) => ListHolds(freeList, a)'
    BY <1>1 DEF ListHolds
  <1> QED BY <1>1, <1>5, <1>6, <1>7 DEF AllHeld, Held

LEMMA StepHolds == IInv /\ AllHeld /\ [Next]_vars => AllHeld'
  <1> SUFFICES ASSUME IInv, AllHeld, [Next]_vars PROVE AllHeld'
    OBVIOUS
  <1>1. CASE UNCHANGED vars
    BY <1>1 DEF vars, AllHeld, HeapByte, Held, ClientHolds, ListHolds
  <1>2. ASSUME NEW b \in Requests, AllocateFromList(b) PROVE AllHeld'
    BY <1>2, FromListHolds
  <1>3. ASSUME NEW b \in Requests, AllocateFromChunk(b) PROVE AllHeld'
    BY <1>3, FromChunkHolds
  <1>4. ASSUME NEW b \in Requests, NEW p \in Bases, AllocateFromHeap(b, p)
        PROVE  AllHeld'
    BY <1>4, FromHeapHolds
  <1>5. ASSUME NEW b \in Requests, AllocateFromLarger(b) PROVE AllHeld'
    BY <1>5, FromLargerHolds
  <1>6. ASSUME NEW b \in Requests, AllocateFails(b) PROVE AllHeld'
    BY <1>6, FailsHolds
  <1>7. ASSUME NEW b \in Requests, NEW p \in Bases, AllocateLarge(b, p) PROVE AllHeld'
    BY <1>7, LargeHolds
  <1>8. ASSUME NEW blk \in live, DeallocateToList(blk) PROVE AllHeld'
    BY <1>8, ToListHolds
  <1>9. ASSUME NEW blk \in live, DeallocateLarge(blk) PROVE AllHeld'
    BY <1>9, FreeLargeHolds
  <1> QED
    BY <1>1, <1>2, <1>3, <1>4, <1>5, <1>6, <1>7, <1>8, <1>9
    DEF Next, Allocate, Deallocate

----------------------------------------------------------------------------
\* Every byte the pool ever got from operator new is held by a client, free
\* on a list or in the chunk (allocate, deallocate, _M_refill,
\* _M_allocate_chunk).
THEOREM NothingLost == Spec => []NoByteLost
  <1>1. Init => AllHeld BY DEF Init, AllHeld, HeapByte
  <1>2. IInv /\ AllHeld => NoByteLost
    <2> SUFFICES ASSUME IInv, AllHeld, NEW r \in heap,
                        NEW a \in r.addr .. r.addr + r.bytes - 1
                 PROVE  Accounted(a)
      BY DEF NoByteLost
    <2>1. r.addr \in Nat /\ r.bytes \in Nat BY DEF IInv, Sound, Typed, Blocks
    <2>2. a \in Nat /\ Within(a, r.addr, r.bytes) BY <2>1 DEF Within
    <2>3. Held(freeList, startFree, endFree, live, a)
      BY <2>2 DEF AllHeld, HeapByte
    <2> QED BY <2>3, AccountedIsHeld
  <1> QED BY <1>1, <1>2, StepHolds, Invariance, PTL DEF Spec
============================================================================
