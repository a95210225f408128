------------------------- MODULE BitmapAlloc_proofs -------------------------
(***************************************************************************)
(* Proofs about the bitmap allocator: the free list stays in order, the    *)
(* bits of every chunk tell which of its objects may be handed out, the    *)
(* use counts find the last object of a chunk, and a chunk is asked for    *)
(* only when there is nothing left to hand out.                            *)
(***************************************************************************)
EXTENDS BitmapAlloc, ListLemmas

Chunks == [id : Ids, size : Nat]

----------------------------------------------------------------------------
(* The free list.                                                          *)

\* FreeListInOrder of a list l and chunks o in use, with the types, and with
\* the names of the chunks in use apart.
InOrder(l, o) ==
  /\ l \in Seq(Chunks) /\ o \subseteq Chunks
  /\ Len(l) <= MaxFree
  /\ \A j, k \in 1 .. Len(l) : j < k => l[j].size <= l[k].size /\ l[j].id # l[k].id
  /\ \A k \in 1 .. Len(l), d \in o : l[k].id # d.id
  /\ \A c, d \in o : c.id = d.id => c = d

\* A list without one of its chunks is in order, and the chunk may be used.
LEMMA ErasedInOrder ==
  ASSUME NEW l, NEW o, InOrder(l, o), NEW k \in 1 .. Len(l)
  PROVE  /\ InOrder(RemoveAt(l, k), o)
         /\ InOrder(RemoveAt(l, k), o \cup {l[k]})
  <1> DEFINE r == RemoveAt(l, k)
  <1>1. /\ Len(l) \in Nat /\ l \in Seq(Chunks)
        /\ \A j \in 1 .. Len(l) : l[j] \in Chunks
    BY LenProperties DEF InOrder
  <1>2. /\ r \in Seq(Chunks) /\ Len(r) = Len(l) - 1
        /\ \A j \in 1 .. Len(l) - 1 : r[j] = IF j < k THEN l[j] ELSE l[j + 1]
    BY <1>1, RemoveAtFacts
  <1> HIDE DEF r
  <1> DEFINE from(j) == IF j < k THEN j ELSE j + 1
  <1>3. \A j \in 1 .. Len(r) : from(j) \in 1 .. Len(l) \ {k} /\ r[j] = l[from(j)]
    BY <1>1, <1>2
  <1>4. \A i, j \in 1 .. Len(r) : i < j => from(i) < from(j) BY <1>1, <1>2
  <1> HIDE DEF from
  <1>5. \A i, j \in 1 .. Len(r) :
          i < j => r[i].size <= r[j].size /\ r[i].id # r[j].id
    BY <1>3, <1>4 DEF InOrder
  <1>6. \A j \in 1 .. Len(r) : r[j].id # l[k].id
    <2> SUFFICES ASSUME NEW j \in 1 .. Len(r) PROVE r[j].id # l[k].id OBVIOUS
    <2>1. from(j) < k \/ k < from(j) BY <1>1, <1>3
    <2> QED BY <2>1, <1>3 DEF InOrder
  <1>7. \A j \in 1 .. Len(r), d \in o : r[j].id # d.id BY <1>3 DEF InOrder
  <1>8. Len(r) <= MaxFree BY <1>1, <1>2, FreeListConstants DEF InOrder
  <1>9. \A c, d \in o \cup {l[k]} : c.id = d.id => c = d BY DEF InOrder
  <1>10. InOrder(r, o) BY <1>2, <1>5, <1>7, <1>8 DEF InOrder
  <1>11. InOrder(r, o \cup {l[k]})
    BY <1>1, <1>2, <1>5, <1>6, <1>7, <1>8, <1>9 DEF InOrder
  <1> QED BY <1>10, <1>11 DEF r

\* The place that the search finds: the chunks before it are smaller, those
\* from it on are not.
LEMMA PlaceFacts ==
  ASSUME NEW l \in Seq(Chunks), NEW c \in Chunks,
         \A j, k \in 1 .. Len(l) : j < k => l[j].size <= l[k].size,
         NEW n, n = Cardinality({k \in DOMAIN l : l[k].size < c.size})
  PROVE  /\ n \in 0 .. Len(l)
         /\ \A k \in 1 .. Len(l) : k <= n <=> l[k].size < c.size
  <1> DEFINE Less == {k \in DOMAIN l : l[k].size < c.size}
  <1>1. /\ Len(l) \in Nat /\ DOMAIN l = 1 .. Len(l)
        /\ \A j \in 1 .. Len(l) : l[j] \in Chunks
    BY LenProperties
  <1>2. \A j \in 1 .. Len(l) : l[j].size \in Nat BY <1>1 DEF Chunks
  <1>3. c.size \in Nat BY DEF Chunks
  <1>4. \A j \in 1 .. Len(l), k \in Less : j < k => j \in Less
    BY <1>1, <1>2, <1>3
  <1>5. Less \subseteq 1 .. Len(l) BY <1>1
  <1>6. n = Cardinality(Less) OBVIOUS
  <1>7. \A k \in 1 .. Len(l) : k \in Less <=> l[k].size < c.size BY <1>1
  <1> HIDE DEF Less
  <1>8. n \in 0 .. Len(l) /\ Less = 1 .. n BY <1>1, <1>4, <1>5, <1>6, BeginningSize
  <1> QED BY <1>1, <1>7, <1>8

\* A chunk that comes back is filed in order, or nobody has it any more.
LEMMA InsertedInOrder ==
  ASSUME NEW l, NEW o, InOrder(l, o), NEW c \in o
  PROVE  InOrder(Inserted(l, c), o \ {c})
  <1> DEFINE full == Len(l) >= MaxFree
             kept == IF full THEN Front(l) ELSE l
             n == Cardinality({k \in DOMAIN kept : kept[k].size < c.size})
             new == InsertAt(kept, n + 1, c)
  <1>1. /\ Len(l) \in Nat /\ l \in Seq(Chunks)
        /\ \A j \in 1 .. Len(l) : l[j] \in Chunks
    BY LenProperties DEF InOrder
  <1>2. InOrder(l, o \ {c}) BY DEF InOrder
  <1>3. /\ kept \in Seq(Chunks) /\ Len(kept) <= MaxFree - 1 /\ Len(kept) <= Len(l)
        /\ Len(kept) \in Nat
        /\ \A k \in 1 .. Len(kept) : kept[k] = l[k]
    <2>1. CASE full
      <3>1. Len(l) = MaxFree BY <2>1, <1>1, FreeListConstants DEF InOrder
      <3>2. kept = SubSeq(l, 1, Len(l) - 1) BY <2>1 DEF Front
      <3>3. /\ kept \in Seq(Chunks) /\ Len(kept) = Len(l) - 1
            /\ \A k \in 1 .. Len(l) - 1 : kept[k] = l[k]
        BY <3>1, <3>2, <1>1, FreeListConstants, SubSeqProperties
      <3> QED BY <3>1, <3>3, <1>1, FreeListConstants
    <2>2. CASE ~ full
      <3>1. kept = l BY <2>2
      <3>2. Len(l) <= MaxFree - 1 BY <2>2, <1>1, FreeListConstants
      <3> QED BY <3>1, <3>2, <1>1
    <2> QED BY <2>1, <2>2
  <1>4. c \in Chunks BY DEF InOrder
  <1>5. Inserted(l, c) = IF full /\ c.size >= Last(l).size THEN l ELSE new
    BY DEF Inserted
  <1> HIDE DEF kept
  <1>6. /\ n \in 0 .. Len(kept)
        /\ \A k \in 1 .. Len(kept) : k <= n <=> kept[k].size < c.size
    <2>1. \A j, k \in 1 .. Len(kept) : j < k => kept[j].size <= kept[k].size
      BY <1>1, <1>3 DEF InOrder
    <2> QED BY <2>1, <1>3, <1>4, PlaceFacts
  <1> HIDE DEF n
  <1>7. /\ new \in Seq(Chunks) /\ Len(new) = Len(kept) + 1
        /\ \A k \in 1 .. Len(kept) + 1 :
             new[k] = IF k < n + 1 THEN kept[k] ELSE IF k = n + 1 THEN c ELSE kept[k - 1]
    <2> DEFINE place == n + 1
    <2>1. place \in 1 .. Len(kept) + 1 BY <1>3, <1>6
    <2> HIDE DEF place
    <2>2. /\ InsertAt(kept, place, c) \in Seq(Chunks)
          /\ Len(InsertAt(kept, place, c)) = Len(kept) + 1
          /\ \A k \in 1 .. Len(kept) + 1 :
               InsertAt(kept, place, c)[k] = IF k < place THEN kept[k]
                                             ELSE IF k = place THEN c ELSE kept[k - 1]
      BY <2>1, <1>3, <1>4, InsertAtFacts
    <2> QED BY <2>2 DEF place
  <1> HIDE DEF new
  <1>8. /\ \A k \in 1 .. n : k \in 1 .. Len(l) /\ new[k] = l[k]
                             /\ l[k].size < c.size
        /\ new[n + 1] = c
        /\ \A k \in n + 2 .. Len(kept) + 1 :
             k - 1 \in 1 .. Len(l) /\ new[k] = l[k - 1] /\ c.size <= l[k - 1].size
    <2>1. ASSUME NEW k \in 1 .. n
          PROVE  k \in 1 .. Len(l) /\ new[k] = l[k] /\ l[k].size < c.size
      BY <1>1, <1>3, <1>6, <1>7
    <2>2. ASSUME NEW k \in n + 2 .. Len(kept) + 1
          PROVE  k - 1 \in 1 .. Len(l) /\ new[k] = l[k - 1] /\ c.size <= l[k - 1].size
      <3>1. k - 1 \in 1 .. Len(kept) /\ ~ (k - 1 <= n) BY <1>3, <1>6
      <3>2. new[k] = kept[k - 1] BY <1>3, <1>6, <1>7
      <3>3. kept[k - 1] = l[k - 1] /\ k - 1 \in 1 .. Len(l) BY <3>1, <1>1, <1>3
      <3>4. ~ (l[k - 1].size < c.size) BY <3>1, <3>3, <1>6
      <3>5. l[k - 1].size \in Nat /\ c.size \in Nat BY <3>3, <1>1, <1>4 DEF Chunks
      <3> QED BY <3>2, <3>3, <3>4, <3>5
    <2>3. new[n + 1] = c BY <1>3, <1>6, <1>7
    <2> QED BY <2>1, <2>2, <2>3
  <1>9. \A k \in 1 .. Len(l) : l[k].id # c.id BY DEF InOrder
  <1>10. ASSUME NEW j \in 1 .. Len(kept) + 1, NEW k \in 1 .. Len(kept) + 1, j < k
         PROVE  new[j].size <= new[k].size /\ new[j].id # new[k].id
    <2>0. c.size \in Nat /\ \A i \in 1 .. Len(l) : l[i].size \in Nat
      BY <1>1, <1>4 DEF Chunks
    <2>a. \A i, m \in 1 .. Len(l) : i < m => l[i].size <= l[m].size /\ l[i].id # l[m].id
      BY DEF InOrder
    <2>1. CASE k <= n
      <3>1. j \in 1 .. n /\ k \in 1 .. n BY <2>1, <1>10, <1>3, <1>6
      <3> QED BY <3>1, <1>8, <1>10, <2>a
    <2>2. CASE k = n + 1
      <3>1. j \in 1 .. n BY <2>2, <1>10, <1>3, <1>6
      <3> QED BY <3>1, <2>2, <1>8, <1>9, <2>0
    <2>3. CASE k > n + 1
      <3>1. k \in n + 2 .. Len(kept) + 1 BY <2>3, <1>3, <1>6
      <3>2. CASE j <= n
        <4>1. j \in 1 .. n /\ j < k - 1 BY <3>2, <2>3, <1>3, <1>6
        <4> QED BY <4>1, <3>1, <1>8, <2>a
      <3>3. CASE j = n + 1 BY <3>1, <3>3, <1>8, <1>9
      <3>4. CASE j > n + 1
        <4>1. j \in n + 2 .. Len(kept) + 1 /\ j - 1 < k - 1
          BY <3>4, <1>10, <1>3, <1>6
        <4> QED BY <4>1, <3>1, <1>8, <2>a
      <3> QED BY <3>2, <3>3, <3>4, <1>3, <1>6
    <2> QED BY <2>1, <2>2, <2>3, <1>3, <1>6
  <1>11. ASSUME NEW k \in 1 .. Len(kept) + 1, NEW d \in o \ {c} PROVE new[k].id # d.id
    <2>1. c.id # d.id BY DEF InOrder
    <2>2. \A i \in 1 .. Len(l) : l[i].id # d.id BY DEF InOrder
    <2>3. k \in 1 .. n \/ k = n + 1 \/ k \in n + 2 .. Len(kept) + 1 BY <1>3, <1>6
    <2> QED BY <2>1, <2>2, <2>3, <1>8
  <1>12. Len(new) <= MaxFree BY <1>3, <1>7, FreeListConstants
  <1>13. InOrder(new, o \ {c})
    BY <1>2, <1>7, <1>10, <1>11, <1>12 DEF InOrder
  <1> QED BY <1>2, <1>5, <1>13

\* Whatever is done with the free list, it stays in order.
LEMMA ObtainInOrder ==
  ASSUME InOrder(freeList, out), NEW size, NEW c \in Chunks, Obtain(size, c)
  PROVE  /\ InOrder(freeList', out) /\ InOrder(freeList', out \cup {c})
         /\ \A d \in out : d.id # c.id
  <1>1. Len(freeList) \in Nat /\ DOMAIN freeList = 1 .. Len(freeList)
    BY LenProperties DEF InOrder
  <1>2. ASSUME NEW k \in DOMAIN freeList, c = freeList[k],
               freeList' = RemoveAt(freeList, k)
        PROVE  /\ InOrder(freeList', out) /\ InOrder(freeList', out \cup {c})
               /\ \A d \in out : d.id # c.id
    <2>1. k \in 1 .. Len(freeList) BY <1>1
    <2>2. \A d \in out : d.id # c.id BY <2>1, <1>2 DEF InOrder
    <2> QED BY <2>1, <2>2, <1>2, ErasedInOrder
  <1>3. ASSUME \A d \in out \cup Listed : d.id # c.id, UNCHANGED freeList
        PROVE  /\ InOrder(freeList', out) /\ InOrder(freeList', out \cup {c})
               /\ \A d \in out : d.id # c.id
    <2>1. \A k \in 1 .. Len(freeList) : freeList[k].id # c.id
      BY <1>1, <1>3 DEF Listed
    <2> QED BY <2>1, <1>3 DEF InOrder
  <1> QED BY <1>2, <1>3 DEF Obtain

----------------------------------------------------------------------------
(* The inductive invariant.                                                *)

Bitmaps == UNION {[0 .. n - 1 -> SUBSET (0 .. W - 1)] : n \in Nat \ {0}}

BlockType == [chunk : Chunks, bits : Bitmaps, used : Nat]

\* Block b when the objects objs are in use: its bits below that of the sign
\* tell which objects are free; a higher bit is set only together with that
\* of the sign, so that the first free bit is never a higher one; its count is
\* right, and its chunk is long enough.
BlockOK(b, objs) ==
  /\ b \in BlockType
  /\ \A m \in DOMAIN b.bits :
       /\ \A pos \in 0 .. IntBits - 1 :
            pos \in b.bits[m] <=> <<b.chunk.id, m * W + pos>> \notin objs
       /\ \A pos \in b.bits[m] : pos >= IntBits - 1 => IntBits - 1 \in b.bits[m]
  /\ b.used = Cardinality({o \in objs : Holds(b, o)})
  /\ b.chunk.size >= 1 + NumBlocks(b) * ObjWords + Cardinality(DOMAIN b.bits)

\* The blocks bs are in order, have objects in use, and chunks of their
\* own.
BlocksOK(bs, objs, o) ==
  /\ bs \in Seq(BlockType)
  /\ \A i \in 1 .. Len(bs) :
       BlockOK(bs[i], objs) /\ bs[i].used > 0 /\ bs[i].chunk \in o
  /\ \A i, j \in 1 .. Len(bs) : i # j => bs[i].chunk.id # bs[j].chunk.id

\* Every object in use is one that a mask can name, of one of the blocks.
ObjectsOK(bs, objs) ==
  /\ objs \subseteq Ids \X Nat /\ IsFiniteSet(objs)
  /\ \A o \in objs : o[2] % W < IntBits /\ \E i \in 1 .. Len(bs) : Holds(bs[i], o)

\* The cursor r and the index d of the last deallocation.
CursorOK(r, d, bs) ==
  /\ r \in [where : Int, bmap : Int] /\ d \in Nat
  /\ r.bmap # -1 => /\ r.where \in 0 .. Len(bs) - 1
                    /\ r.bmap \in DOMAIN bs[r.where + 1].bits
  /\ IF bs = <<>> THEN d = 0 ELSE d < Len(bs)

IInv ==
  /\ InOrder(freeList, out)
  /\ BlocksOK(blocks, live, out)
  /\ ObjectsOK(blocks, live)
  /\ CursorOK(request, dealloc, blocks)
  /\ capacity \in Nat /\ Len(blocks) <= capacity
  /\ SizeFollowsChunks

----------------------------------------------------------------------------
(* Bitmaps and their objects.                                              *)

\* Position p of bitmap m, and the object it stands for.
LEMMA PlaceOfBit ==
  ASSUME NEW m \in Nat, NEW p \in 0 .. W - 1
  PROVE  /\ m * W + p \in Nat
         /\ (m * W + p) \div W = m /\ (m * W + p) % W = p
  <1> DEFINE k == m * W + p
             q == k \div W
             r == k % W
  <1>1. W \in Nat \ {0} BY BitmapConstants
  <1>2. m * W \in Nat BY <1>1
  <1>3. k \in Nat BY <1>2
  <1> HIDE DEF k
  <1>4. q \in Nat /\ r \in 0 .. W - 1 /\ k = q * W + r BY <1>1, <1>3
  <1> HIDE DEF q, r
  <1>5. (q - m) * W = p - r BY <1>1, <1>2, <1>4 DEF k
  <1>6. \A d \in Int : d >= 1 => d * W >= W BY <1>1
  <1>7. \A d \in Int : d <= -1 => d * W <= -W BY <1>1
  <1>8. ~ (q - m >= 1) /\ ~ (q - m <= -1)
    <2>1. q - m \in Int /\ p - r < W /\ p - r > -W BY <1>1, <1>4
    <2> QED BY <2>1, <1>1, <1>5, <1>6, <1>7
  <1>9. q = m BY <1>4, <1>8
  <1>10. r = p BY <1>2, <1>4, <1>9 DEF k
  <1> QED BY <1>3, <1>9, <1>10 DEF k, q, r

\* The bitmap and the position of object k.
LEMMA BitOfPlace ==
  ASSUME NEW k \in Nat
  PROVE  /\ k % W \in 0 .. W - 1 /\ k \div W \in Nat
         /\ k = (k \div W) * W + (k % W)
         /\ \A n \in Nat : k < n * W => k \div W < n
  <1>1. W \in Nat \ {0} BY BitmapConstants
  <1>2. k % W \in 0 .. W - 1 /\ k \div W \in Nat /\ k = (k \div W) * W + (k % W)
    BY <1>1
  <1>3. ASSUME NEW n \in Nat, k < n * W, ~ (k \div W < n) PROVE FALSE
    <2> DEFINE q == k \div W
    <2>1. q \in Nat /\ q >= n BY <1>2, <1>3
    <2>2. q * W <= k BY <1>1, <1>2
    <2> HIDE DEF q
    <2>3. (q - n) * W >= 0 BY <1>1, <2>1
    <2>4. q * W >= n * W BY <1>1, <2>1, <2>3
    <2> QED BY <1>1, <1>3, <2>1, <2>2, <2>4
  <1> QED BY <1>2, <1>3

\* What a mask covers of the positions of a bitmap.
LEMMA MaskFacts ==
  ASSUME NEW p \in 0 .. IntBits - 1
  PROVE  /\ Mask(p) \subseteq 0 .. W - 1
         /\ \A q \in 0 .. IntBits - 1 : q \in Mask(p) <=> q = p
         /\ \A q \in 0 .. W - 1 : q >= IntBits - 1 => (q \in Mask(p) <=> p = IntBits - 1)
  <1>1. W \in Nat \ {0} /\ IntBits \in 1 .. W BY BitmapConstants
  <1> QED BY <1>1 DEF Mask

\* The number of a block's bitmaps is that of its domain.
LEMMA BlockFacts ==
  ASSUME NEW b \in BlockType
  PROVE  /\ b.chunk \in Chunks /\ b.chunk.id \in Ids /\ b.chunk.size \in Nat
         /\ b.used \in Nat
         /\ Cardinality(DOMAIN b.bits) \in Nat \ {0}
         /\ DOMAIN b.bits = 0 .. Cardinality(DOMAIN b.bits) - 1
         /\ b.bits \in [0 .. Cardinality(DOMAIN b.bits) - 1 -> SUBSET (0 .. W - 1)]
         /\ NumBlocks(b) = Cardinality(DOMAIN b.bits) * W
         /\ NumBlocks(b) \in Nat
  <1>1. b.chunk \in Chunks /\ b.used \in Nat /\ b.bits \in Bitmaps BY DEF BlockType
  <1>2. PICK n \in Nat \ {0} : b.bits \in [0 .. n - 1 -> SUBSET (0 .. W - 1)]
    BY <1>1 DEF Bitmaps
  <1>3. Cardinality(0 .. n - 1) = n BY FS_Interval
  <1>4. DOMAIN b.bits = 0 .. n - 1 BY <1>2
  <1>5. b.chunk.id \in Ids /\ b.chunk.size \in Nat BY <1>1 DEF Chunks
  <1>6. n * W \in Nat BY BitmapConstants
  <1> QED BY <1>1, <1>2, <1>3, <1>4, <1>5, <1>6 DEF NumBlocks

\* Counting the objects of a block.
LEMMA OneMore ==
  ASSUME NEW b, NEW objs, IsFiniteSet(objs), NEW o, o \notin objs, Holds(b, o)
  PROVE  Cardinality({x \in objs \cup {o} : Holds(b, x)})
           = Cardinality({x \in objs : Holds(b, x)}) + 1
  <1> DEFINE S == {x \in objs : Holds(b, x)}
  <1>1. IsFiniteSet(S) BY FS_Subset
  <1>2. {x \in objs \cup {o} : Holds(b, x)} = S \cup {o} OBVIOUS
  <1>3. o \notin S OBVIOUS
  <1> HIDE DEF S
  <1>4. Cardinality(S \cup {o}) = Cardinality(S) + 1 BY <1>1, <1>3, FS_AddElement
  <1> QED BY <1>2, <1>4 DEF S

LEMMA OneLess ==
  ASSUME NEW b, NEW objs, IsFiniteSet(objs), NEW o \in objs, Holds(b, o)
  PROVE  Cardinality({x \in objs \ {o} : Holds(b, x)})
           = Cardinality({x \in objs : Holds(b, x)}) - 1
  <1> DEFINE S == {x \in objs : Holds(b, x)}
  <1>1. IsFiniteSet(S) BY FS_Subset
  <1>2. {x \in objs \ {o} : Holds(b, x)} = S \ {o} OBVIOUS
  <1>3. o \in S OBVIOUS
  <1> HIDE DEF S
  <1>4. Cardinality(S \ {o}) = Cardinality(S) - 1 BY <1>1, <1>3, FS_RemoveElement
  <1> QED BY <1>2, <1>4 DEF S

\* The first free bit of a bitmap: an object that nobody has and that a mask
\* can name.
LEMMA FirstFreeFacts ==
  ASSUME NEW b, NEW objs, BlockOK(b, objs),
         NEW m \in DOMAIN b.bits, b.bits[m] # {}
  PROVE  LET k == FirstFree(b, m)
         IN  /\ m \in Nat /\ k \in Nat /\ k \div W = m /\ k % W \in 0 .. IntBits - 1
             /\ <<b.chunk.id, k>> \notin objs
             /\ Holds(b, <<b.chunk.id, k>>)
  <1> DEFINE n == Cardinality(DOMAIN b.bits)
             p == Min(b.bits[m])
  <1>1. b \in BlockType BY DEF BlockOK
  <1>2. /\ n \in Nat \ {0} /\ DOMAIN b.bits = 0 .. n - 1
        /\ b.bits[m] \subseteq 0 .. W - 1 /\ NumBlocks(b) = n * W
    BY <1>1, BlockFacts
  <1>3. p \in b.bits[m] /\ \A q \in b.bits[m] : p <= q BY <1>2, MinFacts
  <1>4. W \in Nat \ {0} /\ IntBits \in 1 .. W BY BitmapConstants
  <1> HIDE DEF p, n
  <1>5. p \in 0 .. IntBits - 1
    <2>1. p \in 0 .. W - 1 BY <1>2, <1>3
    <2>2. p >= IntBits - 1 => p <= IntBits - 1 BY <1>3 DEF BlockOK
    <2> QED BY <2>1, <2>2, <1>4
  <1>6. m \in Nat /\ p \in 0 .. W - 1 BY <1>2, <1>3
  <1>7. /\ m * W + p \in Nat /\ (m * W + p) \div W = m /\ (m * W + p) % W = p
    BY <1>6, PlaceOfBit
  <1>8. <<b.chunk.id, m * W + p>> \notin objs BY <1>3, <1>5 DEF BlockOK
  <1>9. m * W + p < n * W
    <2>1. m <= n - 1 BY <1>2
    <2>2. (n - 1 - m) * W >= 0 BY <2>1, <1>2, <1>4, <1>6
    <2>3. m * W \in Nat /\ n * W \in Int BY <1>2, <1>4, <1>6
    <2>4. n * W - W - m * W >= 0 BY <2>2, <1>2, <1>4, <1>6
    <2> QED BY <2>3, <2>4, <1>4, <1>6
  <1>10. Holds(b, <<b.chunk.id, m * W + p>>) BY <1>2, <1>9 DEF Holds
  <1> QED BY <1>5, <1>6, <1>7, <1>8, <1>10 DEF FirstFree, p

\* A block after one of its objects was taken or given back, field by field.
LEMMA TakenFields ==
  ASSUME NEW b \in BlockType, NEW k
  PROVE  Taken(b, k) =
           [chunk |-> b.chunk,
            bits |-> [b.bits EXCEPT ![k \div W] = b.bits[k \div W] \ Mask(k % W)],
            used |-> b.used + 1]
  <1> DEFINE d == [b EXCEPT !.used = b.used + 1]
  <1>1. d = [chunk |-> b.chunk, bits |-> b.bits, used |-> b.used + 1] BY DEF BlockType
  <1>2. Taken(b, k) = [d EXCEPT !.bits[k \div W] = b.bits[k \div W] \ Mask(k % W)]
    BY DEF Taken
  <1> HIDE DEF d
  <1> QED BY <1>1, <1>2

LEMMA GivenFields ==
  ASSUME NEW b \in BlockType, NEW k
  PROVE  Given(b, k) =
           [chunk |-> b.chunk,
            bits |-> [b.bits EXCEPT ![k \div W] = b.bits[k \div W] \cup Mask(k % W)],
            used |-> b.used - 1]
  <1> DEFINE d == [b EXCEPT !.used = b.used - 1]
  <1>1. d = [chunk |-> b.chunk, bits |-> b.bits, used |-> b.used - 1] BY DEF BlockType
  <1>2. Given(b, k) = [d EXCEPT !.bits[k \div W] = b.bits[k \div W] \cup Mask(k % W)]
    BY DEF Given
  <1> HIDE DEF d
  <1> QED BY <1>1, <1>2

\* A block with other bits in one bitmap and another count.
LEMMA Rewritten ==
  ASSUME NEW b \in BlockType, NEW m \in DOMAIN b.bits,
         NEW S \in SUBSET (0 .. W - 1), NEW u \in Nat,
         NEW c, c = [chunk |-> b.chunk, bits |-> [b.bits EXCEPT ![m] = S], used |-> u]
  PROVE  /\ c \in BlockType
         /\ c.chunk = b.chunk /\ c.used = u
         /\ DOMAIN c.bits = DOMAIN b.bits
         /\ \A x \in DOMAIN b.bits : c.bits[x] = IF x = m THEN S ELSE b.bits[x]
         /\ NumBlocks(c) = NumBlocks(b)
         /\ \A o : Holds(c, o) <=> Holds(b, o)
  <1>1. b.chunk \in Chunks /\ b.used \in Nat /\ b.bits \in Bitmaps BY DEF BlockType
  <1>2. PICK n \in Nat \ {0} : b.bits \in [0 .. n - 1 -> SUBSET (0 .. W - 1)]
    BY <1>1 DEF Bitmaps
  <1>3. c.chunk = b.chunk /\ c.used = u /\ c.bits = [b.bits EXCEPT ![m] = S]
    OBVIOUS
  <1>4. c = [chunk |-> c.chunk, bits |-> c.bits, used |-> c.used] OBVIOUS
  <1>5. c.bits \in [0 .. n - 1 -> SUBSET (0 .. W - 1)] BY <1>2, <1>3
  <1>6. c.bits \in Bitmaps BY <1>5 DEF Bitmaps
  <1>7. c \in BlockType BY <1>1, <1>3, <1>4, <1>6 DEF BlockType
  <1>8. DOMAIN c.bits = DOMAIN b.bits BY <1>3
  <1>9. \A x \in DOMAIN b.bits : c.bits[x] = IF x = m THEN S ELSE b.bits[x]
    BY <1>2, <1>3
  <1>10. NumBlocks(c) = NumBlocks(b) BY <1>8 DEF NumBlocks
  <1> QED BY <1>3, <1>7, <1>8, <1>9, <1>10 DEF Holds

\* Two places of a block that are the same are the same bit.
LEMMA SamePlace ==
  ASSUME NEW m \in Nat, NEW p \in 0 .. W - 1, NEW x \in Nat, NEW q \in 0 .. W - 1,
         m * W + p = x * W + q
  PROVE  m = x /\ p = q
  <1>1. (m * W + p) \div W = m /\ (m * W + p) % W = p BY PlaceOfBit
  <1>2. (x * W + q) \div W = x /\ (x * W + q) % W = q BY PlaceOfBit
  <1> QED BY <1>1, <1>2

\* Taking object k of a block: nothing of another object is lost.
LEMMA TakenOK ==
  ASSUME NEW b, NEW objs, BlockOK(b, objs), IsFiniteSet(objs),
         NEW k \in Nat, k % W \in 0 .. IntBits - 1, k \div W \in DOMAIN b.bits,
         <<b.chunk.id, k>> \notin objs, Holds(b, <<b.chunk.id, k>>)
  PROVE  /\ BlockOK(Taken(b, k), objs \cup {<<b.chunk.id, k>>})
         /\ Taken(b, k).chunk = b.chunk
         /\ Taken(b, k).used = b.used + 1
         /\ DOMAIN Taken(b, k).bits = DOMAIN b.bits
         /\ \A o : Holds(Taken(b, k), o) <=> Holds(b, o)
  <1> DEFINE m == k \div W
             p == k % W
             o == <<b.chunk.id, k>>
             S == b.bits[m] \ Mask(p)
             c == Taken(b, k)
  <1>1. b \in BlockType BY DEF BlockOK
  <1>2. /\ b.used \in Nat
        /\ DOMAIN b.bits = 0 .. Cardinality(DOMAIN b.bits) - 1
        /\ Cardinality(DOMAIN b.bits) \in Nat
        /\ \A x \in DOMAIN b.bits : b.bits[x] \subseteq 0 .. W - 1
    BY <1>1, BlockFacts
  <1>3. c = [chunk |-> b.chunk, bits |-> [b.bits EXCEPT ![m] = S],
              used |-> b.used + 1]
    BY <1>1, TakenFields
  <1>4. m \in DOMAIN b.bits /\ S \in SUBSET (0 .. W - 1) /\ b.used + 1 \in Nat BY <1>2
  <1>5. p \in 0 .. IntBits - 1 /\ k = m * W + p BY BitOfPlace
  <1>6. W \in Nat \ {0} /\ IntBits \in 1 .. W BY BitmapConstants
  <1>7. /\ \A q \in 0 .. IntBits - 1 : q \in Mask(p) <=> q = p
        /\ \A q \in 0 .. W - 1 : q >= IntBits - 1 => (q \in Mask(p) <=> p = IntBits - 1)
    BY <1>5, MaskFacts
  <1> HIDE DEF c, m, p, S
  <1>8. /\ c \in BlockType
        /\ c.chunk = b.chunk /\ c.used = b.used + 1
        /\ DOMAIN c.bits = DOMAIN b.bits
        /\ \A x \in DOMAIN b.bits : c.bits[x] = IF x = m THEN S ELSE b.bits[x]
        /\ NumBlocks(c) = NumBlocks(b)
        /\ \A x : Holds(c, x) <=> Holds(b, x)
    BY <1>1, <1>3, <1>4, Rewritten
  <1> USE DEF S
  <1>9. ASSUME NEW x \in DOMAIN c.bits, NEW q \in 0 .. IntBits - 1
        PROVE  q \in c.bits[x] <=> <<c.chunk.id, x * W + q>> \notin objs \cup {o}
    <2>1. q \in b.bits[x] <=> <<b.chunk.id, x * W + q>> \notin objs
      BY <1>8 DEF BlockOK
    <2>2. x * W + q = k <=> x = m /\ q = p
      <3>1. m \in Nat /\ x \in Nat BY <1>2, <1>4, <1>8
      <3>2. p \in 0 .. W - 1 /\ q \in 0 .. W - 1 BY <1>5, <1>6
      <3> QED BY <3>1, <3>2, <1>5, SamePlace
    <2>3. <<b.chunk.id, x * W + q>> = o <=> x * W + q = k OBVIOUS
    <2>4. q \in c.bits[x] <=> q \in b.bits[x] /\ ~ (x = m /\ q = p) BY <1>7, <1>8
    <2> HIDE DEF o
    <2> QED BY <2>1, <2>2, <2>3, <2>4, <1>8
  <1>10. ASSUME NEW x \in DOMAIN c.bits, NEW q \in c.bits[x], q >= IntBits - 1
         PROVE  IntBits - 1 \in c.bits[x]
    <2>1. q \in b.bits[x] /\ q \in 0 .. W - 1 BY <1>2, <1>8
    <2>2. IntBits - 1 \in b.bits[x] BY <2>1, <1>8, <1>10 DEF BlockOK
    <2>3. CASE x = m
      <3>1. q \notin Mask(p) BY <2>3, <1>8
      <3>2. p # IntBits - 1 BY <3>1, <2>1, <1>7, <1>10
      <3>3. IntBits - 1 \in 0 .. IntBits - 1 BY <1>6
      <3>4. IntBits - 1 \notin Mask(p) BY <3>2, <3>3, <1>7
      <3> QED BY <3>4, <2>2, <2>3, <1>8
    <2>4. CASE x # m BY <2>2, <2>4, <1>8
    <2> QED BY <2>3, <2>4
  <1>11. c.used = Cardinality({x \in objs \cup {o} : Holds(c, x)})
    <2>1. Cardinality({x \in objs \cup {o} : Holds(b, x)})
            = Cardinality({x \in objs : Holds(b, x)}) + 1
      BY OneMore
    <2>2. {x \in objs \cup {o} : Holds(c, x)} = {x \in objs \cup {o} : Holds(b, x)}
      BY <1>8
    <2>3. b.used = Cardinality({x \in objs : Holds(b, x)}) BY DEF BlockOK
    <2> QED BY <2>1, <2>2, <2>3, <1>8
  <1>12. c.chunk.size >= 1 + NumBlocks(c) * ObjWords + Cardinality(DOMAIN c.bits)
    BY <1>8 DEF BlockOK
  <1>13. BlockOK(c, objs \cup {o})
    BY <1>8, <1>9, <1>10, <1>11, <1>12 DEF BlockOK
  <1> QED BY <1>8, <1>13 DEF c

\* Giving object k of a block back: no bit of an object in use is set.
LEMMA GivenOK ==
  ASSUME NEW b, NEW objs, BlockOK(b, objs), IsFiniteSet(objs),
         NEW k \in Nat, k % W \in 0 .. IntBits - 1,
         <<b.chunk.id, k>> \in objs, Holds(b, <<b.chunk.id, k>>)
  PROVE  /\ BlockOK(Given(b, k), objs \ {<<b.chunk.id, k>>})
         /\ Given(b, k).chunk = b.chunk
         /\ Given(b, k).used = b.used - 1
         /\ DOMAIN Given(b, k).bits = DOMAIN b.bits
         /\ \A o : Holds(Given(b, k), o) <=> Holds(b, o)
  <1> DEFINE m == k \div W
             p == k % W
             o == <<b.chunk.id, k>>
             S == b.bits[m] \cup Mask(p)
             c == Given(b, k)
  <1>1. b \in BlockType BY DEF BlockOK
  <1>2. /\ b.used \in Nat
        /\ DOMAIN b.bits = 0 .. Cardinality(DOMAIN b.bits) - 1
        /\ Cardinality(DOMAIN b.bits) \in Nat
        /\ \A x \in DOMAIN b.bits : b.bits[x] \subseteq 0 .. W - 1
        /\ NumBlocks(b) = Cardinality(DOMAIN b.bits) * W
    BY <1>1, BlockFacts
  <1>3. b.used = Cardinality({x \in objs : Holds(b, x)}) BY DEF BlockOK
  <1>4. Cardinality({x \in objs \ {o} : Holds(b, x)}) = b.used - 1
    BY <1>3, OneLess
  <1>5. b.used - 1 \in Nat
    <2>1. IsFiniteSet({x \in objs \ {o} : Holds(b, x)})
      BY FS_Subset, FS_RemoveElement
    <2> QED BY <2>1, <1>4, FS_CardinalityType
  <1>6. c = [chunk |-> b.chunk, bits |-> [b.bits EXCEPT ![m] = S],
              used |-> b.used - 1]
    BY <1>1, GivenFields
  <1>7. p \in 0 .. IntBits - 1 /\ k = m * W + p /\ m \in Nat BY BitOfPlace
  <1>8. m \in DOMAIN b.bits
    <2>1. k < Cardinality(DOMAIN b.bits) * W BY <1>2 DEF Holds
    <2>2. m < Cardinality(DOMAIN b.bits) BY <2>1, <1>2, BitOfPlace
    <2> QED BY <2>2, <1>2, <1>7
  <1>9. W \in Nat \ {0} /\ IntBits \in 1 .. W BY BitmapConstants
  <1>10. /\ Mask(p) \subseteq 0 .. W - 1
         /\ \A q \in 0 .. IntBits - 1 : q \in Mask(p) <=> q = p
         /\ \A q \in 0 .. W - 1 : q >= IntBits - 1 => (q \in Mask(p) <=> p = IntBits - 1)
    BY <1>7, MaskFacts
  <1>11. S \in SUBSET (0 .. W - 1) BY <1>2, <1>8, <1>10
  <1> HIDE DEF c, m, p, S
  <1>12. /\ c \in BlockType
         /\ c.chunk = b.chunk /\ c.used = b.used - 1
         /\ DOMAIN c.bits = DOMAIN b.bits
         /\ \A x \in DOMAIN b.bits : c.bits[x] = IF x = m THEN S ELSE b.bits[x]
         /\ NumBlocks(c) = NumBlocks(b)
         /\ \A x : Holds(c, x) <=> Holds(b, x)
    <2> DEFINE u == b.used - 1
    <2>1. u \in Nat /\ c = [chunk |-> b.chunk, bits |-> [b.bits EXCEPT ![m] = S], used |-> u]
      BY <1>5, <1>6
    <2> HIDE DEF u
    <2>2. /\ c \in BlockType
          /\ c.chunk = b.chunk /\ c.used = u
          /\ DOMAIN c.bits = DOMAIN b.bits
          /\ \A x \in DOMAIN b.bits : c.bits[x] = IF x = m THEN S ELSE b.bits[x]
          /\ NumBlocks(c) = NumBlocks(b)
          /\ \A x : Holds(c, x) <=> Holds(b, x)
      BY <2>1, <1>1, <1>8, <1>11, Rewritten
    <2> QED BY <2>2 DEF u
  <1> USE DEF S
  <1>13. ASSUME NEW x \in DOMAIN c.bits, NEW q \in 0 .. IntBits - 1
         PROVE  q \in c.bits[x] <=> <<c.chunk.id, x * W + q>> \notin objs \ {o}
    <2>1. q \in b.bits[x] <=> <<b.chunk.id, x * W + q>> \notin objs
      BY <1>12 DEF BlockOK
    <2>2. x * W + q = k <=> x = m /\ q = p
      <3>1. x \in Nat BY <1>2, <1>12
      <3>2. p \in 0 .. W - 1 /\ q \in 0 .. W - 1 BY <1>7, <1>9
      <3> QED BY <3>1, <3>2, <1>7, SamePlace
    <2>3. <<b.chunk.id, x * W + q>> = o <=> x * W + q = k OBVIOUS
    <2>4. q \in c.bits[x] <=> q \in b.bits[x] \/ (x = m /\ q = p) BY <1>10, <1>12
    <2> HIDE DEF o
    <2> QED BY <2>1, <2>2, <2>3, <2>4, <1>12
  <1>14. ASSUME NEW x \in DOMAIN c.bits, NEW q \in c.bits[x], q >= IntBits - 1
         PROVE  IntBits - 1 \in c.bits[x]
    <2>1. CASE q \in b.bits[x]
      <3>1. IntBits - 1 \in b.bits[x] BY <2>1, <1>12, <1>14 DEF BlockOK
      <3> QED BY <3>1, <1>12
    <2>2. CASE q \notin b.bits[x]
      <3>1. x = m /\ q \in Mask(p) BY <2>2, <1>12
      <3>2. q \in 0 .. W - 1 BY <3>1, <1>10
      <3>3. p = IntBits - 1 BY <3>1, <3>2, <1>10, <1>14
      <3>4. IntBits - 1 \in Mask(p) BY <3>3, <1>9, <1>10
      <3> QED BY <3>1, <3>4, <1>12
    <2> QED BY <2>1, <2>2
  <1>15. c.used = Cardinality({x \in objs \ {o} : Holds(c, x)})
    <2>1. {x \in objs \ {o} : Holds(c, x)} = {x \in objs \ {o} : Holds(b, x)}
      BY <1>12
    <2> QED BY <2>1, <1>4, <1>12
  <1>16. c.chunk.size >= 1 + NumBlocks(c) * ObjWords + Cardinality(DOMAIN c.bits)
    BY <1>12 DEF BlockOK
  <1>17. BlockOK(c, objs \ {o})
    BY <1>12, <1>13, <1>14, <1>15, <1>16 DEF BlockOK
  <1> QED BY <1>12, <1>17 DEF c

\* An object of another chunk changes nothing of a block.
LEMMA OtherBlockOK ==
  ASSUME NEW b, NEW objs, BlockOK(b, objs), NEW more,
         \A o \in (objs \ more) \cup (more \ objs) : o[1] # b.chunk.id
  PROVE  BlockOK(b, more)
  <1>1. \A k : <<b.chunk.id, k>> \in objs <=> <<b.chunk.id, k>> \in more
    <2> SUFFICES ASSUME NEW k
                 PROVE <<b.chunk.id, k>> \in objs <=> <<b.chunk.id, k>> \in more
      OBVIOUS
    <2>1. <<b.chunk.id, k>>[1] = b.chunk.id OBVIOUS
    <2> QED BY <2>1
  <1>2. {o \in objs : Holds(b, o)} = {o \in more : Holds(b, o)} BY DEF Holds
  <1> QED BY <1>1, <1>2 DEF BlockOK

----------------------------------------------------------------------------
(* The sequence of blocks.                                                 *)

\* What is known of a block of the sequence.
LEMMA BlockAt ==
  ASSUME NEW bs, NEW objs, NEW o, BlocksOK(bs, objs, o)
  PROVE  /\ Len(bs) \in Nat /\ DOMAIN bs = 1 .. Len(bs)
         /\ \A i \in 1 .. Len(bs) :
              /\ bs[i] \in BlockType /\ BlockOK(bs[i], objs)
              /\ 0 \in DOMAIN bs[i].bits /\ DOMAIN bs[i].bits \subseteq Nat
  <1>1. /\ Len(bs) \in Nat /\ DOMAIN bs = 1 .. Len(bs)
        /\ \A i \in 1 .. Len(bs) : bs[i] \in BlockType
    BY LenProperties DEF BlocksOK
  <1>2. ASSUME NEW i \in 1 .. Len(bs)
        PROVE  0 \in DOMAIN bs[i].bits /\ DOMAIN bs[i].bits \subseteq Nat
    <2> DEFINE n == Cardinality(DOMAIN bs[i].bits)
    <2>1. n \in Nat \ {0} /\ DOMAIN bs[i].bits = 0 .. n - 1 BY <1>1, BlockFacts
    <2> QED BY <2>1
  <1> QED BY <1>1, <1>2 DEF BlocksOK

\* One block of the sequence changes, with objects of its own.
LEMMA OneBlockOK ==
  ASSUME NEW bs, NEW objs, NEW o, BlocksOK(bs, objs, o), NEW i \in 1 .. Len(bs),
         NEW more, NEW c, BlockOK(c, more), c.used > 0, c.chunk = bs[i].chunk,
         \A x \in (objs \ more) \cup (more \ objs) : x[1] = bs[i].chunk.id,
         NEW new, new \in Seq(BlockType), Len(new) = Len(bs),
         \A j \in 1 .. Len(bs) : new[j] = IF j = i THEN c ELSE bs[j]
  PROVE  BlocksOK(new, more, o)
  <1>1. ASSUME NEW j \in 1 .. Len(bs)
        PROVE  BlockOK(new[j], more) /\ new[j].used > 0 /\ new[j].chunk \in o
    <2>1. CASE j = i BY <2>1 DEF BlocksOK
    <2>2. CASE j # i
      <3>1. bs[j].chunk.id # bs[i].chunk.id BY <2>2 DEF BlocksOK
      <3>2. BlockOK(bs[j], objs) BY DEF BlocksOK
      <3>3. \A x \in (objs \ more) \cup (more \ objs) : x[1] # bs[j].chunk.id BY <3>1
      <3>4. BlockOK(bs[j], more) BY <3>2, <3>3, OtherBlockOK
      <3> QED BY <3>4, <2>2 DEF BlocksOK
    <2> QED BY <2>1, <2>2
  <1>2. \A j \in 1 .. Len(bs) : new[j].chunk = bs[j].chunk OBVIOUS
  <1>3. \A j, k \in 1 .. Len(bs) : j # k => new[j].chunk.id # new[k].chunk.id
    BY <1>2 DEF BlocksOK
  <1> QED BY <1>1, <1>3 DEF BlocksOK

\* The cursor and the index stay good as long as the blocks keep their places
\* and their bitmaps.
LEMMA SameCursor ==
  ASSUME NEW r, NEW d, NEW bs, CursorOK(r, d, bs), Len(bs) \in Nat,
         NEW new, bs # <<>> => new # <<>>, bs = <<>> => new = <<>>,
         Len(new) = Len(bs),
         \A j \in 1 .. Len(bs) : DOMAIN new[j].bits = DOMAIN bs[j].bits
  PROVE  CursorOK(r, d, new)
  <1>1. r.bmap # -1 => r.where + 1 \in 1 .. Len(bs) BY DEF CursorOK
  <1> QED BY <1>1 DEF CursorOK

\* An object is taken from block i of the sequence.
LEMMA TakeStep ==
  ASSUME IInv, NEW i \in Indices, NEW m \in WithFreeBit(i), Take(i, m)
  PROVE  /\ BlocksOK(blocks', live', out)
         /\ ObjectsOK(blocks', live')
         /\ Len(blocks') = Len(blocks) /\ blocks # <<>> /\ blocks' # <<>>
         /\ \A j \in 1 .. Len(blocks) : DOMAIN blocks'[j].bits = DOMAIN blocks[j].bits
  <1> DEFINE n == i + 1
             b == blocks[n]
             k == FirstFree(b, m)
             o == <<b.chunk.id, k>>
             c == Taken(b, k)
  <1>1. BlocksOK(blocks, live, out) /\ ObjectsOK(blocks, live) BY DEF IInv
  <1>2. /\ Len(blocks) \in Nat /\ DOMAIN blocks = 1 .. Len(blocks)
        /\ n \in 1 .. Len(blocks)
    BY <1>1, BlockAt DEF Indices
  <1>3. b \in BlockType /\ BlockOK(b, live) /\ b.used > 0
    BY <1>1, <1>2, BlockAt DEF BlocksOK
  <1>4. m \in DOMAIN b.bits /\ b.bits[m] # {} BY DEF WithFreeBit, Block
  <1> HIDE DEF b, n
  <1>5. /\ m \in Nat /\ k \in Nat /\ k \div W = m /\ k % W \in 0 .. IntBits - 1
        /\ o \notin live /\ Holds(b, o)
    BY <1>3, <1>4, FirstFreeFacts
  <1> HIDE DEF k
  <1>6. IsFiniteSet(live) BY <1>1 DEF ObjectsOK
  <1>7. /\ BlockOK(c, live \cup {o})
        /\ c.chunk = b.chunk /\ c.used = b.used + 1
        /\ DOMAIN c.bits = DOMAIN b.bits
        /\ \A x : Holds(c, x) <=> Holds(b, x)
    BY <1>3, <1>4, <1>5, <1>6, TakenOK
  <1>8. blocks' = [blocks EXCEPT ![n] = c] /\ live' = live \cup {o}
    BY DEF Take, Block, b, n, k
  <1>9. b.used \in Nat BY <1>3, BlockFacts
  <1>10. \A x \in (live \ live') \cup (live' \ live) : x[1] = b.chunk.id BY <1>8
  <1> HIDE DEF c, o
  <1>11. /\ BlocksOK(blocks', live', out)
         /\ Len(blocks') = Len(blocks)
         /\ \A j \in 1 .. Len(blocks) : blocks'[j] = IF j = n THEN c ELSE blocks[j]
    <2>1. c.used > 0 BY <1>7, <1>9
    <2>2. BlockOK(c, live') BY <1>7, <1>8
    <2>3. /\ n \in 1 .. Len(blocks) /\ blocks' \in Seq(BlockType)
          /\ Len(blocks') = Len(blocks)
          /\ \A j \in 1 .. Len(blocks) : blocks'[j] = IF j = n THEN c ELSE blocks[j]
      <3>1. blocks \in Seq(BlockType) /\ c \in BlockType
        BY <1>1, <1>7 DEF BlocksOK, BlockOK
      <3> QED BY <3>1, <1>2, <1>8, ExceptSeq
    <2>4. /\ c.chunk = blocks[n].chunk
          /\ \A x \in (live \ live') \cup (live' \ live) : x[1] = blocks[n].chunk.id
      BY <1>7, <1>10 DEF b
    <2>5. BlocksOK(blocks, live, out) BY <1>1
    <2>6. BlocksOK(blocks', live', out)
      BY <2>1, <2>2, <2>3, <2>4, <2>5, OneBlockOK
    <2> QED BY <2>3, <2>6
  <1>12. \A j \in 1 .. Len(blocks) : /\ DOMAIN blocks'[j].bits = DOMAIN blocks[j].bits
                                     /\ \A x : Holds(blocks'[j], x) <=> Holds(blocks[j], x)
    BY <1>7, <1>11 DEF b
  <1>13. o \in Ids \X Nat /\ o[2] = k BY <1>3, <1>5, BlockFacts DEF o
  <1>14. ObjectsOK(blocks', live')
    <2>1. live' \subseteq Ids \X Nat BY <1>1, <1>8, <1>13 DEF ObjectsOK
    <2>2. IsFiniteSet(live') BY <1>6, <1>8, FS_AddElement
    <2>3. ASSUME NEW x \in live
          PROVE  x[2] % W < IntBits /\ \E j \in 1 .. Len(blocks') : Holds(blocks'[j], x)
      BY <1>1, <1>11, <1>12 DEF ObjectsOK
    <2>4. o[2] % W < IntBits BY <1>5, <1>13, BitmapConstants
    <2>5. \E j \in 1 .. Len(blocks') : Holds(blocks'[j], o)
      <3>1. Holds(blocks'[n], o) BY <1>2, <1>5, <1>12 DEF b
      <3> QED BY <3>1, <1>2, <1>11
    <2> QED BY <2>1, <2>2, <2>3, <2>4, <2>5, <1>8 DEF ObjectsOK
  <1>15. blocks # <<>> BY <1>2
  <1>16. blocks' # <<>> BY <1>2, <1>11
  <1> QED BY <1>11, <1>12, <1>14, <1>15, <1>16

----------------------------------------------------------------------------
(* Where the searches end.                                                 *)

\* The cursor is moved to a bitmap with a free bit, or behind all of them.
LEMMA ReachedFacts ==
  ASSUME IInv
  PROVE  /\ Reached \in [where : Int, bmap : Int]
         /\ Reached.bmap # -1 => /\ Reached.where \in Indices
                                 /\ Reached.bmap \in WithFreeBit(Reached.where)
  <1> DEFINE here == {m \in WithFreeBit(request.where) : m >= request.bmap}
             later == {i \in Indices : i > request.where /\ WithFreeBit(i) # {}}
  <1>1. BlocksOK(blocks, live, out) /\ CursorOK(request, dealloc, blocks) BY DEF IInv
  <1>2. /\ Len(blocks) \in Nat
        /\ \A i \in Indices : WithFreeBit(i) \subseteq Nat
    BY <1>1, BlockAt DEF Indices, WithFreeBit, Block
  <1>3. /\ request \in [where : Int, bmap : Int]
        /\ request.bmap # -1 => request.where \in Indices
    BY <1>1 DEF CursorOK, Indices
  <1>4. Reached = IF request.bmap = -1 THEN request
                  ELSE IF here # {} THEN [request EXCEPT !.bmap = Min(here)]
                  ELSE IF later # {}
                    THEN [where |-> Min(later), bmap |-> Min(WithFreeBit(Min(later)))]
                  ELSE [where |-> Len(blocks), bmap |-> -1]
    BY DEF Reached
  <1>5. CASE request.bmap = -1 BY <1>3, <1>4, <1>5
  <1>6. CASE request.bmap # -1 /\ here # {}
    <2>1. here \subseteq Nat BY <1>2, <1>3, <1>6
    <2>2. Min(here) \in here BY <2>1, <1>6, MinFacts
    <2>3. Min(here) \in Int BY <2>1, <2>2
    <2>4. Min(here) \in WithFreeBit(request.where) BY <2>2
    <2> HIDE DEF here
    <2>5. Reached.where = request.where /\ Reached.bmap = Min(here)
      BY <1>3, <1>4, <1>6
    <2>6. Reached \in [where : Int, bmap : Int] BY <2>3, <1>3, <1>4, <1>6
    <2> QED BY <2>4, <2>5, <2>6, <1>3, <1>6
  <1>7. CASE request.bmap # -1 /\ here = {} /\ later # {}
    <2>1. later \subseteq Nat BY <1>2 DEF Indices
    <2>2. Min(later) \in later BY <2>1, <1>7, MinFacts
    <2>3. Min(later) \in Indices /\ WithFreeBit(Min(later)) # {} BY <2>2
    <2>4. Min(WithFreeBit(Min(later))) \in WithFreeBit(Min(later))
      BY <2>3, <1>2, MinFacts
    <2>5. Min(later) \in Int /\ Min(WithFreeBit(Min(later))) \in Int
      <3> DEFINE n == Min(later)
                 m == Min(WithFreeBit(n))
      <3>1. n \in Int BY <2>3, <1>2 DEF Indices
      <3>2. n \in Indices /\ m \in WithFreeBit(n) BY <2>3, <2>4
      <3> HIDE DEF n, m
      <3>3. m \in Int BY <3>2, <1>2
      <3> QED BY <3>1, <3>3 DEF n, m
    <2>6. Reached = [where |-> Min(later), bmap |-> Min(WithFreeBit(Min(later)))]
      BY <1>4, <1>7
    <2> HIDE DEF here, later
    <2> QED BY <2>3, <2>4, <2>5, <2>6
  <1>8. CASE request.bmap # -1 /\ here = {} /\ later = {}
    <2>1. Reached = [where |-> Len(blocks), bmap |-> -1] BY <1>4, <1>8
    <2> QED BY <2>1, <1>2
  <1> QED BY <1>5, <1>6, <1>7, <1>8

\* The cursor where the search left it is a good one.
LEMMA ReachedOK ==
  ASSUME IInv
  PROVE  CursorOK(Reached, dealloc, blocks)
  <1>1. Len(blocks) \in Nat BY BlockAt DEF IInv
  <1>2. \A i \in Indices : WithFreeBit(i) \subseteq DOMAIN blocks[i + 1].bits
    BY DEF WithFreeBit, Block
  <1>3. /\ Reached \in [where : Int, bmap : Int]
        /\ Reached.bmap # -1 => /\ Reached.where \in 0 .. Len(blocks) - 1
                                /\ Reached.bmap \in DOMAIN blocks[Reached.where + 1].bits
    BY <1>2, ReachedFacts DEF Indices
  <1> QED BY <1>3 DEF CursorOK, IInv

\* The first block with room, and its first bitmap with a free bit.
LEMMA FitsFacts ==
  ASSUME IInv, Fits # {}
  PROVE  /\ Min(Fits) \in Indices
         /\ Min(WithFreeBit(Min(Fits))) \in WithFreeBit(Min(Fits))
  <1>1. BlocksOK(blocks, live, out) BY DEF IInv
  <1>2. /\ Len(blocks) \in Nat
        /\ \A i \in Indices : WithFreeBit(i) \subseteq Nat
    BY <1>1, BlockAt DEF Indices, WithFreeBit, Block
  <1>3. Fits \subseteq Indices /\ Indices \subseteq Nat BY <1>2 DEF Fits, Indices
  <1>4. Min(Fits) \in Fits BY <1>3, MinFacts
  <1>5. Min(Fits) \in Indices /\ WithFreeBit(Min(Fits)) # {} BY <1>4 DEF Fits
  <1> QED BY <1>2, <1>5, MinFacts

\* The cursor at the first bitmap of a block, or at none.
LEMMA ResetOK ==
  ASSUME NEW bs, NEW objs, NEW o, BlocksOK(bs, objs, o),
         NEW i \in -1 .. Len(bs) - 1, NEW d \in Nat,
         IF bs = <<>> THEN d = 0 ELSE d < Len(bs)
  PROVE  CursorOK(Reset(i), d, bs)
  <1>1. Len(bs) \in Nat BY BlockAt
  <1>2. CASE i = -1
    <2>1. Reset(i) = [where |-> -1, bmap |-> -1] BY <1>2 DEF Reset, Finished
    <2> QED BY <2>1 DEF CursorOK
  <1>3. CASE i # -1
    <2>1. Reset(i) = [where |-> i, bmap |-> 0] BY <1>3 DEF Reset
    <2>2. i + 1 \in 1 .. Len(bs) /\ i \in 0 .. Len(bs) - 1 BY <1>1, <1>3
    <2>3. 0 \in DOMAIN bs[i + 1].bits BY <2>2, BlockAt
    <2> QED BY <2>1, <2>2, <2>3 DEF CursorOK
  <1> QED BY <1>2, <1>3

----------------------------------------------------------------------------
(* Every step keeps the invariant.                                         *)

\* At first there is nothing.
LEMMA InitOK == Init => IInv
  <1> SUFFICES ASSUME Init PROVE IInv OBVIOUS
  <1>1. freeList = <<>> /\ out = {} BY DEF Init, FreeListInit
  <1>2. InOrder(freeList, out) BY <1>1, FreeListConstants DEF InOrder
  <1>3. blocks = <<>> /\ live = {} BY DEF Init
  <1>4. BlocksOK(blocks, live, out) BY <1>3 DEF BlocksOK
  <1>5. ObjectsOK(blocks, live) BY <1>3, FS_EmptySet DEF ObjectsOK
  <1>6. CursorOK(request, dealloc, blocks)
    <2>1. request = [where |-> -1, bmap |-> -1] /\ dealloc = 0
      BY DEF Init, Finished
    <2> QED BY <2>1, <1>3 DEF CursorOK
  <1>7. capacity \in Nat /\ Len(blocks) <= capacity BY <1>3 DEF Init
  <1>8. SizeFollowsChunks
    <2>1. Len(blocks) = 0 /\ blockSize = 2 * W BY <1>3 DEF Init
    <2>2. 2 ^ Len(blocks) = 1 BY <2>1
    <2> QED BY <2>1, <2>2, BitmapConstants DEF SizeFollowsChunks
  <1> QED BY <1>2, <1>4, <1>5, <1>6, <1>7, <1>8 DEF IInv

LEMMA AtCursorOK == ASSUME IInv, AllocateAtCursor PROVE IInv'
  <1>1. Reached.where \in Indices /\ Reached.bmap \in WithFreeBit(Reached.where)
    BY ReachedFacts DEF AllocateAtCursor, AtEnd
  <1>2. Take(Reached.where, Reached.bmap) BY DEF AllocateAtCursor
  <1> DEFINE i == Reached.where
             m == Reached.bmap
  <1> HIDE DEF i, m
  <1>3. /\ BlocksOK(blocks', live', out)
        /\ ObjectsOK(blocks', live')
        /\ Len(blocks') = Len(blocks) /\ blocks # <<>> /\ blocks' # <<>>
        /\ \A j \in 1 .. Len(blocks) : DOMAIN blocks'[j].bits = DOMAIN blocks[j].bits
    BY <1>1, <1>2, TakeStep DEF i, m
  <1>4. Len(blocks) \in Nat BY BlockAt DEF IInv
  <1>5. CursorOK(Reached, dealloc, blocks') BY <1>3, <1>4, ReachedOK, SameCursor
  <1>6. request' = Reached /\ UNCHANGED <<freeList, out, capacity, blockSize, dealloc>>
    BY DEF AllocateAtCursor
  <1> QED BY <1>3, <1>5, <1>6 DEF IInv, SizeFollowsChunks

LEMMA FirstFitOK == ASSUME IInv, AllocateFirstFit PROVE IInv'
  <1> DEFINE i == Min(Fits)
             m == Min(WithFreeBit(i))
  <1>1. i \in Indices /\ m \in WithFreeBit(i) BY FitsFacts DEF AllocateFirstFit
  <1>2. /\ Take(i, m) /\ request' = Reset(i)
        /\ UNCHANGED <<freeList, out, capacity, blockSize, dealloc>>
    BY DEF AllocateFirstFit
  <1> HIDE DEF i, m
  <1>3. /\ BlocksOK(blocks', live', out)
        /\ ObjectsOK(blocks', live')
        /\ Len(blocks') = Len(blocks) /\ blocks # <<>> /\ blocks' # <<>>
        /\ \A j \in 1 .. Len(blocks) : DOMAIN blocks'[j].bits = DOMAIN blocks[j].bits
    BY <1>1, <1>2, TakeStep
  <1>4. Len(blocks) \in Nat BY BlockAt DEF IInv
  <1>5. CursorOK(Reset(i), dealloc, blocks')
    <2>1. i \in -1 .. Len(blocks') - 1 BY <1>1, <1>3, <1>4 DEF Indices
    <2>2. dealloc \in Nat /\ dealloc < Len(blocks') BY <1>3 DEF IInv, CursorOK
    <2> QED BY <2>1, <2>2, <1>3, ResetOK
  <1> QED BY <1>2, <1>3, <1>5 DEF IInv, SizeFollowsChunks

\* A chunk as it is laid out: every object is free.
LEMMA NewBlockOK ==
  ASSUME IInv, NEW c \in Chunks, NEW objs, c.size >= ChunkWords,
         \A o \in objs : o[1] # c.id
  PROVE  /\ BlockOK(NewBlock(c), objs)
         /\ NewBlock(c).chunk = c /\ NewBlock(c).used = 0
         /\ 0 \in DOMAIN NewBlock(c).bits /\ NewBlock(c).bits[0] = 0 .. W - 1
         /\ NumBlocks(NewBlock(c)) = blockSize
  <1> DEFINE n == 2 * 2 ^ Len(blocks)
             b == NewBlock(c)
  <1>1. W \in Nat \ {0} /\ IntBits \in 1 .. W /\ ObjWords \in Nat \ {0}
    BY BitmapConstants
  <1>2. Len(blocks) \in Nat BY BlockAt DEF IInv
  <1>3. n \in Nat \ {0} BY <1>2, NextPower
  <1> HIDE DEF n
  <1>4. blockSize = n * W
    <2>1. 2 ^ Len(blocks) \in Nat BY <1>2, NextPower
    <2> QED BY <2>1, <1>1 DEF IInv, SizeFollowsChunks, n
  <1>5. blockSize \div W = n
    <2>1. 0 \in 0 .. W - 1 BY <1>1
    <2>2. (n * W + 0) \div W = n BY <2>1, <1>3, PlaceOfBit
    <2>3. n * W \in Nat BY <1>1, <1>3
    <2> QED BY <2>2, <2>3, <1>4
  <1>6. b = [chunk |-> c, used |-> 0, bits |-> [m \in 0 .. n - 1 |-> 0 .. W - 1]]
    BY <1>5 DEF NewBlock
  <1> HIDE DEF b
  <1>7. b.bits \in [0 .. n - 1 -> SUBSET (0 .. W - 1)] BY <1>6
  <1>8. b.bits \in Bitmaps BY <1>3, <1>7 DEF Bitmaps
  <1>9. b \in BlockType BY <1>6, <1>8 DEF BlockType
  <1>10. DOMAIN b.bits = 0 .. n - 1 /\ Cardinality(DOMAIN b.bits) = n
    BY <1>3, <1>6, FS_Interval
  <1>11. NumBlocks(b) = n * W BY <1>10 DEF NumBlocks
  <1>12. b.used = Cardinality({o \in objs : Holds(b, o)})
    <2>1. {o \in objs : Holds(b, o)} = {} BY <1>6 DEF Holds
    <2> QED BY <2>1, <1>6, FS_EmptySet
  <1>13. b.chunk.size >= 1 + NumBlocks(b) * ObjWords + Cardinality(DOMAIN b.bits)
    BY <1>4, <1>5, <1>6, <1>10, <1>11 DEF ChunkWords
  <1>14. ASSUME NEW m \in DOMAIN b.bits
         PROVE  /\ \A pos \in 0 .. IntBits - 1 :
                     pos \in b.bits[m] <=> <<b.chunk.id, m * W + pos>> \notin objs
                /\ \A pos \in b.bits[m] : pos >= IntBits - 1 => IntBits - 1 \in b.bits[m]
    <2>1. b.bits[m] = 0 .. W - 1 BY <1>6, <1>10
    <2>2. \A k : <<b.chunk.id, k>> \notin objs
      <3> SUFFICES ASSUME NEW k, <<b.chunk.id, k>> \in objs PROVE FALSE OBVIOUS
      <3>1. <<b.chunk.id, k>>[1] = b.chunk.id OBVIOUS
      <3> QED BY <3>1, <1>6
    <2> QED BY <2>1, <2>2, <1>1
  <1>15. BlockOK(b, objs) BY <1>9, <1>12, <1>13, <1>14 DEF BlockOK
  <1>16. 0 \in DOMAIN b.bits /\ b.bits[0] = 0 .. W - 1 BY <1>3, <1>6
  <1> QED BY <1>4, <1>6, <1>11, <1>15, <1>16 DEF b

\* The first object of a new chunk.
LEMMA FirstObjectOK ==
  ASSUME IInv, NEW c \in Chunks, c.size >= ChunkWords, \A o \in live : o[1] # c.id
  PROVE  LET b == Taken(NewBlock(c), 0)
         IN  /\ BlockOK(b, live \cup {<<c.id, 0>>})
             /\ b.chunk = c /\ b.used = 1
             /\ Holds(b, <<c.id, 0>>)
             /\ 0 % W \in 0 .. IntBits - 1
  <1> DEFINE b == NewBlock(c)
             o == <<c.id, 0>>
  <1>1. /\ BlockOK(b, live) /\ b.chunk = c /\ b.used = 0
        /\ 0 \in DOMAIN b.bits /\ NumBlocks(b) = blockSize
    BY NewBlockOK
  <1>2. W \in Nat \ {0} /\ IntBits \in 1 .. W BY BitmapConstants
  <1>3. 0 % W \in 0 .. IntBits - 1 /\ 0 \div W = 0 BY <1>2
  <1>4. o \notin live
    <2>1. o[1] = c.id OBVIOUS
    <2> QED BY <2>1
  <1>5. blockSize > 0
    <2>1. Len(blocks) \in Nat BY BlockAt DEF IInv
    <2>2. 2 ^ Len(blocks) \in Nat \ {0} BY <2>1, NextPower
    <2> QED BY <2>2, <1>2 DEF IInv, SizeFollowsChunks
  <1>6. Holds(b, o) BY <1>1, <1>5 DEF Holds
  <1>7. IsFiniteSet(live) BY DEF IInv, ObjectsOK
  <1> DEFINE k == 0
  <1>8. /\ k \in Nat /\ k % W \in 0 .. IntBits - 1 /\ k \div W \in DOMAIN b.bits
        /\ <<b.chunk.id, k>> \notin live /\ Holds(b, <<b.chunk.id, k>>)
    BY <1>1, <1>3, <1>4, <1>6
  <1> HIDE DEF b, k
  <1>9. /\ BlockOK(Taken(b, k), live \cup {<<b.chunk.id, k>>})
        /\ Taken(b, k).chunk = b.chunk /\ Taken(b, k).used = b.used + 1
        /\ \A x : Holds(Taken(b, k), x) <=> Holds(b, x)
    BY <1>1, <1>7, <1>8, TakenOK
  <1> QED BY <1>1, <1>3, <1>6, <1>9 DEF b, k

\* The length of the next chunk, and the chunks there may be.
LEMMA ChunkTypes ==
  ASSUME IInv
  PROVE  /\ blockSize \in Nat \ {0} /\ ChunkWords \in Nat
         /\ Listed \subseteq Chunks /\ out \subseteq Chunks
         /\ ChunksOf({ChunkWords}) \subseteq Chunks /\ ChunksOf(Others) \subseteq Chunks
  <1>1. W \in Nat \ {0} /\ ObjWords \in Nat \ {0} /\ Others \subseteq Nat
    BY BitmapConstants
  <1>2. Len(blocks) \in Nat BY BlockAt DEF IInv
  <1>3. 2 ^ Len(blocks) \in Nat \ {0} BY <1>2, NextPower
  <1>4. blockSize \in Nat \ {0} BY <1>1, <1>3 DEF IInv, SizeFollowsChunks
  <1>5. blockSize * ObjWords \in Nat /\ blockSize \div W \in Nat BY <1>1, <1>4
  <1>6. ChunkWords \in Nat BY <1>5 DEF ChunkWords
  <1>7. freeList \in Seq(Chunks) /\ out \subseteq Chunks BY DEF IInv, InOrder
  <1>8. \A k \in DOMAIN freeList : freeList[k] \in Chunks BY <1>7, LenProperties
  <1> QED BY <1>1, <1>4, <1>6, <1>7, <1>8 DEF Listed, ChunksOf, Chunks

LEMMA RefillOK ==
  ASSUME IInv, NEW c \in Chunks, AllocateRefill(c) PROVE IInv'
  <1> DEFINE b == Taken(NewBlock(c), 0)
             o == <<c.id, 0>>
             n == Len(blocks)
  <1>1. /\ Obtain(ChunkWords, c) /\ out' = out \cup {c}
        /\ blocks' = Append(blocks, b) /\ capacity' = Grown
        /\ blockSize' = 2 * blockSize /\ request' = Reset(n)
        /\ live' = live \cup {o} /\ dealloc' = dealloc
    BY DEF AllocateRefill, Get
  <1>2. InOrder(freeList', out') /\ \A d \in out : d.id # c.id
    BY <1>1, ObtainInOrder DEF IInv
  <1>3. c.size >= ChunkWords
    <2>1. c.size \in Nat /\ ChunkWords \in Nat BY ChunkTypes DEF Chunks
    <2> QED BY <2>1, <1>1 DEF Obtain, ShouldGive
  <1>4. /\ BlocksOK(blocks, live, out) /\ ObjectsOK(blocks, live)
        /\ CursorOK(request, dealloc, blocks)
        /\ capacity \in Nat /\ n <= capacity
    BY DEF IInv
  <1>5. n \in Nat /\ blocks \in Seq(BlockType) BY <1>4, BlockAt DEF BlocksOK
  <1>6. \A i \in 1 .. n : blocks[i].chunk.id # c.id BY <1>2, <1>4 DEF BlocksOK
  <1>7. \A x \in live : x[1] # c.id BY <1>4, <1>6 DEF ObjectsOK, Holds
  <1>8. /\ BlockOK(b, live') /\ b.chunk = c /\ b.used = 1
        /\ Holds(b, o) /\ 0 % W \in 0 .. IntBits - 1
    BY <1>1, <1>3, <1>7, FirstObjectOK
  <1> HIDE DEF b
  <1>9. /\ blocks' \in Seq(BlockType) /\ Len(blocks') = n + 1
        /\ \A i \in 1 .. n : blocks'[i] = blocks[i]
        /\ blocks'[n + 1] = b
    <2>1. b \in BlockType BY <1>8 DEF BlockOK
    <2> QED BY <2>1, <1>1, <1>5
  <1>10. BlocksOK(blocks', live', out')
    <2>1. ASSUME NEW i \in 1 .. n + 1
          PROVE  BlockOK(blocks'[i], live') /\ blocks'[i].used > 0 /\ blocks'[i].chunk \in out'
      <3>1. CASE i = n + 1 BY <3>1, <1>1, <1>8, <1>9
      <3>2. CASE i # n + 1
        <4>1. i \in 1 .. n /\ blocks'[i] = blocks[i] BY <3>2, <1>5, <1>9
        <4>2. BlockOK(blocks[i], live) /\ blocks[i].used > 0 /\ blocks[i].chunk \in out
          BY <4>1, <1>4 DEF BlocksOK
        <4>3. \A x \in (live \ live') \cup (live' \ live) : x[1] # blocks[i].chunk.id
          BY <4>1, <1>1, <1>6
        <4>4. BlockOK(blocks[i], live') BY <4>2, <4>3, OtherBlockOK
        <4> QED BY <4>1, <4>2, <4>4, <1>1
      <3> QED BY <3>1, <3>2
    <2>2. ASSUME NEW i \in 1 .. n + 1, NEW j \in 1 .. n + 1, i # j
          PROVE  blocks'[i].chunk.id # blocks'[j].chunk.id
      <3>1. (i \in 1 .. n \/ i = n + 1) /\ (j \in 1 .. n \/ j = n + 1) BY <1>5
      <3> QED BY <3>1, <2>2, <1>4, <1>6, <1>8, <1>9 DEF BlocksOK
    <2> QED BY <2>1, <2>2, <1>9 DEF BlocksOK
  <1>11. ObjectsOK(blocks', live')
    <2>1. live' \subseteq Ids \X Nat BY <1>1, <1>4 DEF ObjectsOK, Chunks
    <2>2. IsFiniteSet(live') BY <1>1, <1>4, FS_AddElement DEF ObjectsOK
    <2>3. ASSUME NEW x \in live
          PROVE  x[2] % W < IntBits /\ \E i \in 1 .. Len(blocks') : Holds(blocks'[i], x)
      <3>1. x[2] % W < IntBits BY <1>4 DEF ObjectsOK
      <3>2. PICK i \in 1 .. n : Holds(blocks[i], x) BY <1>4 DEF ObjectsOK
      <3>3. i \in 1 .. n + 1 /\ Holds(blocks'[i], x) BY <3>2, <1>5, <1>9
      <3> QED BY <3>1, <3>3, <1>9
    <2>4. o[2] % W < IntBits BY <1>8, BitmapConstants
    <2>5. \E i \in 1 .. Len(blocks') : Holds(blocks'[i], o)
      <3>1. n + 1 \in 1 .. Len(blocks') BY <1>5, <1>9
      <3> QED BY <3>1, <1>8, <1>9
    <2> HIDE DEF o
    <2> QED BY <2>1, <2>2, <2>3, <2>4, <2>5, <1>1 DEF ObjectsOK
  <1>12. CursorOK(request', dealloc', blocks')
    <2>1. n \in -1 .. Len(blocks') - 1 BY <1>5, <1>9
    <2>2. dealloc' \in Nat /\ blocks' # <<>> /\ dealloc' < Len(blocks')
      BY <1>1, <1>4, <1>5, <1>9 DEF CursorOK
    <2> QED BY <2>1, <2>2, <1>1, <1>10, ResetOK
  <1>13. capacity' \in Nat /\ Len(blocks') <= capacity'
    <2>1. CASE n < capacity
      <3>1. capacity' = capacity BY <2>1, <1>1 DEF Grown
      <3> QED BY <3>1, <2>1, <1>4, <1>5, <1>9
    <2>2. CASE ~ (n < capacity)
      <3>1. capacity' = Max({1, 2 * capacity}) BY <2>2, <1>1 DEF Grown
      <3>2. capacity' = IF 1 >= 2 * capacity THEN 1 ELSE 2 * capacity
        BY <3>1, <1>4, MaxOfTwo
      <3> QED BY <3>2, <2>2, <1>4, <1>5, <1>9
    <2> QED BY <2>1, <2>2
  <1>14. SizeFollowsChunks'
    <2>1. 2 ^ (n + 1) = 2 * 2 ^ n /\ 2 ^ n \in Nat BY <1>5, NextPower
    <2>2. blockSize = 2 * W * 2 ^ n BY DEF IInv, SizeFollowsChunks
    <2>3. blockSize' = 2 * W * 2 ^ (n + 1) BY <2>1, <2>2, <1>1, BitmapConstants
    <2> QED BY <2>3, <1>9 DEF SizeFollowsChunks
  <1> QED BY <1>2, <1>10, <1>11, <1>12, <1>13, <1>14 DEF IInv

LEMMA FailsOK == ASSUME IInv, AllocateFails PROVE IInv'
  <1>1. /\ request' = Reached
        /\ UNCHANGED <<freeList, out, blocks, capacity, blockSize, dealloc, live>>
    BY DEF AllocateFails
  <1>2. CursorOK(Reached, dealloc, blocks) BY ReachedOK
  <1> QED BY <1>1, <1>2 DEF IInv, SizeFollowsChunks

LEMMA FailsLateOK ==
  ASSUME IInv, NEW c \in Chunks, AllocateFailsLate(c) PROVE IInv'
  <1>1. /\ Obtain(ChunkWords, c) /\ request' = Reached
        /\ UNCHANGED <<out, blocks, capacity, blockSize, dealloc, live>>
    BY DEF AllocateFailsLate
  <1>2. CursorOK(Reached, dealloc, blocks) BY ReachedOK
  <1>3. InOrder(freeList', out) BY <1>1, ObtainInOrder DEF IInv
  <1> QED BY <1>1, <1>2, <1>3 DEF IInv, SizeFollowsChunks

\* The block that _S_find finds is the one that holds the object.
LEMMA BlockOfFacts ==
  ASSUME IInv, NEW o \in live
  PROVE  BlockOf(o) \in Indices /\ Holds(Block(BlockOf(o)), o)
  <1> DEFINE S == {i \in Indices : Holds(Block(i), o)}
  <1>1. BlocksOK(blocks, live, out) BY DEF IInv
  <1>2. Len(blocks) \in Nat BY <1>1, BlockAt
  <1>3. PICK j \in 1 .. Len(blocks) : Holds(blocks[j], o) BY DEF IInv, ObjectsOK
  <1>4. j - 1 \in S
    <2>1. j - 1 \in Indices /\ j - 1 + 1 = j BY <1>2 DEF Indices
    <2> QED BY <2>1, <1>3 DEF Block
  <1>5. S \subseteq Nat BY <1>2 DEF Indices
  <1>6. Min(S) \in S BY <1>4, <1>5, MinFacts
  <1>7. blocks # <<>> BY <1>2, <1>3
  <1>8. dealloc \in Indices BY <1>2, <1>7 DEF IInv, CursorOK, Indices
  <1>9. BlockOf(o) = IF Holds(Block(dealloc), o) THEN dealloc ELSE Min(S)
    BY DEF BlockOf
  <1>10. Min(S) \in Indices /\ Holds(Block(Min(S)), o) BY <1>6
  <1> HIDE DEF S
  <1> QED BY <1>8, <1>9, <1>10

LEMMA DeallocateOK ==
  ASSUME IInv, NEW o \in live, Deallocate(o) PROVE IInv'
  <1> DEFINE i == BlockOf(o)
             n == i + 1
             b == blocks[n]
             k == o[2]
             c == Given(b, k)
  <1>1. /\ b.used # 1 /\ blocks' = [blocks EXCEPT ![n] = c]
        /\ live' = live \ {o} /\ dealloc' = i
        /\ UNCHANGED <<freeList, out, capacity, blockSize, request>>
    BY DEF Deallocate, Block
  <1>2. i \in Indices /\ Holds(b, o) BY BlockOfFacts DEF Block
  <1>3. BlocksOK(blocks, live, out) /\ ObjectsOK(blocks, live) BY DEF IInv
  <1>4. /\ Len(blocks) \in Nat /\ blocks \in Seq(BlockType)
        /\ i \in 0 .. Len(blocks) - 1 /\ n \in 1 .. Len(blocks)
    BY <1>2, <1>3, BlockAt DEF Indices, BlocksOK
  <1>5. b \in BlockType /\ BlockOK(b, live) /\ b.used > 0 /\ b.used \in Nat
    BY <1>3, <1>4, BlockAt, BlockFacts DEF BlocksOK
  <1>6. /\ o = <<b.chunk.id, k>> /\ k \in Nat /\ k % W \in 0 .. IntBits - 1
        /\ IsFiniteSet(live)
    <2>1. o \in Ids \X Nat /\ o[2] % W < IntBits /\ IsFiniteSet(live)
      BY <1>3 DEF ObjectsOK
    <2>2. o = <<o[1], o[2]>> /\ o[2] \in Nat BY <2>1
    <2>3. o[2] % W \in 0 .. W - 1 BY <2>2, BitOfPlace
    <2> QED BY <2>1, <2>2, <2>3, <1>2, BitmapConstants DEF Holds
  <1> HIDE DEF c, k, b, n, i
  <1>7. /\ BlockOK(c, live \ {o})
        /\ c.chunk = b.chunk /\ c.used = b.used - 1
        /\ DOMAIN c.bits = DOMAIN b.bits
        /\ \A x : Holds(c, x) <=> Holds(b, x)
    <2>1. <<b.chunk.id, k>> \in live /\ Holds(b, <<b.chunk.id, k>>) BY <1>2, <1>6
    <2> QED BY <2>1, <1>5, <1>6, GivenOK DEF c
  <1>8. /\ blocks' \in Seq(BlockType) /\ Len(blocks') = Len(blocks)
        /\ \A j \in 1 .. Len(blocks) : blocks'[j] = IF j = n THEN c ELSE blocks[j]
    <2>1. c \in BlockType BY <1>7 DEF BlockOK
    <2> QED BY <2>1, <1>1, <1>4, ExceptSeq
  <1>9. BlocksOK(blocks', live', out)
    <2>1. c.used > 0 /\ BlockOK(c, live') BY <1>1, <1>5, <1>7
    <2>2. /\ c.chunk = blocks[n].chunk
          /\ \A x \in (live \ live') \cup (live' \ live) : x[1] = blocks[n].chunk.id
      BY <1>1, <1>6, <1>7 DEF b
    <2> QED BY <2>1, <2>2, <1>3, <1>4, <1>8, OneBlockOK
  <1>10. \A j \in 1 .. Len(blocks) : /\ DOMAIN blocks'[j].bits = DOMAIN blocks[j].bits
                                     /\ \A x : Holds(blocks'[j], x) <=> Holds(blocks[j], x)
    BY <1>7, <1>8 DEF b
  <1>11. ObjectsOK(blocks', live')
    <2>1. live' \subseteq live /\ IsFiniteSet(live') BY <1>1, <1>6, FS_Subset
    <2> QED BY <2>1, <1>3, <1>8, <1>10 DEF ObjectsOK
  <1>12. blocks # <<>> /\ blocks' # <<>> BY <1>4, <1>8
  <1>13. CursorOK(request, i, blocks)
    BY <1>4, <1>12 DEF IInv, CursorOK
  <1>14. CursorOK(request, i, blocks') BY <1>4, <1>8, <1>10, <1>12, <1>13, SameCursor
  <1> QED BY <1>1, <1>8, <1>9, <1>11, <1>14 DEF IInv, SizeFollowsChunks

LEMMA DeallocateLastOK ==
  ASSUME IInv, NEW o \in live, DeallocateLast(o) PROVE IInv'
  <1> DEFINE i == BlockOf(o)
             n == i + 1
             b == blocks[n]
             size == Len(blocks)
             from(j) == IF j < n THEN j ELSE j + 1
  <1>1. /\ b.used = 1 /\ blockSize' = blockSize \div 2
        /\ freeList' = Inserted(freeList, b.chunk) /\ out' = out \ {b.chunk}
        /\ blocks' = RemoveAt(blocks, n)
        /\ live' = live \ {o}
        /\ request' = IF request.where >= i THEN Reset(i - 1) ELSE request
        /\ dealloc' = IF i < size - 1 THEN i ELSE Max({i - 1, 0})
        /\ capacity' = capacity
    BY DEF DeallocateLast, Insert, Block
  <1>2. i \in Indices /\ Holds(b, o) BY BlockOfFacts DEF Block
  <1>3. /\ BlocksOK(blocks, live, out) /\ ObjectsOK(blocks, live)
        /\ CursorOK(request, dealloc, blocks)
        /\ capacity \in Nat /\ size <= capacity
    BY DEF IInv
  <1>4. /\ size \in Nat /\ blocks \in Seq(BlockType)
        /\ i \in 0 .. size - 1 /\ n \in 1 .. size
    BY <1>2, <1>3, BlockAt DEF Indices, BlocksOK
  <1>5. n = i + 1 OBVIOUS
  <1> HIDE DEF b, n, i
  <1>6. /\ blocks' \in Seq(BlockType) /\ Len(blocks') = size - 1
        /\ \A j \in 1 .. size - 1 : blocks'[j] = blocks[from(j)]
    BY <1>1, <1>4, RemoveAtFacts
  <1>7. /\ \A j \in 1 .. size - 1 : from(j) \in 1 .. size /\ from(j) # n
        /\ \A j, k \in 1 .. size - 1 : j # k => from(j) # from(k)
        /\ \A j \in 1 .. size : j # n => \E k \in 1 .. size - 1 : from(k) = j
    <2>1. ASSUME NEW j \in 1 .. size, j # n PROVE \E k \in 1 .. size - 1 : from(k) = j
      <3>1. CASE j < n
        <4>1. j \in 1 .. size - 1 /\ from(j) = j BY <3>1, <1>4
        <4> QED BY <4>1
      <3>2. CASE j > n
        <4>1. j - 1 \in 1 .. size - 1 /\ from(j - 1) = j BY <3>2, <1>4
        <4> QED BY <4>1
      <3> QED BY <3>1, <3>2, <2>1, <1>4
    <2> QED BY <2>1, <1>4
  <1> HIDE DEF from
  <1>8. InOrder(freeList', out')
    <2>1. b.chunk \in out BY <1>3, <1>4 DEF BlocksOK, b
    <2> QED BY <2>1, <1>1, InsertedInOrder DEF IInv
  <1>9. BlocksOK(blocks', live', out')
    <2>1. ASSUME NEW j \in 1 .. size - 1
          PROVE  BlockOK(blocks'[j], live') /\ blocks'[j].used > 0 /\ blocks'[j].chunk \in out'
      <3> DEFINE x == blocks[from(j)]
      <3>1. BlockOK(x, live) /\ x.used > 0 /\ x.chunk \in out /\ x.chunk.id # b.chunk.id
        BY <1>3, <1>4, <1>7 DEF BlocksOK, b
      <3>2. o[1] = b.chunk.id BY <1>2 DEF Holds
      <3> HIDE DEF x
      <3>3. BlockOK(x, live')
        <4>1. \A y \in (live \ live') \cup (live' \ live) : y[1] # x.chunk.id
          BY <3>1, <3>2, <1>1
        <4> QED BY <4>1, <3>1, OtherBlockOK
      <3>4. x.chunk \in out' BY <3>1, <1>1
      <3> QED BY <3>1, <3>3, <3>4, <1>6 DEF x
    <2>2. ASSUME NEW j \in 1 .. size - 1, NEW k \in 1 .. size - 1, j # k
          PROVE  blocks'[j].chunk.id # blocks'[k].chunk.id
      <3>1. from(j) \in 1 .. size /\ from(k) \in 1 .. size /\ from(j) # from(k)
        BY <2>2, <1>7
      <3>2. blocks[from(j)].chunk.id # blocks[from(k)].chunk.id
        BY <3>1, <1>3 DEF BlocksOK
      <3> QED BY <3>2, <1>6
    <2> QED BY <2>1, <2>2, <1>6 DEF BlocksOK
  <1>10. ObjectsOK(blocks', live')
    <2>1. /\ live \subseteq Ids \X Nat /\ IsFiniteSet(live) BY <1>3 DEF ObjectsOK
    <2>2. IsFiniteSet(live') BY <2>1, <1>1, FS_Subset
    <2>3. \A x \in live' : ~ Holds(b, x)
      <3> DEFINE S == {x \in live \ {o} : Holds(b, x)}
      <3>1. BlockOK(b, live) BY <1>3, <1>4 DEF BlocksOK, b
      <3>2. Cardinality({x \in live : Holds(b, x)}) = 1
        BY <3>1, <1>1 DEF BlockOK
      <3>3. Cardinality(S) = 0 BY <3>2, <2>1, <1>2, OneLess
      <3>4. IsFiniteSet(S) BY <2>1, FS_Subset
      <3>5. S = {} BY <3>3, <3>4, FS_EmptySet
      <3> QED BY <3>5, <1>1
    <2>4. ASSUME NEW x \in live'
          PROVE  x[2] % W < IntBits /\ \E j \in 1 .. Len(blocks') : Holds(blocks'[j], x)
      <3>1. x \in live BY <1>1
      <3>2. x[2] % W < IntBits BY <3>1, <1>3 DEF ObjectsOK
      <3>3. PICK j \in 1 .. size : Holds(blocks[j], x) BY <3>1, <1>3 DEF ObjectsOK
      <3>4. j # n BY <3>3, <2>3 DEF b
      <3>5. PICK k \in 1 .. size - 1 : from(k) = j BY <3>4, <1>7
      <3>6. Holds(blocks'[k], x) BY <3>3, <3>5, <1>6
      <3> QED BY <3>2, <3>6, <1>6
    <2> QED BY <2>1, <2>2, <2>4, <1>1 DEF ObjectsOK
  <1>11. CursorOK(request', dealloc', blocks')
    <2>1. /\ dealloc' \in Nat
          /\ IF blocks' = <<>> THEN dealloc' = 0 ELSE dealloc' < Len(blocks')
      <3>1. blocks' = <<>> <=> size = 1 BY <1>4, <1>6
      <3>2. CASE i < size - 1
        <4>1. dealloc' = i BY <3>2, <1>1
        <4> QED BY <4>1, <3>1, <3>2, <1>4, <1>6
      <3>3. CASE ~ (i < size - 1)
        <4>1. i - 1 \in Int BY <1>4
        <4>2. dealloc' = Max({i - 1, 0}) BY <3>3, <1>1
        <4>3. dealloc' = IF i - 1 >= 0 THEN i - 1 ELSE 0 BY <4>1, <4>2, MaxOfTwo
        <4> QED BY <4>3, <3>1, <3>3, <1>4, <1>6
      <3> QED BY <3>2, <3>3
    <2>2. CASE request.where >= i
      <3>1. i - 1 \in -1 .. Len(blocks') - 1 BY <1>4, <1>6
      <3>2. request' = Reset(i - 1) BY <2>2, <1>1
      <3> QED BY <3>1, <3>2, <2>1, <1>9, ResetOK
    <2>3. CASE ~ (request.where >= i)
      <3>1. request' = request /\ request \in [where : Int, bmap : Int]
        BY <2>3, <1>1, <1>3 DEF CursorOK
      <3>2. ASSUME request.bmap # -1
            PROVE  /\ request.where \in 0 .. Len(blocks') - 1
                   /\ request.bmap \in DOMAIN blocks'[request.where + 1].bits
        <4> DEFINE w == request.where + 1
        <4>1. w \in 1 .. size /\ request.bmap \in DOMAIN blocks[w].bits
          BY <3>2, <1>3, <1>4 DEF CursorOK
        <4>2. w < n /\ w \in 1 .. size - 1 BY <4>1, <3>1, <2>3, <1>4, <1>5
        <4>3. blocks'[w] = blocks[w] BY <4>2, <1>6 DEF from
        <4>4. request.where \in 0 .. Len(blocks') - 1 BY <4>2, <3>1, <1>4, <1>6
        <4> QED BY <4>1, <4>3, <4>4
      <3> QED BY <3>1, <3>2, <2>1 DEF CursorOK
    <2> QED BY <2>2, <2>3
  <1>12. SizeFollowsChunks'
    <2>1. size - 1 \in Nat /\ size - 1 + 1 = size BY <1>4
    <2>2. 2 ^ (size - 1) \in Nat /\ 2 ^ size = 2 * 2 ^ (size - 1) BY <2>1, NextPower
    <2> DEFINE h == W * 2 ^ (size - 1)
    <2>3. h \in Nat BY <2>2, BitmapConstants
    <2>4. blockSize = 2 * (2 * h)
      BY <2>2, BitmapConstants DEF IInv, SizeFollowsChunks
    <2>5. 2 * W * 2 ^ (size - 1) = 2 * h BY <2>2, BitmapConstants
    <2> HIDE DEF h
    <2>6. blockSize' = 2 * h BY <2>3, <2>4, <1>1
    <2> QED BY <2>5, <2>6, <1>6 DEF SizeFollowsChunks
  <1> QED BY <1>1, <1>3, <1>4, <1>6, <1>8, <1>9, <1>10, <1>11, <1>12 DEF IInv

LEMMA OthersOK == ASSUME IInv, NEW c \in Chunks, OthersStep(c) PROVE IInv'
  <1>1. UNCHANGED <<blocks, capacity, blockSize, request, dealloc, live>>
    BY DEF OthersStep
  <1>2. InOrder(freeList, out) /\ BlocksOK(blocks, live, out) BY DEF IInv
  <1>3. CASE \E size \in Others : Get(size, c)
    <2>1. PICK size : Obtain(size, c) /\ out' = out \cup {c} BY <1>3 DEF Get
    <2>2. InOrder(freeList', out') BY <2>1, <1>2, ObtainInOrder
    <2>3. BlocksOK(blocks, live, out') BY <2>1, <1>2 DEF BlocksOK
    <2> QED BY <2>2, <2>3, <1>1 DEF IInv, SizeFollowsChunks
  <1>4. CASE c \in out \ {Block(i).chunk : i \in Indices} /\ Insert(c)
    <2>1. freeList' = Inserted(freeList, c) /\ out' = out \ {c} BY <1>4 DEF Insert
    <2>2. InOrder(freeList', out') BY <2>1, <1>2, <1>4, InsertedInOrder
    <2>3. \A j \in 1 .. Len(blocks) : blocks[j].chunk # c
      <3> SUFFICES ASSUME NEW j \in 1 .. Len(blocks) PROVE blocks[j].chunk # c
        OBVIOUS
      <3>1. Len(blocks) \in Nat BY <1>2, BlockAt
      <3>2. j - 1 \in Indices /\ Block(j - 1) = blocks[j] BY <3>1 DEF Indices, Block
      <3> QED BY <3>2, <1>4
    <2>4. BlocksOK(blocks, live, out') BY <2>1, <2>3, <1>2 DEF BlocksOK
    <2> QED BY <2>2, <2>4, <1>1 DEF IInv, SizeFollowsChunks
  <1> QED BY <1>3, <1>4 DEF OthersStep

LEMMA ClearOK ==
  ASSUME IInv, Clear,
         UNCHANGED <<blocks, capacity, blockSize, request, dealloc, live>>
  PROVE  IInv'
  <1>1. freeList' = <<>> /\ out' = out BY DEF Clear
  <1>2. InOrder(freeList', out') BY <1>1, FreeListConstants DEF IInv, InOrder
  <1> QED BY <1>1, <1>2 DEF IInv, SizeFollowsChunks

LEMMA NextOK == IInv /\ [Next]_vars => IInv'
  <1> SUFFICES ASSUME IInv, [Next]_vars PROVE IInv' OBVIOUS
  <1>1. CASE Allocate
    <2>1. CASE AllocateAtCursor BY <2>1, AtCursorOK
    <2>2. CASE AllocateFirstFit BY <2>2, FirstFitOK
    <2>3. ASSUME NEW c \in Listed \cup ChunksOf({ChunkWords}),
                 AllocateRefill(c) \/ AllocateFailsLate(c)
          PROVE  IInv'
      <3>1. c \in Chunks BY ChunkTypes
      <3> QED BY <3>1, <2>3, RefillOK, FailsLateOK
    <2>4. CASE AllocateFails BY <2>4, FailsOK
    <2> QED BY <1>1, <2>1, <2>2, <2>3, <2>4 DEF Allocate
  <1>2. ASSUME NEW o \in live, Deallocate(o) \/ DeallocateLast(o) PROVE IInv'
    BY <1>2, DeallocateOK, DeallocateLastOK
  <1>3. ASSUME NEW c \in Listed \cup out \cup ChunksOf(Others), OthersStep(c) PROVE IInv'
    <2>1. c \in Chunks BY ChunkTypes
    <2> QED BY <2>1, <1>3, OthersOK
  <1>4. CASE Clear /\ UNCHANGED <<blocks, capacity, blockSize, request, dealloc, live>>
    BY <1>4, ClearOK
  <1>5. CASE UNCHANGED vars
    BY <1>5 DEF vars, IInv, SizeFollowsChunks
  <1> QED BY <1>1, <1>2, <1>3, <1>4, <1>5 DEF Next

\* The invariant holds of every state that the allocator reaches.
THEOREM Invariance == Spec => []IInv
  <1> QED BY InitOK, NextOK, PTL DEF Spec

----------------------------------------------------------------------------
(* What follows from it.                                                   *)

\* What is known of the block at an index.
LEMMA BlockAtIndex ==
  ASSUME IInv, NEW i \in Indices
  PROVE  /\ Block(i) = blocks[i + 1] /\ i + 1 \in 1 .. Len(blocks)
         /\ Block(i) \in BlockType /\ BlockOK(Block(i), live)
         /\ Block(i).used > 0 /\ Block(i).chunk \in out
  <1>1. BlocksOK(blocks, live, out) BY DEF IInv
  <1>2. Len(blocks) \in Nat BY <1>1, BlockAt
  <1>3. i + 1 \in 1 .. Len(blocks) BY <1>2 DEF Indices
  <1> QED BY <1>1, <1>3, BlockAt DEF Block, BlocksOK

\* The chunks of the blocks are in use and long enough for the objects and
\* the bitmaps, and the vector has the room it says (_M_allocate_single_object,
\* _S_refill_pool).
THEOREM TypeCorrect == Spec => []TypeOK
  <1>1. IInv => TypeOK
    <2> SUFFICES ASSUME IInv PROVE TypeOK OBVIOUS
    <2>1. ASSUME NEW i \in Indices
          PROVE  /\ Block(i).chunk \in out
                 /\ \A m \in DOMAIN Block(i).bits : Block(i).bits[m] \subseteq 0 .. W - 1
                 /\ Block(i).chunk.size >=
                      1 + NumBlocks(Block(i)) * ObjWords + Cardinality(DOMAIN Block(i).bits)
      <3>1. Block(i) \in BlockType /\ BlockOK(Block(i), live) /\ Block(i).chunk \in out
        BY BlockAtIndex
      <3>2. \A m \in DOMAIN Block(i).bits : Block(i).bits[m] \subseteq 0 .. W - 1
        BY <3>1, BlockFacts
      <3> QED BY <3>1, <3>2 DEF BlockOK
    <2>2. Len(blocks) <= capacity BY DEF IInv
    <2> QED BY <2>1, <2>2 DEF TypeOK
  <1> QED BY <1>1, Invariance, PTL

\* The free list stays in order, and no chunk is on it twice or in use as well,
\* whatever the allocators of all types do (_M_insert, _M_get, _M_clear).
THEOREM ListInOrder == Spec => []FreeListInOrder
  <1>1. IInv => FreeListInOrder
    <2> SUFFICES ASSUME IInv PROVE FreeListInOrder OBVIOUS
    <2>1. DOMAIN freeList = 1 .. Len(freeList) BY LenProperties DEF IInv, InOrder
    <2> QED BY <2>1 DEF IInv, InOrder, FreeListInOrder, Listed
  <1> QED BY <1>1, Invariance, PTL

\* The free bits are those of the free objects, although one mask may cover
\* several bits (__bit_allocate, __bit_free).
THEOREM BitsRight == Spec => []BitsMatchObjects
  <1>1. IInv => BitsMatchObjects
    BY BlockAtIndex DEF BlockOK, BitsMatchObjects
  <1> QED BY <1>1, Invariance, PTL

\* The count of a block is that of its objects in use and never 0, and every
\* object in use is found in one block (_S_find, _M_deallocate_single_object).
THEOREM CountsRight == Spec => []UsesCounted
  <1>1. IInv => UsesCounted
    <2> SUFFICES ASSUME IInv PROVE UsesCounted OBVIOUS
    <2>1. ASSUME NEW i \in Indices
          PROVE  Block(i).used = Cardinality(OwnedBy(Block(i))) /\ Block(i).used > 0
      BY BlockAtIndex DEF BlockOK, OwnedBy
    <2>2. ASSUME NEW o \in live
          PROVE  \E i \in Indices : {j \in Indices : Holds(Block(j), o)} = {i}
      <3> DEFINE i == BlockOf(o)
      <3>1. i \in Indices /\ Holds(Block(i), o) BY BlockOfFacts
      <3> HIDE DEF i
      <3>2. ASSUME NEW j \in Indices, Holds(Block(j), o) PROVE j = i
        <4>1. Block(j).chunk.id = Block(i).chunk.id BY <3>1, <3>2 DEF Holds
        <4>2. /\ i + 1 \in 1 .. Len(blocks) /\ j + 1 \in 1 .. Len(blocks)
              /\ blocks[i + 1].chunk.id = blocks[j + 1].chunk.id
          BY <4>1, <3>1, BlockAtIndex
        <4>3. i + 1 = j + 1 BY <4>2 DEF IInv, BlocksOK
        <4>4. i \in Int /\ j \in Int BY <3>1 DEF Indices
        <4> QED BY <4>3, <4>4
      <3>3. {j \in Indices : Holds(Block(j), o)} = {i} BY <3>1, <3>2
      <3> QED BY <3>1, <3>3
    <2> QED BY <2>1, <2>2 DEF UsesCounted
  <1> QED BY <1>1, Invariance, PTL

\* Objects k to n - 1 of a block need room, and the words of object k end
\* before those of the last one.
LEMMA EndOfObject ==
  ASSUME NEW k \in Nat, NEW n \in Nat, k < n
  PROVE  (k + 1) * ObjWords <= n * ObjWords
  <1>1. ObjWords \in Nat \ {0} BY BitmapConstants
  <1>2. \A d \in Nat : d * ObjWords >= 0 BY <1>1
  <1>3. n * ObjWords = (k + 1) * ObjWords + (n - (k + 1)) * ObjWords BY <1>1
  <1>4. n - (k + 1) \in Nat OBVIOUS
  <1>5. (n - (k + 1)) * ObjWords >= 0 BY <1>2, <1>4
  <1>6. (k + 1) * ObjWords \in Nat /\ (n - (k + 1)) * ObjWords \in Int BY <1>1, <1>4
  <1> QED BY <1>3, <1>5, <1>6

\* An object in use keeps its words: its chunk is of one block of its own
\* allocator, and neither on the list that all types share nor with another
\* type (_S_refill_pool, _M_deallocate_single_object, _M_insert, _M_get).
THEOREM MemoryPrivate == Spec => []ObjectsPrivate
  <1>1. IInv => ObjectsPrivate
    <2> SUFFICES ASSUME IInv, NEW o \in live
                 PROVE  \E i \in Indices :
                          LET c == Block(i).chunk IN
                          /\ c \in out /\ c.id = o[1]
                          /\ 1 + Cardinality(DOMAIN Block(i).bits) + (o[2] + 1) * ObjWords
                               <= c.size
                          /\ \A d \in Listed \cup (out \ {c}) : d.id # c.id
                          /\ \A j \in Indices \ {i} : Block(j).chunk.id # c.id
      BY DEF ObjectsPrivate
    <2> DEFINE i == BlockOf(o)
               b == Block(i)
               maps == Cardinality(DOMAIN b.bits)
    <2>1. i \in Indices /\ Holds(b, o) BY BlockOfFacts
    <2>2. b \in BlockType /\ BlockOK(b, live) /\ b.chunk \in out BY <2>1, BlockAtIndex
    <2>3. b.chunk.id = o[1] /\ o[2] < NumBlocks(b) BY <2>1 DEF Holds
    <2>4. o[2] \in Nat BY DEF IInv, ObjectsOK
    <2>5. /\ b.chunk.size \in Nat /\ maps \in Nat /\ NumBlocks(b) \in Nat
          /\ b.chunk.size >= 1 + NumBlocks(b) * ObjWords + maps
      BY <2>2, BlockFacts DEF BlockOK
    <2>6. 1 + maps + (o[2] + 1) * ObjWords <= b.chunk.size
      <3> DEFINE room == NumBlocks(b) * ObjWords
                 end == (o[2] + 1) * ObjWords
      <3>1. end <= room BY <2>3, <2>4, <2>5, EndOfObject
      <3>2. end \in Nat /\ room \in Nat BY <2>4, <2>5, BitmapConstants
      <3> HIDE DEF end, room, maps, b
      <3>3. b.chunk.size >= 1 + room + maps BY <2>5 DEF room
      <3>4. 1 + maps + end <= b.chunk.size BY <3>1, <3>2, <3>3, <2>5
      <3> QED BY <3>4 DEF end
    <2>7. \A d \in Listed \cup (out \ {b.chunk}) : d.id # b.chunk.id
      <3>1. DOMAIN freeList = 1 .. Len(freeList) BY LenProperties DEF IInv, InOrder
      <3> QED BY <3>1, <2>2 DEF IInv, InOrder, Listed
    <2>8. ASSUME NEW j \in Indices \ {i} PROVE Block(j).chunk.id # b.chunk.id
      <3>1. /\ i + 1 \in 1 .. Len(blocks) /\ j + 1 \in 1 .. Len(blocks)
            /\ b = blocks[i + 1] /\ Block(j) = blocks[j + 1]
        BY <2>1, BlockAtIndex
      <3>2. i + 1 # j + 1 BY <2>1 DEF Indices
      <3> QED BY <3>1, <3>2 DEF IInv, BlocksOK
    <2> HIDE DEF i
    <2> QED BY <2>1, <2>2, <2>3, <2>6, <2>7, <2>8
  <1> QED BY <1>1, Invariance, PTL

\* No shift is wider than an int: an object at a higher position is never
\* handed out (_M_allocate_single_object).
THEOREM NoShiftTooWide == Spec => []NoWideShift
  <1>1. IInv => NoWideShift BY DEF IInv, ObjectsOK, NoWideShift
  <1> QED BY <1>1, Invariance, PTL

\* The cursor and the index of the last deallocation are at blocks that are
\* there, also after a block has gone (the asserts at 429 and 935).
THEOREM IndicesRight == Spec => []IndicesValid
  <1>1. IInv => IndicesValid
    <2> SUFFICES ASSUME IInv PROVE IndicesValid OBVIOUS
    <2>1. Len(blocks) \in Nat BY BlockAt DEF IInv
    <2> QED BY <2>1 DEF IInv, CursorOK, IndicesValid, Indices, Block
  <1> QED BY <1>1, Invariance, PTL

\* The size of the next chunk depends on how many there are
\* (_S_refill_pool, _M_deallocate_single_object).
THEOREM SizeRight == Spec => []SizeFollowsChunks
  <1>1. IInv => SizeFollowsChunks BY DEF IInv
  <1> QED BY <1>1, Invariance, PTL

\* A block with as many objects in use as it has objects has them all in use.
LEMMA AllInUse ==
  ASSUME NEW b, NEW objs, BlockOK(b, objs), objs \subseteq Ids \X Nat,
         IsFiniteSet(objs), b.used = NumBlocks(b), NEW k \in 0 .. NumBlocks(b) - 1
  PROVE  <<b.chunk.id, k>> \in objs
  <1> DEFINE n == NumBlocks(b)
             S == {o \in objs : Holds(b, o)}
             T == {o[2] : o \in S}
  <1>1. n \in Nat /\ b \in BlockType BY BlockFacts DEF BlockOK
  <1>2. Cardinality(S) = n /\ IsFiniteSet(S) BY FS_Subset DEF BlockOK
  <1>3. ASSUME NEW o \in S PROVE o = <<b.chunk.id, o[2]>> /\ o[2] \in 0 .. n - 1
    <2>1. o = <<o[1], o[2]>> /\ o[2] \in Nat OBVIOUS
    <2>2. b.chunk.id = o[1] /\ o[2] < NumBlocks(b) BY DEF Holds
    <2> HIDE DEF S
    <2> QED BY <2>1, <2>2, <1>1
  <1>4. IsFiniteSet(0 .. n - 1) /\ Cardinality(0 .. n - 1) = n BY <1>1, FS_Interval
  <1>5. T \subseteq 0 .. n - 1 BY <1>3
  <1>6. ExistsBijection(S, T)
    <2> DEFINE f == [o \in S |-> o[2]]
    <2>1. f \in [S -> T] OBVIOUS
    <2>2. ASSUME NEW x \in S, NEW y \in S, f[x] = f[y] PROVE x = y
      <3>1. x[2] = y[2] BY <2>2
      <3>2. x = <<b.chunk.id, x[2]>> /\ y = <<b.chunk.id, y[2]>> BY <1>3
      <3> QED BY <3>1, <3>2
    <2>3. \A t \in T : \E x \in S : f[x] = t OBVIOUS
    <2> HIDE DEF f, S, T
    <2>4. f \in Bijection(S, T) BY <2>1, <2>2, <2>3, Fun_IsBij
    <2> QED BY <2>4 DEF ExistsBijection
  <1> HIDE DEF n, S, T
  <1>7. Cardinality(T) = n BY <1>2, <1>6, FS_Bijection
  <1>8. T = 0 .. n - 1 BY <1>4, <1>5, <1>7, FS_Subset
  <1>9. k \in T BY <1>8 DEF n
  <1>10. PICK o \in S : o[2] = k BY <1>9 DEF T
  <1>11. o = <<b.chunk.id, k>> BY <1>3, <1>10
  <1> QED BY <1>10, <1>11 DEF S

\* Only a refill makes the sequence of blocks longer, and only when the search
\* has found no block with room.
LEMMA OnlyRefillGrows ==
  ASSUME IInv, Next, Len(blocks') > Len(blocks)
  PROVE  Fits = {}
  <1>1. Len(blocks) \in Nat /\ blocks \in Seq(BlockType) /\ Len(blocks) # Len(blocks')
    BY BlockAt DEF IInv, BlocksOK
  <1>2. ASSUME NEW i \in Indices, NEW m \in WithFreeBit(i), Take(i, m) PROVE FALSE
    BY <1>1, <1>2, TakeStep
  <1>3. ASSUME AllocateAtCursor PROVE FALSE
    <2>1. Reached.where \in Indices /\ Reached.bmap \in WithFreeBit(Reached.where)
      BY <1>3, ReachedFacts DEF AllocateAtCursor, AtEnd
    <2>2. Take(Reached.where, Reached.bmap) BY <1>3 DEF AllocateAtCursor
    <2> QED BY <2>1, <2>2, <1>2
  <1>4. ASSUME AllocateFirstFit PROVE FALSE
    <2>1. Fits # {} BY <1>4 DEF AllocateFirstFit
    <2>2. /\ Min(Fits) \in Indices
          /\ Min(WithFreeBit(Min(Fits))) \in WithFreeBit(Min(Fits))
      BY <2>1, FitsFacts
    <2>3. Take(Min(Fits), Min(WithFreeBit(Min(Fits)))) BY <1>4 DEF AllocateFirstFit
    <2> QED BY <2>2, <2>3, <1>2
  <1>5. ASSUME NEW o \in live, Deallocate(o) \/ DeallocateLast(o) PROVE FALSE
    <2> DEFINE n == BlockOf(o) + 1
    <2>1. n \in 1 .. Len(blocks) BY BlockOfFacts, BlockAtIndex
    <2>2. CASE Deallocate(o)
      <3>1. PICK c : blocks' = [blocks EXCEPT ![n] = c] BY <2>2 DEF Deallocate
      <3> HIDE DEF n
      <3> QED BY <3>1, <2>1, <1>1, SameLength
    <2>3. CASE DeallocateLast(o)
      <3>1. blocks' = RemoveAt(blocks, n) BY <2>3 DEF DeallocateLast
      <3> HIDE DEF n
      <3>2. Len(blocks') = Len(blocks) - 1 BY <3>1, <2>1, <1>1, RemoveAtFacts
      <3> QED BY <3>2, <1>1
    <2> QED BY <1>5, <2>2, <2>3
  <1>6. ASSUME NEW c, AllocateRefill(c) \/ AllocateFailsLate(c) PROVE Fits = {}
    BY <1>6 DEF AllocateRefill, AllocateFailsLate
  <1>7. ASSUME AllocateFails PROVE Fits = {} BY <1>7 DEF AllocateFails
  <1>8. CASE Allocate BY <1>3, <1>4, <1>6, <1>7, <1>8 DEF Allocate
  <1>9. ASSUME NEW c, OthersStep(c) PROVE FALSE BY <1>1, <1>9 DEF OthersStep
  <1> QED BY <1>1, <1>5, <1>8, <1>9 DEF Next

\* When no block has room, the objects that a mask can name are all in use.
LEMMA FullBlock ==
  ASSUME IInv, Fits = {}, NEW i \in Indices, NEW k \in 0 .. NumBlocks(Block(i)) - 1,
         k % W < IntBits
  PROVE  <<Block(i).chunk.id, k>> \in live
  <1> DEFINE b == Block(i)
  <1>1. b \in BlockType /\ BlockOK(b, live) BY BlockAtIndex
  <1>2. live \subseteq Ids \X Nat /\ IsFiniteSet(live) BY DEF IInv, ObjectsOK
  <1>3. b.used = NumBlocks(b) \/ WithFreeBit(i) = {} BY DEF Fits
  <1>4. CASE b.used = NumBlocks(b) BY <1>1, <1>2, <1>4, AllInUse
  <1>5. CASE WithFreeBit(i) = {}
    <2> DEFINE m == k \div W
               p == k % W
    <2>1. k \in Nat /\ k < Cardinality(DOMAIN b.bits) * W BY <1>1, BlockFacts
    <2>2. /\ p \in 0 .. IntBits - 1 /\ m \in Nat /\ k = m * W + p
          /\ m < Cardinality(DOMAIN b.bits)
      <3>1. Cardinality(DOMAIN b.bits) \in Nat BY <1>1, BlockFacts
      <3>2. m < Cardinality(DOMAIN b.bits) BY <2>1, <3>1, BitOfPlace
      <3>3. p \in 0 .. W - 1 /\ m \in Nat /\ k = m * W + p BY <2>1, BitOfPlace
      <3>4. p < IntBits /\ IntBits \in 1 .. W /\ W \in Nat BY BitmapConstants
      <3> HIDE DEF m, p
      <3> QED BY <3>2, <3>3, <3>4
    <2>3. m \in DOMAIN b.bits BY <2>2, <1>1, BlockFacts
    <2>4. b.bits[m] = {} BY <2>3, <1>5 DEF WithFreeBit
    <2> HIDE DEF m, p, b
    <2>5. p \in b.bits[m] <=> <<b.chunk.id, m * W + p>> \notin live
      BY <2>2, <2>3, <1>1 DEF BlockOK
    <2>6. <<b.chunk.id, m * W + p>> \in live BY <2>4, <2>5
    <2> QED BY <2>2, <2>6 DEF b
  <1> QED BY <1>3, <1>4, <1>5

\* A chunk is asked for only when every object that a mask can name is in use
\* (_S_check_for_free_blocks).
THEOREM GrowsOnlyFull == Spec => GrowsOnlyWhenFull
  <1> DEFINE Grows == Len(blocks') > Len(blocks) =>
                        \A i \in Indices : \A k \in 0 .. NumBlocks(Block(i)) - 1 :
                          k % W < IntBits => <<Block(i).chunk.id, k>> \in live
  <1>1. IInv /\ [Next]_vars => [Grows]_vars
    <2> SUFFICES ASSUME IInv, Next PROVE Grows OBVIOUS
    <2> QED BY OnlyRefillGrows, FullBlock
  <1> QED BY <1>1, Invariance, PTL DEF Spec, GrowsOnlyWhenFull
============================================================================
