---------------------------- MODULE ChunkFreeList ----------------------------
(***************************************************************************)
(* The free list of the class allocators: Screen, ScreenV2 and MyAllocator *)
(* of c++/test_allocator.cpp, and c++/demo/allocator_v1.cpp to _v3.cpp,    *)
(* which differ in the chunk's length and in where the link lies.          *)
(*                                                                         *)
(* The links are in the memory of the free objects (v2 and later), so      *)
(* memory is modelled byte by byte: a link at a covers a .. a + Word - 1,  *)
(* whatever the size of the objects.                                       *)
(***************************************************************************)
EXTENDS Integers, Sequences, Links

CONSTANTS
  Size,     \* sizeof the class, or the size given to MyAllocator::allocate
  Word,     \* sizeof a pointer
  Chunk,    \* screen_chunk_, CHUNK, chunk_size_
  Bases,    \* the addresses malloc or operator new char[] may return
  MemTop

ASSUME ChunkConstants ==
  /\ Size \in Nat \ {0} /\ Word \in Nat \ {0} /\ Chunk \in Nat \ {0}
  /\ MemTop \in Nat /\ Bases \subseteq 1 .. MemTop
  /\ \A p \in Bases : p + Chunk * Size + Word <= MemTop

VARIABLES
  free_store_,  \* the first free object, 0 for nullptr
  mem,          \* of each byte: <<v, k>>, byte k of a link to v, or Data
  chunks,       \* the addresses of the chunks, which are never given back
  live          \* the objects of the program

vars == <<free_store_, mem, chunks, live>>

Data == <<-1, 0>>   \* what an object keeps in its bytes, or nothing yet
Wild == -2          \* the pointer read where no link is whole

Put(m, a, v) ==
  [x \in DOMAIN m |-> IF a <= x /\ x < a + Word THEN <<v, x - a>> ELSE m[x]]

Filled(m, a) == [x \in DOMAIN m |-> IF a <= x /\ x < a + Size THEN Data ELSE m[x]]

Link(m, a) ==
  IF \A k \in 0 .. Word - 1 : m[a + k] = <<m[a][1], k>> THEN m[a][1] ELSE Wild

\* mutant: the last object's link is not set.
StrungOpen(m, p) ==
  LET f[k \in 1 .. Chunk] ==
        IF k = 1 THEN m ELSE Put(f[k - 1], p + (k - 2) * Size, p + (k - 1) * Size)
  IN  f[Chunk]

\* The objects of a new chunk at p, strung on a list.
Strung(m, p) ==
  LET f[k \in 1 .. Chunk] ==
        IF k = 1 THEN m ELSE Put(f[k - 1], p + (k - 2) * Size, p + (k - 1) * Size)
  IN  Put(f[Chunk], p + (Chunk - 1) * Size, 0)

\* Hand out the first object of a list that starts at a; its constructor
\* fills it.
Give(a, m) ==
  /\ free_store_' = Link(m, a)
  /\ live' = live \cup {a}
  /\ mem' = Filled(m, a)

\* operator new, with a free object.
New ==
  /\ free_store_ \notin {0, Wild}
  /\ Give(free_store_, mem)
  /\ UNCHANGED chunks

\* mutant: the chunk has Chunk bytes, not Chunk objects.
NewChunkOfBytes(p) ==
  /\ free_store_ = 0
  /\ \A q \in chunks : p + Chunk <= q \/ q + Chunk <= p
  /\ chunks' = chunks \cup {p}
  /\ Give(p, Strung(mem, p))

\* operator new, with none: a chunk at p.
NewChunk(p) ==
  /\ free_store_ = 0
  /\ \A q \in chunks : p + Chunk * Size <= q \/ q + Chunk * Size <= p
  /\ chunks' = chunks \cup {p}
  /\ Give(p, Strung(mem, p))

Objects == {p + k * Size : p \in chunks, k \in 0 .. Chunk - 1}

\* mutant: delete of an object that is already free (allocator_v3.cpp:85-86).
DeleteAgain(a) ==
  /\ mem' = Put(mem, a, free_store_)
  /\ free_store_' = a
  /\ live' = live \ {a}
  /\ UNCHANGED chunks

\* operator delete.
Delete(a) ==
  /\ a \in live
  /\ mem' = Put(mem, a, free_store_)
  /\ free_store_' = a
  /\ live' = live \ {a}
  /\ UNCHANGED chunks

Init ==
  /\ free_store_ = 0
  /\ mem = [x \in 1 .. MemTop |-> Data]
  /\ chunks = {}
  /\ live = {}

Next ==
  \/ New
  \/ \E p \in Bases : NewChunk(p)
  \/ \E a \in Objects : Delete(a)

Spec == Init /\ [][Next]_vars

------------------------------------------------------------------------------
\* Where the links of the objects lead, and the free objects in order.
Nexts(m, objects) == [a \in objects |-> Link(m, a)]

Free == ChainFrom(Nexts(mem, Objects), free_store_, MemTop)

\* The list starts at an object of some chunk or nowhere, and objects in use
\* belong to a chunk.
TypeOK ==
  /\ free_store_ \in Objects \cup {0}
  /\ live \subseteq Objects
  /\ chunks \subseteq Bases

\* Each object of the chunks is either free or in use, and on the list once:
\* no link is lost to what objects keep in the same bytes, and deleting never
\* closes the list to a ring, after which all objects would share an address
\* (operator new, operator delete).
EachObjectOnce ==
  /\ {Free[k] : k \in DOMAIN Free} = Objects \ live
  /\ \A j, k \in DOMAIN Free : Free[j] = Free[k] => j = k

\* Objects are side by side within a chunk, and come back in the reverse of
\* the order in which they were deleted: what the tests of Screen expect.
Store == INSTANCE ObjectStore WITH free <- Free
ImplementsStore == Store!Spec

\* As for the pool, no two objects that are in use share a byte, be they of
\* one chunk or of two (operator new, operator delete).  The demos promise no
\* alignment.
InUse == {[addr |-> a, bytes |-> Size] : a \in live}

Contract == INSTANCE AllocContract WITH
  Align <- 1, Requests <- {Size}, Addresses <- 1 .. MemTop, live <- InUse
ImplementsContract == Contract!Spec
==============================================================================
