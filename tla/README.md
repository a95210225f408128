# Verification of torch_test

The repository is a collection of studies around PyTorch and C++: a memory
pool taken from libstdc++ and rebuilt as a library of its own, a blocking queue
taken from Caffe, class allocators, serialization helpers, and tests of
language and library features. This directory holds TLA+ models of the parts
that keep state and have something to get wrong, the configurations TLC checks
them with, and proofs checked by TLAPS.

## Inventory

| Component | Where | State | Operations | What makes it correct | Modelled |
| --- | --- | --- | --- | --- | --- |
| memory pool | `stl/src/pool_allocator.cc`, `stl/include/ext/pool_allocator.h` | 16 free lists, the chunk `[_S_start_free, _S_end_free)`, `_S_heap_size`, one mutex, one `_S_force_new` for each type | `allocate`, `deallocate`, inside `_M_refill`, `_M_allocate_chunk` | no two owners of a byte, no byte lost, alignment, the same route for a block both ways | yes |
| bitmap allocator | `stl/include/ext/bitmap_allocator.h` | chunks of objects with one bit for each object and a use count; cursor, index of the last deallocation, size of the next chunk; a free list of chunks for all types | `_M_allocate_single_object`, `_M_deallocate_single_object`, inside `_S_refill_pool`, `free_list::_M_get`, `_M_insert`, `_M_clear` | bits and objects agree, no stale cursor or index, chunks ordered and in one place | yes |
| blocking queue | `c++/demo/blocking_queue.cpp` | `queue_`, `mutex_`, `condition_` | `push`, `pop`, `try_pop`, `peek`, `try_peek`, `size`, `nonblocking_size` | first in first out, once each; nobody blocked while there is an item | yes |
| class allocators | `c++/demo/allocator_v1.cpp`, `_v2`, `_v3` | a free list threaded through chunks of objects | class `operator new`, `operator delete` | distinct live objects, a list that ends | yes |
| allocator tests | `c++/test_allocator.cpp` | the pool, shared by all tests of the process; the free lists of `Screen`, `ScreenV2`, `MyAllocator`; `MyString`'s buffer | scenarios | what the tests assert holds in any order of tests | partly: not `MyString`, not the tests of library allocators |
| serialization | `c10/serialize.h`, `c10/test_tensor_options.cpp`, `aten/test_serialize.cpp` | a vector of values, written and read by position | `serialize_to_vec_string`, `restore` | what is read is what was written, what does not fit is refused | yes |
| `simple_allocator`, operator `new` overrides, `my_malloc` | `c++/demo/` | none | forward to `malloc`, `free` | - | no |
| stacks | `c++/demo/my_stack.cpp`, `stack.cpp` | array and top | `push`, `pop` | bounds | no |
| layer registry | `example/register/caffe.cpp` | a map from name to creator | register at static initialisation, create | an unknown name is refused | no |
| operator registration | `aten/test_registeration_handle_raii.cpp`, `op_test/test_add.cpp` | in torch, not here | - | - | no |
| feature tests | the other files of `c++`, `c10` | none | - | - | no |
| drivers, scripts, build | `*/gtest_main.cpp`, `scripts`, `python`, `cmake` | none | - | - | no |
| libstdc++ headers | `stl/include` but for the two allocators above | vendored | - | - | no |

Interaction: containers and tests call the pool through
`__pool_alloc<T>::allocate`/`deallocate`; all types share the free lists, the
chunk and the mutex of `__pool_alloc_base`, and the pool calls `operator new`
and (for large blocks only) `operator delete`. The bitmap allocator has its
bitmaps, cursor and lock for each type, and one free list of chunks, with a
lock of its own, for all types. Threads meet in those mutexes and, in the
queue, in `mutex_` and `condition_`. The other components stand alone.

Hard to test here: the pool's states after a failed `operator new` (left-over
piece filed, larger block scavenged, chunk pointers reset), sizes that depend
on the history of refills (`_S_heap_size >> 4`), links that are read out of
memory clients have written to, tests whose outcome depends on which tests ran
before, cursors and indices into chunks that go and shift, masks that are wider
than a bit, and in the queue the fate of a single notification among blocked,
woken, overtaking and peeking threads. `PROJECT.json` lists each of these
hazards with its line and with the properties that cover it.

## Modules

| Module | What it is |
| --- | --- |
| `AllocContract` | what an allocator promises: aligned blocks that overlap no live block |
| `PoolAlloc`, `MCPoolAlloc` | the pool, one action per path through `allocate` and `deallocate`; its model values |
| `PoolAlloc_proofs` | its invariants, that it loses no byte, and its refinement of `AllocContract`, proved |
| `Links` | free lists as links in memory: the list that starts at an address |
| `PoolThreads`, `MCPoolThreads` | the same pool with threads, the mutex, every step inside it, and the links inside the blocks; shown to implement `PoolAlloc` |
| `PoolThreads_proofs` | mutual exclusion, that refinement, what it gives the clients, and that every call ends, proved |
| `PoolScript`, `MCPoolScript` | the pool with the constants of the code, run through the worked example and the tests |
| `PoolForceNew`, `MCPoolForceNew` | the word that sends blocks around the pool, and the threads that race to set it |
| `PoolForceNew_proofs` | that the word never turns and stays small, and blocks go back the way they came, proved |
| `ObjectStore` | what the class allocators promise: one owner per object, last deleted first reused |
| `ChunkFreeList` | the class allocators with their links in memory; shown to implement `ObjectStore` and `AllocContract` |
| `ChunkFreeList_proofs` | one owner for each object, and both refinements, proved |
| `BitmapFreeList` | the chunks all bitmap allocators have given back |
| `BitmapAlloc`, `MCBitmapAlloc` | the bitmap allocator of one type on top of it; its symmetry |
| `BitmapAlloc_proofs` | the invariants of both, that objects keep their memory, and that it grows only when it is full, proved |
| `FifoQueue` | what a blocking queue promises: order, one taker for each item, and progress |
| `BlockingQueue`, `MCBlockingQueue` | the queue with threads, mutex and condition variable; its model values |
| `BlockingQueue_proofs` | types, mutual exclusion, no lost wakeup, each item once, refinement of `FifoQueue`, proved |
| `Serialize`, `MCSerialize` | options and tensors saved and restored by position; its model values |
| `Serialize_proofs` | what is restored is what was saved, proved |
| `ListLemmas` | what the proofs need of sequences, chains of links and sets of numbers, proved |

### The pool (`PoolAlloc`)

All of `allocate` that touches the pool, and all of `deallocate` that does,
runs under the mutex of `_M_get_mutex`, so a call is one action. `freeList`,
`startFree`, `endFree` and `heapSize` are the static members of
`__pool_alloc_base`; a free list is the sequence of the addresses on it. `heap`
is what `operator new` has given out and not got back, `live` what clients
hold, each a set of records `[addr, bytes]`; both are there to state the
properties and to let `operator new` return fresh memory only.

A call of `allocate` is one of

- `AllocateFromList`: the list has a block;
- `AllocateFromChunk`: `_M_refill` with room for an object in the chunk
  (both of the branches of `_M_allocate_chunk` that return without `operator new`);
- `AllocateFromHeap`: the left-over piece is filed, `operator new` returns a
  chunk, and the recursive call cuts it;
- `AllocateFromLarger`: `operator new` throws, the smallest block of this size
  or larger becomes the chunk, and the recursive call cuts it;
- `AllocateFails`: `operator new` throws and there is no such block;
- `AllocateLarge`: more than `_S_max_bytes`.

`deallocate` is `DeallocateToList` or `DeallocateLarge`. `operator new` may
throw at any time; it returns an address of `Bases` with the alignment of the
pool, where the memory overlaps nothing it has given out and ends by `MemTop`.
`_S_align`, `_S_max_bytes`, the 20 objects of `_M_refill` and the shift by 4
are the constants `Align`, `MaxBytes`, `NObjs` and `GrowthDiv`. Requests for
zero objects, which change nothing, are left out, and so are `max_size` and the
debug log. `_S_force_new`, which is outside the lock, is `PoolForceNew`; here
it says "pool".

`Refill(lists, s, e, n, b)` is `_M_refill` together with the first two branches
of `_M_allocate_chunk`, on lists and a chunk that the failure and growth paths
have already changed; that is how the recursion of `_M_allocate_chunk`
(at most one level deep) is expressed without recursion.

### The pool step by step (`PoolThreads`)

What `PoolAlloc` does in one action is here a sequence of steps of one thread,
between `Acquire` (`__scoped_lock sentry`) and `Leave` (its destructor):
`Pop`, or `FindEmpty` and then `Carve` and `Build` (`_M_refill`, one `Build` for
each turn of its loop), with `FileLeftover`, `Grow`, `Scavenge` and `Fail`
(`_M_allocate_chunk`; after `Grow` and `Scavenge` the thread is back at `Carve`,
which is the recursive call); for `deallocate` `Push`. `head[i]` is
`_S_free_list[i]` and `link[a]` the word at `a` that `union _Obj` shares with
the client. A client overwrites its whole block as soon as it has it, so a link
that is read without having been written again since is `Junk`.

`ImplementsPool` is `PoolAlloc`'s `Spec` under a mapping: while nobody holds the
lock, the free lists are the chains of links; while somebody does, the pool is
what it was when the lock was taken. `before` remembers that and stands for
nothing in the code. A block on its way back counts as live until the lock is
released, a block on its way out becomes live then. `ChainFrom` of `Links`
follows a chain. The operation therefore
takes effect at `Leave`, which is the one step that must be a step of
`PoolAlloc`; all others must not change what the mapping shows. Large blocks do
not meet the lock and are left out.

`StepsLeft` says how many steps a thread takes at most before it lets go of the
lock, and `EndsSoon` that every step brings it nearer. `_M_refill` and
`_M_allocate_chunk` call each other without a bound of their own; the measure
says that the second call finds room, so that there is no third.

### Documentation and tests (`PoolScript`)

`PoolScript` calls `PoolAlloc`, with `_S_align` 8, `_S_max_bytes` 128, 20
objects and the shift by 4, in the order of a script; `operator new` fails
exactly when the script's limit would be passed, and returns any of the places
otherwise. `MCPoolScript` holds the scripts, with the line of the text next to
each: the fourteen allocations of `doc/allocator/pool_allocator.md`, with the
bytes left in the chunk, the memory taken from the system and the lists that
have blocks after each, and the pool tests of `c++/test_allocator.cpp`, with the
distances they expect. `deallocate(ptr, 0)` does nothing in the code, and so
has no step in a script.

### The way around the pool (`PoolForceNew`)

`allocate` reads and sets `_S_force_new` without a lock, and each read, `getenv`
and the atomic addition is a step of a thread: `Check` (is it zero), `Ask`
(`getenv`), `Add` (+1 or -1), `Route` (the test that sends the block to
`operator new` or to the pool), `Take` or `TakeFails`. `Deallocate` reads the
word again, whenever and by whichever thread the block is given back. There is
one word for each type, as the member is static in a class template. The
environment may change, but not between one thread's `Check` and its `Add`: the
comment in `allocate` assumes that the answers of a race agree. Where a block
comes from within the pool or the heap is `PoolAlloc`'s matter; here it is an
address, its call and its way.

### The queue (`BlockingQueue`)

A thread's call goes from `lock` (wants `mutex_`) through `inside` (holds it)
to `idle`. `Acquire` is a step of its own, so that threads overtake each other
and `nonblocking_size` finds the mutex taken. What `pop` and `try_pop` do inside
is two steps: `Front` finds an item and copies it into `item[t]`, `Pop` removes
the front, whichever it is by then, and returns the copy; the thread is at
`read` in between. Only the mutex keeps the others out meanwhile, and the mutant
`FrontUnlocked`, which holds it for the reading alone, has two threads return
the same item. The other operations read or change the queue once and are one
action each. `SubSeq` leaves an empty queue empty where `queue_.pop()` has no
defined behaviour; with the mutex held nobody gets there. `Wait` releases and blocks in one step, as
`condition_.wait` does; `Push` wakes any one of the blocked threads, if there
is one; `SpuriousWakeup` may wake any at any time. The two overloads of `pop`
differ in logging only. `boost::mutex::scoped_lock` on a `std::mutex`, as the
file has it, is read as the lock it is meant to be. Items are the numbers of
the calls of `push`, so that each can be followed.

### The bitmap allocator (`BitmapFreeList`, `BitmapAlloc`)

Both locks are held over the whole of the operations they protect, so each
operation is one action: `AllocateAtCursor` (the loop over the bitmaps from the
cursor on), `AllocateFirstFit` (`_Ffit_finder`), `AllocateRefill`,
`AllocateFails` and `AllocateFailsLate` (`_S_refill_pool`: with a chunk, without
one, and with a chunk but no room in the vector), `Deallocate` and
`DeallocateLast` (a block that stays, and one that goes with its last object).
`OthersStep` is any allocator of another type at the free list, `Clear` the loss
of the whole list when the system has no memory. `_M_get` and `_M_clear` are
declared in the header and defined in gcc's library, which is not in the
repository; their operators are marked external.

A chunk has an identity and a size in words in place of an address, an object is
the number of its place in a chunk. The cursor is `[where, bmap]`, the index of
the block and of the bitmap in it; `_M_last_bmap_in_block` follows from them and
has no variable. `W` is the width of a `size_t`, `IntBits` that of an `int`:
`1 << __pos` is an `int`, and its highest bit is the sign, which widening copies
into all bits above (`Mask`). `ObjectsPrivate` is the bitmap allocator's share of
an allocator's promise: the words of an object in use lie in its chunk, behind
the count and the bitmaps, and nobody else has the chunk. A request for other than one object goes to
`operator new` and is left out. After `AllocateFailsLate` nobody has the chunk:
the code does not give it back, and neither does the model.

### Class allocators (`ChunkFreeList`, `ObjectStore`)

`Screen`, `ScreenV2` and `MyAllocator` of the tests and the three demos are one
algorithm with different chunk lengths and places of the link. `mem` is the
memory byte by byte: a byte is part of a link or of an object's data, so that a
link which another link or an object has written over in part reads as `Wild`.
`ImplementsStore` says that the chain of links is the list of `ObjectStore`.
`ImplementsContract` is the contract of the pool, `AllocContract`, for these
allocators: a block is an object with all its bytes, of this chunk or another.
The demos promise no alignment, so `Align` is 1 there. The live blocks of the
contract are a set, in which the same object handed out twice would not show;
`ImplementsStore` and `EachObjectOnce` exclude that.

The checked instance has objects as large as a link. Smaller ones break the
list: stringing the objects of a chunk writes each link over the end of the one
before. The comment at `c++/test_allocator.cpp:651-654` warns of just that, and
the test leaves the calls commented out. A second `delete` of a free object
(`allocator_v3.cpp:85-86` does that on purpose) is outside the callers' contract
and no action; it is the slip `DeleteAgain`, and `EachObjectOnce` and
`ImplementsStore` notice it.

### Serialization (`Serialize`)

An `IValue` is a pair of its tag and its value; a scalar type, a layout and a
memory format are all tagged `Int`, so that one in the place of another would go
unnoticed by the conversions. `Set` is any setter of `TensorOptions`,
`SaveOptions` and `SaveTensor` are the two `serialize_to_vec_string`,
`RestoreOptions` and `RestoreTensor` the two ways through `restore`. `restore` of
options does not check how many values there are: on fewer than six the code
has no defined behaviour, so the action is for vectors of six. Torch's pickling
is taken to return what it was given.

## Runs

| Run | Question | Bounds |
| --- | --- | --- |
| `pool_core` | do refills, left-over pieces, scavenging and failure keep blocks apart, aligned, backed and accounted for; is the pool an allocator to its clients | alignment 2, lists of 2, 4, 6 bytes, 2 objects per refill, 52 bytes of heap with three places for a chunk, 2 live blocks, requests of 1, 3, 4, 6 and 7 bytes |
| `pool_force_new` | do racing threads settle on one way, and does a block go back the way it came | 3 threads, 2 types, 1 live block; all are symmetric |
| `pool_threads` | is the pool with threads and links the pool of `PoolAlloc`; does every call let go of the lock, after how many steps | 2 threads, 2 blocks held or asked for, requests of 1, 3 and 6 bytes in the heap of `pool_core`, 3 objects per refill |
| `pool_scripts` | is the worked example what the code does; does `test_pool_allocator` alone find its blocks side by side | the real constants, thirteen places for what `operator new` returns |
| `pool_tests_in_order` | the same of `test_pool_allocator` after the tests declared before it: fails | as `pool_scripts` |
| `bitmap_alloc` | do bits, use counts, cursor, indices, sizes and the list of chunks stay true, and objects in use private | 2-bit `size_t`, 1-bit `int`, 3 chunks, 7 live objects, a list of 2 chunks, another type that asks for 8 words |
| `bitmap_bits` | does a bit stand for one object: fails | 4-bit `size_t`, 2-bit `int`, 4 live objects |
| `chunk_free_list` | does each object have one owner and bytes of its own, whatever it keeps in the bytes of the link | objects and links of 2 bytes, 3 to a chunk, 2 chunks at three places, the middle one across the other two |
| `serialize` | do options come back as they were, and only tensors as tensors | 2 values of each field, 2 tensors |
| `queue_fifo` | are the operations atomic operations of a queue, each item delivered once | 2 producers, 2 consumers, 1 peeker, all operations, 3 pushes |
| `queue_live` | without `peek`, is one notification per push enough, is an awaited item taken | 2 producers, 2 consumers, `push`, `pop`, `try_pop`, 4 pushes |
| `queue_peek_strands_pop` | is a thread blocked in `pop` only for want of items when somebody peeks: fails | as `queue_fifo`, 2 pushes |

Why the bounds are enough to see what can happen.

- Pool: three lists give a list below, at and above a request, which is what
  left-over pieces and the search of the failure path tell apart; with two
  objects a refill the three outcomes of `_M_allocate_chunk` (all, some, none)
  occur; `GrowthDiv` is 8 so that a share of the heap size is not a multiple of
  the alignment and the rounding matters; three places let the pool grow, be
  refused and scavenge. `FewLive` is a state constraint: states with more live
  blocks are checked and not extended. Two sizes share a list because `live` is
  a set: the same block given twice for the same size would not show in it.
- Threads: the lock makes a third thread another that waits. Two blocks are
  enough for one to be written over while the other is on its way to a list.
  A refill of three objects is the least in which the loop of `_M_refill` sets
  a link in the middle before the last.
- Way around the pool: three threads can race for one type with the word at 0,
  1 or 2 from either side, or two for it while a third is at the other type;
  the properties speak of each live block alone, so one is enough, and no
  counter needs a bound: `WordBounded` shows that the word has one.
- Scripts: the constants are those of the code. The places lie further apart
  than a chunk is long, as `malloc`'s headers see to.
- Bitmaps: with two bits a word the chunks hold 4, 8 and 16 objects, half of
  which the mask leaves usable, so the third chunk comes with the seventh live
  object, and a block between two others can go, which is what moves indices. The list is full with two chunks, and a chunk of 8 words is
  neither the smallest nor the largest on it.
- Class allocators: two chunks, as the first is refilled from by deletes and
  the second by growth; three objects, so that one is neither first nor last;
  the third place is one where a chunk would overlap the other two.
- Queue: two blocked consumers, two producers and one overtaker are what it
  takes to lose a wakeup; the number of pushes is bounded because the queue is
  not.

Deadlock is not checked for the queue: when `MaxPushes` calls have been made,
all consumers may rightly be blocked in `pop`; nor for the scripts, which end.

Fairness. `queue_live`: a thread that is after a free mutex or holds the mutex
takes its step if it can do so for ever (weak fairness of `Step(t)`, the
scheduler runs threads that can run). Nothing is assumed about who gets the
mutex, about calls being made, or about spurious wakeups. That suffices where
only `push`, `pop` and `try_pop` are called: every acquisition of the mutex
while there is an item takes one or adds one. A thread that calls `size` for
ever could keep the mutex from the others under weak fairness, so the run has
none. `pool_threads`: a thread inside the lock goes on (weak fairness of
`Inside(t)`); nothing inside waits for another thread. That is what makes
`LockReleased` a statement about the code: the recursion of `_M_allocate_chunk`
must come to an end, also when `operator new` throws. Which thread gets the
lock is left open, so that a call that waits for it is not promised it.

## Findings

- `queue_peek_strands_pop`: a thread blocked in `pop` and one blocked in `peek`
  wait on the same condition variable; `push` notifies one; if it is the peeking
  one, it returns and leaves the item, and the other stays blocked until the
  next push although the queue is not empty. The comment at
  `c++/demo/blocking_queue.cpp:24-25` takes a blocked `pop` as the sign that
  "data feeding is too slow".
- `pool_tests_in_order`: `poolAllocator` takes eleven of the twenty blocks of 8
  bytes and gives none back, as `deallocate(ptr, 0)` returns at once
  (`c++/test_allocator.cpp:448`); the chunk behind them has been cut up for 80
  bytes by then. `test_pool_allocator` expects twenty blocks in a row 8 bytes
  apart (`:767`), finds nine, and the tenth lies in a new chunk.
- `bitmap_bits`: the mask of position 31 is an `int` with its sign bit set;
  widened to a `size_t` of 64 bits it covers positions 31 to 63. Taking that
  object marks all above it as taken, against the comment at
  `stl/include/ext/bitmap_allocator.h:484-485`. Nothing breaks, as
  `bitmap_alloc` shows with the same mask: the objects above are never handed
  out, their bits are never read as a position, and no shift is out of range
  (`NoWideShift`). Half of every chunk is wasted.

Smaller: step 10 of the worked example says in its text that the free block
goes to list 3, while its picture and the code have list 5
(`doc/allocator/pool_allocator.md:220-222`); `pool_scripts` checks the picture.

## Proofs

TLAPS checks these for all values of the constants that satisfy the assumptions
stated with them:

| Assumption | What it says |
| --- | --- |
| `PoolConstants` | `Align` divides `MaxBytes`; `operator new` returns addresses that are not null and are multiples of `Align`; the other parameters are positive |
| `ThreadConstants` | the same for `PoolThreads`; requests are of at most `MaxBytes`; `NoThread` is not a thread |
| `FiniteThreads` | there are finitely many threads in `PoolForceNew`, used for `WordBounded` only |
| `QueueConstants` | threads are finitely many and call some of the operations; `NoThread` is not one of them |
| `FreeListConstants`, `BitmapConstants` | the list has room for a chunk, there are finitely many names of chunks; an `int` is at most as wide as a `size_t`, objects and requests are not empty |
| `ChunkConstants` | objects, links and chunks are not empty; a chunk lies below `MemTop` |
| `SerializeConstants` | the enumerations are integers; `Unset` is no value of a field; the defaults are values of theirs |

The theorems about the class allocators have one hypothesis more, `LinkFits`: an
object is at least as large as a link. It is what the comment at
`c++/test_allocator.cpp:651-654` asks for, and the theorems are false without it.

- `PoolAlloc_proofs`: `TypeOK`, `ClientMemoryPrivate`, `FreeMemoryDisjoint`,
  `Aligned`, `AllBacked` and `NoByteLost` are invariants, and `Spec => Contract!Spec`.

  None of the properties is inductive alone: that a block of a list does not
  overlap a fresh chunk needs that it lies in memory obtained earlier, that the
  left-over piece fits its list needs alignment, that a large block can leave
  needs that nothing lies in it. The inductive invariant `IInv` is their
  conjunction with a bound on the heap. It is stated (`Sound`) of any lists,
  chunk, heap and live blocks, since one allocation passes through several such
  configurations. A handful of lemmas, the moves, say how one stretch of memory
  changes hands (`PopMove`, `PushMove`, `GrantMove`, `ReleaseMove`,
  `DropChunkMove`, `SetChunkMove`, `GrowMove`, `ShrinkMove`, `CutMove`,
  `FillMove`): a stretch that is in no piece is `Spare`, and every move turns a
  piece into a spare stretch or back. `StepSound` puts the actions together
  from the moves.

  The proof of `NoByteLost` follows one byte through the same moves: a byte that
  a piece holds is held by a piece after the move, or lies in the stretch the
  move makes spare, and the next move of the action gives that stretch to a piece
  again (`HeldPop`, `HeldPush`, `HeldFill`, `HeldRefill`, `HeldFile`). The invariant `AllHeld` is `NoByteLost` over the natural numbers.
  It is inductive only with `IInv`: that a left-over piece is filed whole needs
  alignment, that a refill overwrites an empty list needs that the left-over
  piece went to another one, and that a large block takes no byte of the pool
  with it needs that what the heap gave out does not overlap. `NoGaps` says that
  the blocks `_M_refill` cuts cover the stretch they are cut from.

- `PoolThreads_proofs`: `TypeOK`, which has mutual exclusion in it;
  `Spec => ImplementsPool`; the action property `EndsSoon`; and from the
  refinement, through the mapping, that no two
  clients of any threads share a byte (`ClientsPrivate`), that the pool with
  threads implements `AllocContract` (`KeepsContract`), and that it loses no byte
  (`NothingLost`, of the pool as it is whenever the lock is free).

  The invariant `IInv` has five parts: the types and the lock (`Shape`); that no
  two calls give back one block, and none one that a client still holds
  (`CallsOK`); the inductive invariant of `PoolAlloc` of the pool that the mapping
  shows (`PoolAlloc_proofs` is instantiated through it, with its theorems); that
  the links make up lists while the lock is free; and `Stage`, what is true of
  the holder of the lock at each of its steps: which lists heads and links make
  up by now, in terms of the pool as it was when the lock was taken (`AtPush` to
  `AtLeave`). `Source` tells the three places a refill is cut from, the chunk
  there was, a new one and a larger block; `BuiltTo` says how far the loop of
  `_M_refill` has got. There is a lemma for each action: every step but `Leave`
  leaves what the mapping shows as it was, and `Leave` is a step of `PoolAlloc`
  (`GiveStep`, `ReturnStep`).

  What a client writes over its block cannot hurt a list, since no listed block
  lies in a live one, which is what the invariant of `PoolAlloc` gives
  (`HangKept`). A step of another thread cannot either, for it is outside the
  lock (`StageKept`). `ListsAre` says that the mapping finds the lists by following
  links for as many steps as blocks fit below `MemTop`: the blocks of a list are
  distinct multiples of `Align`.

  `EndsSoon` (`CallsEndSoon`) needs `Stage`: that a new chunk or a larger block
  has room for an object (`RoomAfterGrow`) is what keeps the recursion one level
  deep, and that no more objects are cut than a refill has (`FewCarved`) bounds
  the loop, so that a call takes at most `NObjs` + 4 steps with the lock. What is
  left of `LockReleased` to TLC is that one of these steps can always be taken,
  which is about `ENABLED`.

- `PoolForceNew_proofs`: `TypeOK`, `GoesBackAsItCame`, `WordBounded` and the
  action property `FirstAnswerStands`. That a block's way is what the word says
  needs that the word keeps its sign, and that needs that a thread which is
  about to add has the answer the word already shows. `Decided` says so
  (`RacersAgree`), and that the word is not zero once a thread is past the
  initialisation or a block lives (`ReadingsHold`, `BlocksHold`). `WordBounded`
  has an invariant of its own, `Room`: the distance of the word from zero and
  the threads still racing to add to it are together no more than the threads.
  The only other assumption is the one about the environment above.

- `BlockingQueue_proofs`: `TypeOK` with mutual exclusion; `EachItemOnce`;
  `NoLostWakeup` and `BlockedForWantOfItems` if no thread calls `peek`;
  `Spec => Fifo!Spec` with no such condition. `NoLostWakeup` is inductive given
  the types and the fact that a blocked thread is in `pop` or `peek`: it counts
  the threads in `pop` that are woken, inside or have read, and every step that
  takes an item removes one of them, every `push` adds one unless nobody is blocked.
  `EachItemOnce` counts the places of an item in the queue and among the items
  delivered; it needs that an item is the number of a call of `push` that has
  been made (`NumbersGiven`), so that the item of the next call has no place
  yet, and that what a thread has read is still the front (`ReadInv`), so that
  what it returns is what it removes. That holds because `TypeOK` puts one
  thread at most inside, and the refinement of `FifoQueue` rests on it, too.

- `BitmapAlloc_proofs`: `TypeOK`, `FreeListInOrder`, `BitsMatchObjects`,
  `UsesCounted`, `ObjectsPrivate`, `NoWideShift`, `IndicesValid`,
  `SizeFollowsChunks`, and the
  action property `GrowsOnlyWhenFull`, for any width of a `size_t` and of an
  `int`.

  In `IInv` the free list is in order and every chunk is in one place (`InOrder`);
  of each block (`BlockOK`) the bits below that of the sign say which objects are
  free, a bit above is set only together with that of the sign, the count is the
  number of objects in use, and the chunk is long enough for them all; every
  object in use is one that a mask can name, of some block (`ObjectsOK`); cursor
  and last index are those of blocks there are (`CursorOK`). The clause about the
  bits above the sign is the one that makes `NoWideShift` inductive: the first
  free bit of a bitmap is never one of them.

  No clause of `IInv` says `ObjectsPrivate`: it comes from all of them together,
  the place of an object in its block from `ObjectsOK`, the length of the chunk
  and that no other block has it from `BlocksOK`, and that neither the list nor
  another type has it from `InOrder`.

- `ChunkFreeList_proofs`: with `LinkFits`, `TypeOK`, `EachObjectOnce`,
  `Spec => ImplementsStore` and `Spec => ImplementsContract`.
  That links lead from object to object is not enough
  to say of each link alone: `IInv` says that there is a sequence which the links
  follow, and which names each free object once (`Listing`), in chunks that lie
  apart (`Placed`). `StrungFacts` shows what the loop that strings a fresh chunk
  leaves in memory. `Spec => ImplementsContract` (`ContractRefinement`) comes from
  the same invariant: an object that is handed out was free (`GivenWasFree`), and
  different objects of chunks that lie apart share no byte.

- `Serialize_proofs`: `TypeOK`, `OptionsRestored`, `TensorsChecked`. The invariant
  ties the vector of values to what was saved last (`SavedIsSource`) and what was
  restored last to the same (`RestoredIsSource`).

- `ListLemmas`: sequences put together and taken apart, chains of links pushed,
  popped and left alone, `ChainFrom` and `IsChain` as the same thing
  (`ChainIsList`). Where an induction is needed it runs over a set of numbers
  (`SetInduction`), and a loop is a recursive function (`RecursionUpTo`), so that
  nothing takes an operator as a parameter.

The inductive invariants of `PoolThreads` and `BitmapAlloc` were checked with TLC
on the instances of their runs before they were proved.

Model-checked only: the liveness properties `ImplementsFairQueue` and
`LockReleased`, as liveness under fairness is out of the prover's reach; and the
scripts (`FiguresAsDocumented`, `ListsAsDocumented`, `SideBySide`), which are
about fixed numbers.

## Plan

Done: the pool, with threads, with the constants of the code and with the word
around it; the queue; the class allocators; serialization; the bitmap allocator;
all of them checked, and every invariant and refinement that is not about fixed
numbers proved.

The three allocators keep the same promise, that no two blocks in use share
memory: the pool and the class allocators as refinements of `AllocContract`, the
bitmap allocator as the invariant `ObjectsPrivate`, since its chunks have names
and sizes in place of addresses. Nothing that was planned is left.

## Not modelled

- The components without state of their own or with straight-line use of it (see
  the inventory): a model of `my_stack`, the registry or the forwarding
  allocators would restate their assignments.
- gcc's headers in `stl/include` other than the two allocators: third-party
  code, most of the repository's lines, which the tests use as any program does.
- Torch's dispatcher and archive, whose code is not in the repository.
- What the callers promise and the code does not look at: a block is given back
  to the pool with the byte count it was asked for with; a new object of a class
  that manages its own memory is at least as large as a link (`LinkFits`); the
  environment does not change between one thread's first look at it and its
  addition (the guard of `ChangeEnv`).
- The cursor of the bitmap allocator as a pointer: the model has the index of
  its block and the position of its bitmap, so `IndicesValid` says that both
  are in range, and not what a stale pointer would point to.
- In the pool: allocation sizes near the width of `size_t`, which `max_size`
  rejects; the debug log. In the queue: exceptions thrown by the copy
  constructor of an item in `pop`. In the bitmap allocator: more than one object
  at a time, which bypasses it.
