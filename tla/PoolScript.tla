----------------------------- MODULE PoolScript -----------------------------
(***************************************************************************)
(* The pool with the constants of the code, called by one thread in the    *)
(* order of a script: the worked example of                                *)
(* doc/allocator/pool_allocator.md and the tests of TestStdAllocator       *)
(* (c++/test_allocator.cpp).                                               *)
(*                                                                         *)
(* operator new throws exactly if the pool would have more than the limit  *)
(* of the script from it.                                                  *)
(***************************************************************************)
EXTENDS PoolAlloc

CONSTANT Scripts   \* records [calls, limit]: calls as below, what the system has

VARIABLES
  script,
  at,    \* the calls of the script that have returned
  last   \* the address of the last block, 0 if there is none or it failed

scriptVars == <<vars, script, at, last>>

Script == script.calls

\* One allocate of the script, and what the text says of the state after it:
\* `apart`, the distance from the block before; `left`, the bytes left in the
\* chunk; `total`, the bytes the system has given; `lists`, the lists that
\* have blocks.
Call(bytes) == [bytes |-> bytes]
Apart(bytes, d) == [bytes |-> bytes, apart |-> d]
Figures(bytes, left, total, lists) ==
  [bytes |-> bytes, left |-> left, total |-> total, lists |-> lists]

Says(k, what) == k > 0 /\ what \in DOMAIN Script[k]

\* operator new has memory for the chunk that b needs.
SystemHas(b) == heapSize + BytesToGet(RoundUp(b)) <= script.limit

\* The next call of allocate.
Do(b) ==
  /\ \/ AllocateFromList(b)
     \/ AllocateFromChunk(b)
     \/ SystemHas(b) /\ \E p \in Bases : AllocateFromHeap(b, p)
     \/ ~SystemHas(b) /\ (AllocateFromLarger(b) \/ AllocateFails(b))
     \/ \E p \in Bases : AllocateLarge(b, p)
  /\ at' = at + 1
  /\ last' = IF live' = live THEN 0 ELSE (CHOOSE x \in live' \ live : TRUE).addr

ScriptInit == Init /\ script \in Scripts /\ at = 0 /\ last = 0

ScriptNext ==
  /\ at < Len(Script)
  /\ Do(Script[at + 1].bytes)
  /\ UNCHANGED script

ScriptSpec == ScriptInit /\ [][ScriptNext]_scriptVars

----------------------------------------------------------------------------
\* The sizes the worked example gives for the chunk and for the memory taken
\* from the system are those of the code (_M_allocate_chunk).
FiguresAsDocumented ==
  Says(at, "left") => BytesLeft = Script[at].left /\ heapSize = Script[at].total

\* After each call of the worked example the lists with blocks on them are
\* the ones it names (_M_refill, and the left-over pieces and the search of
\* _M_allocate_chunk).
ListsAsDocumented ==
  Says(at, "lists") => {i \in Lists : freeList[i] # <<>>} = Script[at].lists

\* Blocks that a test expects side by side are: what EXPECT_EQ of the pointer
\* distance says in test_pool_allocator, whichever tests ran before it.
SideBySide ==
  [][ Says(at', "apart") => last' - last = Script[at'].apart ]_scriptVars
============================================================================
