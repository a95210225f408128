---------------------------- MODULE MCPoolScript ----------------------------
(***************************************************************************)
(* The scripts of PoolScript, with the line of the text behind each call.  *)
(***************************************************************************)
EXTENDS PoolScript, SequencesExt

Repeat(n, call) == [k \in 1 .. n |-> call]

\* doc/allocator/pool_allocator.md:176-232.  The blocks of 48 bytes are on
\* list 5, as in the picture of step 10 (line 222); the text says list 3.
Example == <<
  Figures(32, 640, 1280, {3}),
  Figures(64, 0, 1280, {3, 7}),
  Figures(96, 2000, 5200, {3, 7, 11}),
  Figures(88, 240, 5200, {3, 7, 10, 11}),
  Figures(88, 240, 5200, {3, 7, 10, 11}),
  Figures(88, 240, 5200, {3, 7, 10, 11}),
  Figures(88, 240, 5200, {3, 7, 10, 11}),
  Figures(8, 80, 5200, {0, 3, 7, 10, 11}),
  Figures(104, 2408, 9688, {0, 3, 7, 9, 10, 11, 12}),
  Figures(112, 168, 9688, {0, 3, 7, 9, 10, 11, 12, 13}),
  Figures(48, 24, 9688, {0, 3, 5, 7, 9, 10, 11, 12, 13}),
  Figures(72, 8, 9688, {0, 2, 3, 5, 7, 10, 11, 12, 13}),
  Figures(72, 16, 9688, {0, 2, 3, 5, 7, 10, 11, 12, 13}),
  Figures(120, 0, 9688, {0, 1, 2, 3, 5, 7, 10, 11, 12, 13}) >>

\* c++/test_allocator.cpp.  The tests' deallocate(ptr, 0) does nothing: the
\* blocks stay out of the pool.
PoolAllocator == Repeat(11, Call(8))                             \* 433-450
TestUsrDefinedPoolAllocator == <<Call(80)>>                      \* 751-755
TestPoolAllocator ==
     <<Call(1)>> \o Repeat(19, Apart(1, 8))                      \* 764-770
  \o <<Call(4)>> \o Repeat(19, Apart(4, 8))                      \* 775-781
  \o <<Call(128)>> \o Repeat(10, Apart(128, 128))                \* 794-800
  \o Repeat(9, Call(136))                                        \* 814-820

RightScripts == {[calls |-> Example, limit |-> 10000], [calls |-> TestPoolAllocator, limit |-> 30000]}

\* The tests in the order of the file.
InOrder ==
  {[calls |-> PoolAllocator \o TestUsrDefinedPoolAllocator \o TestPoolAllocator, limit |-> 30000]}

Sizes == {1, 4, 8, 32, 48, 64, 72, 80, 88, 96, 104, 112, 120, 128, 136}

\* Places that leave room between chunks, as malloc's headers do.
Places == {8 + 6000 * k : k \in 0 .. 3} \cup {24008 + 152 * k : k \in 0 .. 8}
============================================================================
