-------------------------- MODULE MCBlockingQueue --------------------------
(***************************************************************************)
(* Threads and what they call, for BlockingQueue.                          *)
(***************************************************************************)
EXTENDS BlockingQueue, TLC

CONSTANTS p1, p2, c1, c2, k1   \* producers, consumers, one that looks

\* Producers, and consumers that may block or not; two blocked consumers and
\* two producers are what it takes to lose a wakeup.
Workers == {p1, p2, c1, c2}
WorkersCalls ==
  p1 :> {"push"} @@ p2 :> {"push"} @@ c1 :> {"pop"} @@ c2 :> {"pop", "try_pop"}

\* Every operation: two producers, two consumers, and one that peeks.
Everybody == {p1, p2, c1, c2, k1}
EverybodyCalls ==
  p1 :> {"push"} @@ p2 :> {"push", "nonblocking_size"} @@ c1 :> {"pop", "size"}
    @@ c2 :> {"pop", "try_pop"} @@ k1 :> {"peek", "try_peek"}
============================================================================
