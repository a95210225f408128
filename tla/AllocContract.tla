--------------------------- MODULE AllocContract ---------------------------
(***************************************************************************)
(* What an allocator promises its clients, whatever it does inside: a      *)
(* block that is handed out is suitably aligned and shares no byte with    *)
(* any block a client still holds; a block stays its client's until the    *)
(* client gives it back.                                                   *)
(*                                                                         *)
(* This is the interface of __pool_alloc<T>::allocate and ::deallocate     *)
(* (stl/include/ext/pool_allocator.h), with the pool left out.             *)
(***************************************************************************)
EXTENDS Integers

CONSTANTS
  Align,      \* every block starts at a multiple of it
  Requests,   \* the byte counts clients ask for
  Addresses   \* where a block may start; null is not one of them

VARIABLE live   \* the blocks clients hold: records [addr, bytes]

\* Two stretches of memory, [p, p+m) and [q, q+n), have no byte in common.
Disjoint(p, m, q, n) == p + m <= q \/ q + n <= p

Init == live = {}

\* allocate returned p for a request of b bytes.
Grant(b, p) ==
  /\ p % Align = 0
  /\ \A blk \in live : Disjoint(p, b, blk.addr, blk.bytes)
  /\ live' = live \cup {[addr |-> p, bytes |-> b]}

\* deallocate of a block its client holds.
Release(blk) == live' = live \ {blk}

Next ==
  \/ \E b \in Requests, p \in Addresses : Grant(b, p)
  \/ \E blk \in live : Release(blk)

Spec == Init /\ [][Next]_live
============================================================================
