------------------------------- MODULE Links -------------------------------
(***************************************************************************)
(* Free lists as the allocators keep them: each free block holds the       *)
(* address of the next one, and the last holds 0.                          *)
(***************************************************************************)
EXTENDS Integers, Sequences

\* The addresses on the list that starts at a, when next[x] is what the link
\* at x holds: at most `most` of them, in order.  The list ends at 0, and at
\* an address where there is no link to follow.
ChainFrom(next, a, most) ==
  LET longer == [q \in Seq(Int) |->
        LET b == IF q = <<>> THEN a
                 ELSE IF q[Len(q)] \in DOMAIN next THEN next[q[Len(q)]] ELSE 0
        IN  IF b = 0 THEN q ELSE Append(q, b)]
      chain[n \in Nat] == IF n = 0 THEN <<>> ELSE longer[chain[n - 1]]
  IN  chain[most]

\* The sequence q is the list that starts at a.
IsChain(next, a, q) ==
  /\ a = IF q = <<>> THEN 0 ELSE q[1]
  /\ \A k \in 1 .. Len(q) :
       /\ q[k] # 0 /\ q[k] \in DOMAIN next
       /\ next[q[k]] = IF k < Len(q) THEN q[k + 1] ELSE 0
=============================================================================
