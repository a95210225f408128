----------------------------- MODULE FifoQueue -----------------------------
(***************************************************************************)
(* What a blocking queue promises: items leave in the order they entered,  *)
(* each to one taker, and as long as somebody wants an item and there is   *)
(* one, somebody gets one.                                                 *)
(*                                                                         *)
(* This is the interface of BlockingQueue<T> (c++/demo/blocking_queue.cpp) *)
(* without its mutex and its condition variable: push, pop (which wants    *)
(* until it gets) and try_pop (which takes at once or not at all).         *)
(***************************************************************************)
EXTENDS Sequences

CONSTANTS
  Threads,
  Items     \* what may be pushed

VARIABLES
  items,    \* the queue
  taken,    \* everything taken so far, in order
  wanting   \* the threads inside pop

vars == <<items, taken, wanting>>

Init == items = <<>> /\ taken = <<>> /\ wanting = {}

Push(v) ==
  /\ items' = Append(items, v)
  /\ UNCHANGED <<taken, wanting>>

Want(t) ==
  /\ wanting' = wanting \cup {t}
  /\ UNCHANGED <<items, taken>>

Take ==
  /\ items # <<>>
  /\ items' = Tail(items)
  /\ taken' = Append(taken, Head(items))

\* pop by t returns.
Pop(t) == t \in wanting /\ Take /\ wanting' = wanting \ {t}

\* try_pop that finds an item.
TryPop == Take /\ UNCHANGED wanting

Next ==
  \/ \E v \in Items : Push(v)
  \/ \E t \in Threads : Want(t) \/ Pop(t)
  \/ TryPop

\* Safety only.
Spec == Init /\ [][Next]_vars

\* An item and a thread that wants one do not stay together for ever.
FairSpec == Spec /\ WF_vars(\E t \in Threads : Pop(t))
============================================================================
