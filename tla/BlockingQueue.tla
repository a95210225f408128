--------------------------- MODULE BlockingQueue ---------------------------
(***************************************************************************)
(* BlockingQueue<T> (c++/demo/blocking_queue.cpp): an unbounded queue that *)
(* threads share, protected by one mutex, with one condition variable for  *)
(* the threads that find it empty.                                         *)
(*                                                                         *)
(* A call is a thread's way to the mutex, what it does while it holds it,  *)
(* and, for pop and peek, the wait on the condition and the way back to    *)
(* the mutex.  What pop and try_pop do is two steps, as they read the      *)
(* queue and then change it; what the others do is one.  Items are the     *)
(* numbers of the calls of push, so no two are equal.                      *)
(***************************************************************************)
EXTENDS Integers, Sequences, FiniteSets

CONSTANTS
  Threads,
  Calls,      \* for each thread the operations it calls
  NoThread,   \* nobody: the mutex is free
  MaxPushes   \* bound: the calls of push

Blocking == {"pop", "peek"}
Ops == {"push", "try_pop", "try_peek", "size", "nonblocking_size"} \cup Blocking

ASSUME QueueConstants ==
  /\ Calls \in [Threads -> SUBSET Ops]
  /\ NoThread \notin Threads
  /\ MaxPushes \in Nat
  /\ IsFiniteSet(Threads)

VARIABLES
  queue,    \* queue_
  holder,   \* the thread that holds mutex_
  pc,       \* where a thread is in its call
  op,       \* the operation a thread is in, or was in last
  item,     \* what a thread pushes or pushed last, or has read to return it
  pushes,   \* how often push was called
  taken     \* all items that pop and try_pop returned, in order

vars == <<queue, holder, pc, op, item, pushes, taken>>

\* "idle"   in no call
\* "lock"   has called and has not yet had the mutex
\* "inside" holds the mutex
\* "read"   holds it and has read the front of the queue
\* "wait"   blocked in condition_.wait
\* "woken"  notified, and on its way back to the mutex
PCs == {"idle", "lock", "inside", "read", "wait", "woken"}

At(place) == {t \in Threads : pc[t] = place}

In(t, o) == pc[t] = "inside" /\ op[t] = o

----------------------------------------------------------------------------
(* The way to the mutex.                                                   *)

Call(t, o) ==
  /\ pc[t] = "idle"
  /\ o \in Calls[t]
  /\ pc' = [pc EXCEPT ![t] = "lock"]
  /\ op' = [op EXCEPT ![t] = o]
  /\ \/ /\ o = "push"
        /\ pushes < MaxPushes
        /\ pushes' = pushes + 1
        /\ item' = [item EXCEPT ![t] = pushes + 1]
     \/ /\ o # "push"
        /\ UNCHANGED <<pushes, item>>
  /\ UNCHANGED <<queue, holder, taken>>

\* The mutex goes to any thread that is after it, in no particular order: a
\* newcomer may overtake a thread that was notified.
Acquire(t) ==
  /\ pc[t] \in {"lock", "woken"}
  /\ holder = NoThread
  /\ holder' = t
  /\ pc' = [pc EXCEPT ![t] = "inside"]
  /\ UNCHANGED <<queue, op, item, pushes, taken>>

\* nonblocking_size: try_to_lock finds the mutex taken.
TryLockFails(t) ==
  /\ pc[t] = "lock"
  /\ op[t] = "nonblocking_size"
  /\ holder # NoThread
  /\ pc' = [pc EXCEPT ![t] = "idle"]
  /\ UNCHANGED <<queue, holder, op, item, pushes, taken>>

\* The end of a call: the destructor of the lock releases the mutex.
Return(t) ==
  /\ pc' = [pc EXCEPT ![t] = "idle"]
  /\ holder' = NoThread

----------------------------------------------------------------------------
(* With the mutex.                                                         *)

\* mutant: push does not notify.
PushSilently(t) ==
  /\ In(t, "push")
  /\ queue' = Append(queue, item[t])
  /\ Return(t)
  /\ UNCHANGED <<op, item, pushes, taken>>

\* mutant: push notifies only if the queue was empty.
PushNotifiesFirst(t) ==
  /\ In(t, "push")
  /\ queue' = Append(queue, item[t])
  /\ \/ /\ At("wait") = {} \/ queue # <<>>
        /\ pc' = [pc EXCEPT ![t] = "idle"]
     \/ /\ queue = <<>>
        /\ \E w \in At("wait") : pc' = [pc EXCEPT ![t] = "idle", ![w] = "woken"]
  /\ holder' = NoThread
  /\ UNCHANGED <<op, item, pushes, taken>>

\* push: notify_one wakes one of the waiting threads, whichever.
Push(t) ==
  /\ In(t, "push")
  /\ queue' = Append(queue, item[t])
  /\ \/ /\ At("wait") = {}
        /\ pc' = [pc EXCEPT ![t] = "idle"]
     \/ \E w \in At("wait") : pc' = [pc EXCEPT ![t] = "idle", ![w] = "woken"]
  /\ holder' = NoThread
  /\ UNCHANGED <<op, item, pushes, taken>>

Taking == {"pop", "try_pop"}

\* mutant: the mutex is held for the reading only.
FrontUnlocked(t) ==
  /\ pc[t] = "inside" /\ op[t] \in Taking
  /\ queue # <<>>
  /\ pc' = [pc EXCEPT ![t] = "read"]
  /\ item' = [item EXCEPT ![t] = Head(queue)]
  /\ holder' = NoThread
  /\ UNCHANGED <<queue, op, pushes, taken>>

\* pop and try_pop find an item and copy it.
Front(t) ==
  /\ pc[t] = "inside" /\ op[t] \in Taking
  /\ queue # <<>>
  /\ pc' = [pc EXCEPT ![t] = "read"]
  /\ item' = [item EXCEPT ![t] = Head(queue)]
  /\ UNCHANGED <<queue, holder, op, pushes, taken>>

\* mutant: the last item is popped.
PopBack(t) ==
  /\ pc[t] = "read"
  /\ queue' = SubSeq(queue, 1, Len(queue) - 1)
  /\ taken' = Append(taken, item[t])
  /\ item' = [item EXCEPT ![t] = 0]
  /\ Return(t)
  /\ UNCHANGED <<op, pushes>>

\* They pop the front of the queue, whatever it is by now, and return the copy.
Pop(t) ==
  /\ pc[t] = "read"
  /\ queue' = SubSeq(queue, 2, Len(queue))
  /\ taken' = Append(taken, item[t])
  /\ item' = [item EXCEPT ![t] = 0]
  /\ Return(t)
  /\ UNCHANGED <<op, pushes>>

\* mutant: the thread blocks with the mutex.
WaitHoldingMutex(t) ==
  /\ pc[t] = "inside"
  /\ op[t] \in Blocking
  /\ queue = <<>>
  /\ pc' = [pc EXCEPT ![t] = "wait"]
  /\ UNCHANGED <<queue, holder, op, item, pushes, taken>>

\* pop and peek find the queue empty: wait releases the mutex and blocks.
Wait(t) ==
  /\ pc[t] = "inside"
  /\ op[t] \in Blocking
  /\ queue = <<>>
  /\ pc' = [pc EXCEPT ![t] = "wait"]
  /\ holder' = NoThread
  /\ UNCHANGED <<queue, op, item, pushes, taken>>

\* try_pop finds the queue empty.
TryPopFails(t) ==
  /\ In(t, "try_pop")
  /\ queue = <<>>
  /\ Return(t)
  /\ UNCHANGED <<queue, op, item, pushes, taken>>

\* peek, once the queue is not empty: the front stays.
Peek(t) ==
  /\ In(t, "peek")
  /\ queue # <<>>
  /\ Return(t)
  /\ UNCHANGED <<queue, op, item, pushes, taken>>

\* try_peek, size, and nonblocking_size once it has the mutex.
Look(t) ==
  /\ pc[t] = "inside"
  /\ op[t] \in {"try_peek", "size", "nonblocking_size"}
  /\ Return(t)
  /\ UNCHANGED <<queue, op, item, pushes, taken>>

\* The condition variable may wake a thread without a notification.
SpuriousWakeup(t) ==
  /\ pc[t] = "wait"
  /\ pc' = [pc EXCEPT ![t] = "woken"]
  /\ UNCHANGED <<queue, holder, op, item, pushes, taken>>

----------------------------------------------------------------------------
Init ==
  /\ queue = <<>>
  /\ holder = NoThread
  /\ pc = [t \in Threads |-> "idle"]
  /\ op = [t \in Threads |-> "size"]
  /\ item = [t \in Threads |-> 0]
  /\ pushes = 0
  /\ taken = <<>>

\* A step of a call that is under way.
Step(t) ==
  \/ Acquire(t) \/ TryLockFails(t)
  \/ Push(t) \/ Front(t) \/ Pop(t) \/ TryPopFails(t)
  \/ Wait(t) \/ Peek(t) \/ Look(t)

Next ==
  \E t \in Threads : (\E o \in Ops : Call(t, o)) \/ Step(t) \/ SpuriousWakeup(t)

Spec == Init /\ [][Next]_vars

\* A thread that could go on goes on, and so a free mutex does not stay free
\* while somebody is after it; nobody need ever call, and nothing is said of
\* who gets the mutex.
FairSpec == Spec /\ \A t \in Threads : WF_vars(Step(t))

----------------------------------------------------------------------------
(* Properties.                                                             *)

Pushing(t) == op[t] = "push" /\ pc[t] \in {"lock", "inside"}

\* Every variable has its type, and a thread is past the mutex exactly while it
\* holds it.
TypeOK ==
  /\ queue \in Seq(1 .. MaxPushes)
  /\ holder \in Threads \cup {NoThread}
  /\ pc \in [Threads -> PCs]
  /\ op \in [Threads -> Ops]
  /\ item \in [Threads -> 0 .. MaxPushes]
  /\ pushes \in 0 .. MaxPushes
  /\ taken \in Seq(1 .. MaxPushes)
  /\ \A t \in Threads : pc[t] \in {"inside", "read"} <=> holder = t

Places(n, q) == {k \in DOMAIN q : q[k] = n}

\* Every item is in one place: with the thread that is pushing it, in the
\* queue, or with the one call of pop or try_pop that returned it.  None is
\* lost and none is delivered twice, whatever happens between the reading and
\* the popping of the front (push, pop, try_pop under mutex_).
EachItemOnce ==
  \A n \in 1 .. pushes :
    Cardinality({t \in Threads : Pushing(t) /\ item[t] = n})
      + Cardinality(Places(n, queue)) + Cardinality(Places(n, taken)) = 1

\* As long as a thread is blocked in pop, every item in the queue has a
\* thread in pop that is on its way to take one: the one notify_one of each
\* push is enough, in spite of threads that overtake the woken ones and of
\* spurious wakeups (push, pop).  It holds if nobody calls peek.
NoLostWakeup ==
  (\E t \in At("wait") : op[t] = "pop")
    => Len(queue) <= Cardinality({t \in At("woken") \cup At("inside") \cup At("read") :
                                    op[t] = "pop"})

\* A call of pop blocks for want of items only: when no call is under way
\* other than the blocked ones, they are blocked because the queue is empty
\* ("useful for detecting e.g. when data feeding is too slow",
\* c++/demo/blocking_queue.cpp:24-25).
BlockedForWantOfItems ==
  At("idle") \cup At("wait") = Threads
    => \A t \in At("wait") : op[t] = "pop" => queue = <<>>

Fifo == INSTANCE FifoQueue
  WITH items <- queue,
       wanting <- {t \in Threads : op[t] = "pop" /\ pc[t] # "idle"},
       Items <- 1 .. MaxPushes

\* The mutex makes of push, pop and try_pop the atomic operations of a first
\* in, first out queue, for any use of the other operations.
ImplementsQueue == Fifo!Spec

\* With the condition variable the queue is live, too: an item and a thread
\* in pop do not stay together for ever.  (pop, push; only push, pop and
\* try_pop are called.)
ImplementsFairQueue == Fifo!FairSpec
============================================================================
