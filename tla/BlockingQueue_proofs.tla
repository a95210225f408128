----------------------- MODULE BlockingQueue_proofs -----------------------
(***************************************************************************)
(* Proofs about BlockingQueue, for any finite set of threads, any          *)
(* assignment of operations to them and any number of pushes.              *)
(***************************************************************************)
EXTENDS BlockingQueue, FiniteSetTheorems, TLAPS

----------------------------------------------------------------------------
(* Types, the mutex, and what a thread's place says about its operation.   *)

CallInv ==
  /\ \A t \in Threads : pc[t] # "idle" => op[t] \in Calls[t]
  /\ \A t \in Threads : pc[t] \in {"wait", "woken"} => op[t] \in Blocking
  /\ \A t \in Threads : Pushing(t) => item[t] \in 1 .. MaxPushes

\* What a thread has read is still the front of the queue: nobody else has had
\* the mutex since.
ReadInv ==
  \A t \in Threads :
    pc[t] = "read" => op[t] \in Taking /\ queue # <<>> /\ item[t] = Head(queue)

QInv == TypeOK /\ CallInv /\ ReadInv

\* The front of a queue and what is left without it.
LEMMA FrontFacts ==
  ASSUME NEW S, NEW q \in Seq(S), q # <<>>
  PROVE  /\ Head(q) \in S
         /\ Tail(q) \in Seq(S)
         /\ Len(q) \in Nat \ {0}
         /\ Len(Tail(q)) = Len(q) - 1
         /\ SubSeq(q, 2, Len(q)) = Tail(q)
  OBVIOUS

\* What pop does to the queue and to what was taken, given the invariant.
LEMMA PopFacts ==
  ASSUME QInv, NEW t \in Threads, Pop(t)
  PROVE  /\ pc[t] = "read" /\ op[t] \in Taking /\ queue # <<>>
         /\ queue' = Tail(queue) /\ taken' = Append(taken, Head(queue))
         /\ op' = op /\ pushes' = pushes /\ item' = [item EXCEPT ![t] = 0]
         /\ pc' = [pc EXCEPT ![t] = "idle"] /\ holder' = NoThread
  BY FrontFacts DEF QInv, TypeOK, ReadInv, Pop, Return

LEMMA QInit == Init => QInv
  BY QueueConstants DEF Init, QInv, TypeOK, CallInv, ReadInv, Pushing, PCs, Ops, Blocking

LEMMA QStep == QInv /\ [Next]_vars => QInv'
  <1> SUFFICES ASSUME QInv, [Next]_vars PROVE QInv'
    OBVIOUS
  <1> USE QueueConstants DEF QInv, TypeOK, CallInv, ReadInv, Pushing, PCs, Taking
  <1>1. CASE UNCHANGED vars BY <1>1 DEF vars
  <1>2. ASSUME NEW t \in Threads, NEW o \in Ops, Call(t, o) PROVE QInv'
    <2>1. CASE o = "push"
      <3>1. /\ pc[t] = "idle" /\ o \in Calls[t] /\ pc' = [pc EXCEPT ![t] = "lock"]
            /\ op' = [op EXCEPT ![t] = o] /\ pushes < MaxPushes
            /\ pushes' = pushes + 1 /\ item' = [item EXCEPT ![t] = pushes + 1]
            /\ UNCHANGED <<queue, holder, taken>>
        BY <1>2, <2>1 DEF Call
      <3>2. pushes' \in 0 .. MaxPushes /\ pushes + 1 \in 1 .. MaxPushes BY <3>1
      <3>3. TypeOK' BY <3>1, <3>2
      <3>4. CallInv' BY <3>1, <3>2, <2>1 DEF Blocking
      <3>5. ReadInv' BY <3>1
      <3> QED BY <3>3, <3>4, <3>5
    <2>2. CASE o # "push" BY <1>2, <2>2 DEF Call, Blocking
    <2> QED BY <2>1, <2>2
  <1>3. ASSUME NEW t \in Threads, Acquire(t) PROVE QInv'
    BY <1>3 DEF Acquire, Blocking
  <1>4. ASSUME NEW t \in Threads, TryLockFails(t) PROVE QInv'
    BY <1>4 DEF TryLockFails
  <1>5. ASSUME NEW t \in Threads, Push(t) PROVE QInv'
    <2>1. item[t] \in 1 .. MaxPushes BY <1>5 DEF Push, In
    <2>2. Append(queue, item[t]) \in Seq(1 .. MaxPushes) BY <2>1
    <2>3. CASE pc' = [pc EXCEPT ![t] = "idle"]
      BY <1>5, <2>2, <2>3 DEF Push, In
    <2>4. CASE \E w \in At("wait") : pc' = [pc EXCEPT ![t] = "idle", ![w] = "woken"]
      <3>1. PICK w \in At("wait") : pc' = [pc EXCEPT ![t] = "idle", ![w] = "woken"]
        BY <2>4
      <3>2. w \in Threads /\ pc[w] = "wait" BY DEF At
      <3> QED BY <1>5, <2>2, <3>1, <3>2 DEF Push, In, Blocking
    <2> QED BY <1>5, <2>3, <2>4 DEF Push
  <1>6. ASSUME NEW t \in Threads, Front(t) PROVE QInv'
    <2>1. /\ pc[t] = "inside" /\ op[t] \in Taking /\ queue # <<>>
          /\ pc' = [pc EXCEPT ![t] = "read"] /\ item' = [item EXCEPT ![t] = Head(queue)]
          /\ UNCHANGED <<queue, holder, op, pushes, taken>>
      BY <1>6 DEF Front
    <2>2. Head(queue) \in 1 .. MaxPushes BY <2>1, FrontFacts
    <2> QED BY <2>1, <2>2 DEF Blocking
  <1>7. ASSUME NEW t \in Threads, Pop(t) PROVE QInv'
    <2>1. /\ pc[t] = "read" /\ op[t] \in Taking /\ queue # <<>>
          /\ queue' = Tail(queue) /\ taken' = Append(taken, Head(queue))
          /\ op' = op /\ pushes' = pushes /\ item' = [item EXCEPT ![t] = 0]
          /\ pc' = [pc EXCEPT ![t] = "idle"] /\ holder' = NoThread
      BY <1>7, PopFacts
    <2>2. queue' \in Seq(1 .. MaxPushes) /\ taken' \in Seq(1 .. MaxPushes)
      BY <2>1, FrontFacts
    <2> QED BY <2>1, <2>2
  <1>8. ASSUME NEW t \in Threads, Wait(t) PROVE QInv'
    BY <1>8 DEF Wait
  <1>9. ASSUME NEW t \in Threads, Peek(t) PROVE QInv'
    BY <1>9 DEF Peek, Return, In
  <1>10. ASSUME NEW t \in Threads, Look(t) PROVE QInv'
    BY <1>10 DEF Look, Return
  <1>11. ASSUME NEW t \in Threads, SpuriousWakeup(t) PROVE QInv'
    BY <1>11 DEF SpuriousWakeup
  <1>12. ASSUME NEW t \in Threads, TryPopFails(t) PROVE QInv'
    BY <1>12 DEF TryPopFails, Return, In
  <1> QED
    BY <1>1, <1>2, <1>3, <1>4, <1>5, <1>6, <1>7, <1>8, <1>9, <1>10, <1>11, <1>12
    DEF Next, Step

THEOREM QInvariance == Spec => []QInv
  BY QInit, QStep, PTL DEF Spec

\* The queue and what was taken hold pushed items only, and a thread is
\* past the mutex exactly while it holds it (all operations of the queue).
THEOREM TypeCorrect == Spec => []TypeOK
  <1>1. QInv => TypeOK BY DEF QInv
  <1> QED BY <1>1, QInvariance, PTL

----------------------------------------------------------------------------
(* No wakeup is lost.                                                      *)

\* Nobody peeks: a thread that is notified takes an item if there is one.
NoPeekers == \A t \in Threads : "peek" \notin Calls[t]

\* The threads in pop that are on their way to take an item.
Takers == {t \in At("woken") \cup At("inside") \cup At("read") : op[t] = "pop"}

LEMMA TakersFinite ==
  ASSUME NEW S, S \subseteq Threads
  PROVE  IsFiniteSet(S) /\ Cardinality(S) \in Nat
  BY QueueConstants, FS_Subset, FS_CardinalityType

\* More takers for no more items.
LEMMA MoreTakers ==
  ASSUME QInv, NoLostWakeup, Takers \subseteq Takers', Takers' \subseteq Threads,
         Len(queue') <= Len(queue), Len(queue') \in Nat,
         \A t \in At("wait")' : t \in At("wait") /\ op'[t] = op[t]
  PROVE  NoLostWakeup'
  <1> SUFFICES ASSUME NEW t \in At("wait")', op'[t] = "pop"
               PROVE  Len(queue') <= Cardinality(Takers')
    BY DEF NoLostWakeup, Takers
  <1>1. Len(queue) <= Cardinality(Takers) BY DEF NoLostWakeup, Takers
  <1>2. Cardinality(Takers) <= Cardinality(Takers')
    BY TakersFinite, FS_Subset
  <1>3. Len(queue) \in Nat BY DEF QInv, TypeOK
  <1>4. Cardinality(Takers) \in Nat /\ Cardinality(Takers') \in Nat
    <2>1. Takers \subseteq Threads BY DEF Takers, At
    <2> QED BY <2>1, TakersFinite
  <1> QED BY <1>1, <1>2, <1>3, <1>4

LEMMA WakeupStep ==
  NoPeekers /\ QInv /\ NoLostWakeup /\ [Next]_vars => NoLostWakeup'
  <1> SUFFICES ASSUME NoPeekers, QInv, NoLostWakeup, [Next]_vars
               PROVE  NoLostWakeup'
    OBVIOUS
  <1>t. /\ queue \in Seq(1 .. MaxPushes) /\ Len(queue) \in Nat
        /\ pc \in [Threads -> PCs] /\ op \in [Threads -> Ops]
    BY DEF QInv, TypeOK
  <1>1. CASE UNCHANGED vars
    BY <1>1 DEF vars, NoLostWakeup, At
  <1>2. ASSUME NEW t \in Threads, NEW o \in Ops, Call(t, o) PROVE NoLostWakeup'
    <2>1. /\ pc[t] = "idle" /\ pc' = [pc EXCEPT ![t] = "lock"]
          /\ op' = [op EXCEPT ![t] = o] /\ queue' = queue
      BY <1>2 DEF Call
    <2>2. At("wait")' = At("wait") BY <1>t, <2>1 DEF At
    <2>3. Takers' = Takers BY <1>t, <2>1 DEF At, Takers
    <2>4. \A u \in At("wait") : op'[u] = op[u] BY <1>t, <2>1 DEF At
    <2>5. Takers' \subseteq Threads BY DEF Takers, At
    <2> QED BY <1>t, <2>1, <2>2, <2>3, <2>4, <2>5, MoreTakers
  <1>3. ASSUME NEW t \in Threads, Acquire(t) PROVE NoLostWakeup'
    <2>1. /\ pc[t] \in {"lock", "woken"} /\ pc' = [pc EXCEPT ![t] = "inside"]
          /\ op' = op /\ queue' = queue
      BY <1>3 DEF Acquire
    <2>2. At("wait")' = At("wait") BY <1>t, <2>1 DEF At
    <2>3. Takers \subseteq Takers' /\ Takers' \subseteq Threads
      BY <1>t, <2>1 DEF At, Takers
    <2> QED BY <1>t, <2>1, <2>2, <2>3, MoreTakers
  <1>4. ASSUME NEW t \in Threads, TryLockFails(t) PROVE NoLostWakeup'
    <2>1. /\ pc[t] = "lock" /\ pc' = [pc EXCEPT ![t] = "idle"]
          /\ op' = op /\ queue' = queue
      BY <1>4 DEF TryLockFails
    <2>2. At("wait")' = At("wait") BY <1>t, <2>1 DEF At
    <2>3. Takers \subseteq Takers' /\ Takers' \subseteq Threads
      BY <1>t, <2>1 DEF At, Takers
    <2> QED BY <1>t, <2>1, <2>2, <2>3, MoreTakers
  <1>5. ASSUME NEW t \in Threads, Push(t) PROVE NoLostWakeup'
    <2>1. /\ pc[t] = "inside" /\ op[t] = "push" /\ op' = op
          /\ queue' = Append(queue, item[t])
      BY <1>5 DEF Push, In
    <2>2. Len(queue') = Len(queue) + 1 BY <1>t, <2>1
    \* Nobody waits: nobody will.
    <2>3. CASE At("wait") = {} /\ pc' = [pc EXCEPT ![t] = "idle"]
      <3>1. At("wait")' = {} BY <1>t, <2>3 DEF At
      <3> QED BY <3>1 DEF NoLostWakeup
    \* A thread is woken, and it is in pop: one more taker.
    <2>4. ASSUME NEW w \in At("wait"), pc' = [pc EXCEPT ![t] = "idle", ![w] = "woken"]
          PROVE  NoLostWakeup'
      <3>1. w \in Threads /\ pc[w] = "wait" BY DEF At
      <3>2. op[w] = "pop" BY <3>1 DEF QInv, CallInv, Blocking, NoPeekers
      <3>3. w \notin Takers /\ Takers' = Takers \cup {w}
        BY <1>t, <2>1, <2>4, <3>1, <3>2 DEF Takers, At
      <3>4. Takers \subseteq Threads BY DEF Takers, At
      <3>5. Cardinality(Takers') = Cardinality(Takers) + 1
        BY <3>3, <3>4, TakersFinite, FS_AddElement
      <3>6. Len(queue) <= Cardinality(Takers)
        BY <3>2 DEF NoLostWakeup, Takers
      <3>7. Len(queue') <= Cardinality(Takers')
        BY <1>t, <2>2, <3>4, <3>5, <3>6, TakersFinite
      <3> QED BY <3>7 DEF NoLostWakeup, Takers
    <2> QED BY <1>5, <2>3, <2>4 DEF Push
  <1>6. ASSUME NEW t \in Threads, Pop(t) PROVE NoLostWakeup'
    <2>1. /\ pc[t] = "read" /\ op[t] \in Taking /\ op' = op
          /\ queue # <<>> /\ queue' = Tail(queue)
          /\ pc' = [pc EXCEPT ![t] = "idle"]
      BY <1>6, PopFacts
    <2>2. Len(queue') = Len(queue) - 1 /\ Len(queue) \in Nat \ {0}
      BY <1>t, <2>1, FrontFacts
    <2>3. At("wait")' = At("wait") BY <1>t, <2>1 DEF At
    \* pop: one item and one taker less.
    <2>4. CASE op[t] = "pop"
      <3>1. t \in Takers /\ Takers' = Takers \ {t} BY <1>t, <2>1, <2>4 DEF Takers, At
      <3>2. Takers \subseteq Threads BY DEF Takers, At
      <3>3. Cardinality(Takers') = Cardinality(Takers) - 1
        BY <3>1, <3>2, TakersFinite, FS_RemoveElement
      <3>4. ASSUME NEW u \in At("wait")', op'[u] = "pop"
            PROVE  Len(queue') <= Cardinality(Takers')
        <4>1. Len(queue) <= Cardinality(Takers)
          BY <2>1, <2>3, <3>4 DEF NoLostWakeup, Takers
        <4> QED BY <2>2, <3>2, <3>3, <4>1, TakersFinite
      <3> QED BY <3>4 DEF NoLostWakeup, Takers
    \* try_pop: one item less.
    <2>5. CASE op[t] # "pop"
      <3>1. Takers' = Takers /\ Takers' \subseteq Threads
        BY <1>t, <2>1, <2>5 DEF Takers, At
      <3>2. Len(queue') \in Nat /\ Len(queue') <= Len(queue) BY <2>2
      <3> QED BY <2>1, <2>3, <3>1, <3>2, MoreTakers
    <2> QED BY <2>4, <2>5
  <1>7. ASSUME NEW t \in Threads, Wait(t) PROVE NoLostWakeup'
    <2>1. queue' = <<>> /\ Len(queue') = 0 BY <1>7 DEF Wait
    <2>2. Takers' \subseteq Threads BY DEF Takers, At
    <2>3. Cardinality(Takers') \in Nat BY <2>2, TakersFinite
    <2> QED BY <2>1, <2>3 DEF NoLostWakeup, Takers
  <1>8. ASSUME NEW t \in Threads, Front(t) PROVE NoLostWakeup'
    <2>1. /\ pc[t] = "inside" /\ op' = op /\ queue' = queue
          /\ pc' = [pc EXCEPT ![t] = "read"]
      BY <1>8 DEF Front
    <2>2. At("wait")' = At("wait") BY <1>t, <2>1 DEF At
    <2>3. Takers' = Takers /\ Takers' \subseteq Threads BY <1>t, <2>1 DEF Takers, At
    <2> QED BY <1>t, <2>1, <2>2, <2>3, MoreTakers
  <1>9. ASSUME NEW t \in Threads, Peek(t) PROVE NoLostWakeup'
    <2>1. op[t] = "peek" /\ pc[t] = "inside" BY <1>9 DEF Peek, In
    <2>2. "peek" \in Calls[t] BY <2>1 DEF QInv, CallInv
    <2> QED BY <2>2 DEF NoPeekers
  <1>10. ASSUME NEW t \in Threads, Look(t) PROVE NoLostWakeup'
    <2>1. /\ pc[t] = "inside" /\ op[t] # "pop" /\ op' = op /\ queue' = queue
          /\ pc' = [pc EXCEPT ![t] = "idle"]
      BY <1>10 DEF Look, Return
    <2>2. At("wait")' = At("wait") BY <1>t, <2>1 DEF At
    <2>3. Takers' = Takers /\ Takers' \subseteq Threads BY <1>t, <2>1 DEF Takers, At
    <2> QED BY <1>t, <2>1, <2>2, <2>3, MoreTakers
  <1>11. ASSUME NEW t \in Threads, SpuriousWakeup(t) PROVE NoLostWakeup'
    <2>1. /\ pc[t] = "wait" /\ op' = op /\ queue' = queue
          /\ pc' = [pc EXCEPT ![t] = "woken"]
      BY <1>11 DEF SpuriousWakeup
    <2>2. At("wait")' \subseteq At("wait") BY <1>t, <2>1 DEF At
    <2>3. Takers \subseteq Takers' /\ Takers' \subseteq Threads
      BY <1>t, <2>1 DEF Takers, At
    <2> QED BY <1>t, <2>1, <2>2, <2>3, MoreTakers
  <1>12. ASSUME NEW t \in Threads, TryPopFails(t) PROVE NoLostWakeup'
    <2>1. /\ pc[t] = "inside" /\ op[t] # "pop" /\ op' = op /\ queue' = queue
          /\ pc' = [pc EXCEPT ![t] = "idle"]
      BY <1>12 DEF TryPopFails, In, Return
    <2>2. At("wait")' = At("wait") BY <1>t, <2>1 DEF At
    <2>3. Takers' = Takers /\ Takers' \subseteq Threads BY <1>t, <2>1 DEF Takers, At
    <2> QED BY <1>t, <2>1, <2>2, <2>3, MoreTakers
  <1> QED
    BY <1>1, <1>2, <1>3, <1>4, <1>5, <1>6, <1>7, <1>8, <1>9, <1>10, <1>11, <1>12
    DEF Next, Step

\* While a thread is blocked in pop, every item in the queue has a thread on
\* its way to take one, if nobody peeks (push, pop, try_pop).
THEOREM WakeupsSuffice == NoPeekers => (Spec => []NoLostWakeup)
  <1> SUFFICES ASSUME NoPeekers PROVE Spec => []NoLostWakeup
    OBVIOUS
  <1>1. Init => NoLostWakeup BY DEF Init, NoLostWakeup, At
  <1>2. QInv /\ NoLostWakeup /\ [Next]_vars => NoLostWakeup' BY WakeupStep
  <1> QED BY <1>1, <1>2, QInvariance, PTL DEF Spec

\* If nobody peeks, pop blocks for want of items only (push, pop).
THEOREM PopStarvesOnly == NoPeekers => (Spec => []BlockedForWantOfItems)
  <1> SUFFICES ASSUME NoPeekers PROVE Spec => []BlockedForWantOfItems
    OBVIOUS
  <1>1. QInv /\ NoLostWakeup => BlockedForWantOfItems
    <2> SUFFICES ASSUME QInv, NoLostWakeup, At("idle") \cup At("wait") = Threads,
                        NEW t \in At("wait"), op[t] = "pop"
                 PROVE  queue = <<>>
      BY DEF BlockedForWantOfItems
    <2>1. Takers = {} BY DEF Takers, At
    <2>2. Len(queue) <= 0 BY <2>1, FS_EmptySet DEF NoLostWakeup, Takers
    <2> QED BY <2>2 DEF QInv, TypeOK
  <1>2. Spec => []NoLostWakeup BY WakeupsSuffice
  <1> QED BY <1>1, <1>2, QInvariance, PTL

----------------------------------------------------------------------------
(* The queue of the contract.                                              *)

Wanting == {t \in Threads : op[t] = "pop" /\ pc[t] # "idle"}

\* The mutex makes push, pop and try_pop atomic operations of a first in,
\* first out queue, whoever calls what (all operations of the queue).
THEOREM QueueRefinement == Spec => ImplementsQueue
  <1>1. Init => Fifo!Init BY DEF Init, Fifo!Init
  <1>2. ASSUME QInv, [Next]_vars PROVE [Fifo!Next]_Fifo!vars
    <2>t. /\ queue \in Seq(1 .. MaxPushes)
          /\ pc \in [Threads -> PCs] /\ op \in [Threads -> Ops]
      BY <1>2 DEF QInv, TypeOK
    <2> USE DEF Fifo!vars
    \* A step that leaves the queue and the threads in pop alone.
    <2>0. ASSUME UNCHANGED <<queue, taken>>, Wanting' = Wanting
          PROVE  UNCHANGED Fifo!vars
      BY <2>0 DEF Wanting
    <2>1. CASE UNCHANGED vars BY <2>1 DEF vars
    <2>2. ASSUME NEW t \in Threads, NEW o \in Ops, Call(t, o)
          PROVE  [Fifo!Next]_Fifo!vars
      <3>1. /\ pc[t] = "idle" /\ pc' = [pc EXCEPT ![t] = "lock"]
            /\ op' = [op EXCEPT ![t] = o] /\ UNCHANGED <<queue, taken>>
        BY <2>2 DEF Call
      <3>2. CASE o = "pop"
        <4>1. Wanting' = Wanting \cup {t} BY <2>t, <3>1, <3>2 DEF Wanting
        <4>2. Fifo!Want(t) BY <3>1, <4>1 DEF Fifo!Want, Wanting
        <4> QED BY <4>2 DEF Fifo!Next
      <3>3. CASE o # "pop"
        <4>1. Wanting' = Wanting BY <2>t, <3>1, <3>3 DEF Wanting
        <4> QED BY <2>0, <3>1, <4>1
      <3> QED BY <3>2, <3>3
    <2>3. ASSUME NEW t \in Threads, Acquire(t) PROVE [Fifo!Next]_Fifo!vars
      <3>1. Wanting' = Wanting BY <2>t, <2>3 DEF Acquire, Wanting
      <3> QED BY <2>0, <2>3, <3>1 DEF Acquire
    <2>4. ASSUME NEW t \in Threads, TryLockFails(t) PROVE [Fifo!Next]_Fifo!vars
      <3>1. Wanting' = Wanting BY <2>t, <2>4 DEF TryLockFails, Wanting
      <3> QED BY <2>0, <2>4, <3>1 DEF TryLockFails
    <2>5. ASSUME NEW t \in Threads, Push(t) PROVE [Fifo!Next]_Fifo!vars
      <3>1. /\ op[t] = "push" /\ pc[t] = "inside" /\ op' = op /\ taken' = taken
            /\ queue' = Append(queue, item[t])
        BY <2>5 DEF Push, In
      <3>2. item[t] \in 1 .. MaxPushes
        BY <1>2, <3>1 DEF QInv, CallInv, Pushing
      <3>3. Wanting' = Wanting
        <4>1. CASE pc' = [pc EXCEPT ![t] = "idle"]
          BY <2>t, <3>1, <4>1 DEF Wanting
        <4>2. ASSUME NEW w \in At("wait"),
                     pc' = [pc EXCEPT ![t] = "idle", ![w] = "woken"]
              PROVE  Wanting' = Wanting
          BY <2>t, <3>1, <4>2 DEF Wanting, At
        <4> QED BY <2>5, <4>1, <4>2 DEF Push
      <3>4. Fifo!Push(item[t]) BY <3>1, <3>3 DEF Fifo!Push, Wanting
      <3> QED BY <3>2, <3>4 DEF Fifo!Next
    <2>6. ASSUME NEW t \in Threads, Pop(t) PROVE [Fifo!Next]_Fifo!vars
      <3>1. /\ pc[t] = "read" /\ op' = op /\ pc' = [pc EXCEPT ![t] = "idle"]
            /\ queue # <<>> /\ queue' = Tail(queue) /\ taken' = Append(taken, Head(queue))
        BY <1>2, <2>6, PopFacts
      <3>2. Fifo!Take BY <3>1 DEF Fifo!Take
      <3>3. CASE op[t] = "pop"
        <4>1. t \in Wanting /\ Wanting' = Wanting \ {t}
          BY <2>t, <3>1, <3>3 DEF Wanting
        <4>2. Fifo!Pop(t) BY <3>2, <4>1 DEF Fifo!Pop, Wanting
        <4> QED BY <4>2 DEF Fifo!Next
      <3>4. CASE op[t] # "pop"
        <4>1. Wanting' = Wanting BY <2>t, <3>1, <3>4 DEF Wanting
        <4>2. Fifo!TryPop BY <3>2, <4>1 DEF Fifo!TryPop, Wanting
        <4> QED BY <4>2 DEF Fifo!Next
      <3> QED BY <3>3, <3>4
    <2>7. ASSUME NEW t \in Threads, Wait(t) PROVE [Fifo!Next]_Fifo!vars
      <3>1. Wanting' = Wanting BY <2>t, <2>7 DEF Wait, Wanting
      <3> QED BY <2>0, <2>7, <3>1 DEF Wait
    <2>8. ASSUME NEW t \in Threads, Front(t) PROVE [Fifo!Next]_Fifo!vars
      <3>1. Wanting' = Wanting BY <2>t, <2>8 DEF Front, Wanting
      <3> QED BY <2>0, <2>8, <3>1 DEF Front
    <2>9. ASSUME NEW t \in Threads, Peek(t) PROVE [Fifo!Next]_Fifo!vars
      <3>1. Wanting' = Wanting BY <2>t, <2>9 DEF Peek, In, Return, Wanting
      <3> QED BY <2>0, <2>9, <3>1 DEF Peek
    <2>10. ASSUME NEW t \in Threads, Look(t) PROVE [Fifo!Next]_Fifo!vars
      <3>1. Wanting' = Wanting BY <2>t, <2>10 DEF Look, Return, Wanting
      <3> QED BY <2>0, <2>10, <3>1 DEF Look
    <2>11. ASSUME NEW t \in Threads, SpuriousWakeup(t) PROVE [Fifo!Next]_Fifo!vars
      <3>1. Wanting' = Wanting BY <2>t, <2>11 DEF SpuriousWakeup, Wanting
      <3> QED BY <2>0, <2>11, <3>1 DEF SpuriousWakeup
    <2>12. ASSUME NEW t \in Threads, TryPopFails(t) PROVE [Fifo!Next]_Fifo!vars
      <3>1. Wanting' = Wanting BY <2>t, <2>12 DEF TryPopFails, In, Return, Wanting
      <3> QED BY <2>0, <2>12, <3>1 DEF TryPopFails
    <2> QED
      BY <1>2, <2>1, <2>2, <2>3, <2>4, <2>5, <2>6, <2>7, <2>8, <2>9, <2>10, <2>11,
         <2>12
      DEF Next, Step
  <1>3. QInv /\ [Next]_vars => [Fifo!Next]_Fifo!vars BY <1>2
  <1> QED BY <1>1, <1>3, QInvariance, PTL DEF Spec, ImplementsQueue, Fifo!Spec

----------------------------------------------------------------------------
(* Each item is in one place.                                              *)

Pushers(n) == {t \in Threads : Pushing(t) /\ item[t] = n}

\* How often n is in q.
Count(n, q) == Cardinality(Places(n, q))

\* No item has a number that has not been given out.
NumbersGiven ==
  /\ \A t \in Threads : Pushing(t) => item[t] \in 1 .. pushes
  /\ \A k \in DOMAIN queue : queue[k] <= pushes
  /\ \A k \in DOMAIN taken : taken[k] <= pushes

OnceInv == QInv /\ NumbersGiven /\ EachItemOnce

LEMMA ElementType ==
  ASSUME NEW S, NEW q \in Seq(S), NEW k \in DOMAIN q
  PROVE  q[k] \in S
  OBVIOUS

LEMMA PlacesFinite ==
  ASSUME NEW S, NEW q \in Seq(S), NEW n
  PROVE  IsFiniteSet(Places(n, q)) /\ Count(n, q) \in Nat
  <1>1. Len(q) \in Nat /\ DOMAIN q = 1 .. Len(q) OBVIOUS
  <1>2. IsFiniteSet(1 .. Len(q)) BY <1>1, FS_Interval
  <1>3. Places(n, q) \in SUBSET (1 .. Len(q)) BY <1>1 DEF Places
  <1> QED BY <1>2, <1>3, FS_Subset, FS_CardinalityType DEF Count

\* An appended element has a place of its own.
LEMMA CountAppend ==
  ASSUME NEW S, NEW q \in Seq(S), NEW x \in S, NEW n
  PROVE  Count(n, Append(q, x)) = Count(n, q) + (IF x = n THEN 1 ELSE 0)
  <1>1. /\ Len(q) \in Nat /\ DOMAIN q = 1 .. Len(q)
        /\ DOMAIN Append(q, x) = 1 .. Len(q) + 1
        /\ \A k \in 1 .. Len(q) : Append(q, x)[k] = q[k]
        /\ Append(q, x)[Len(q) + 1] = x
    OBVIOUS
  <1>2. Len(q) + 1 \notin Places(n, q) BY <1>1 DEF Places
  <1>3. CASE x = n
    <2>1. Places(n, Append(q, x)) = Places(n, q) \cup {Len(q) + 1}
      BY <1>1, <1>3 DEF Places
    <2> QED BY <1>2, <1>3, <2>1, PlacesFinite, FS_AddElement DEF Count
  <1>4. CASE x # n
    <2>1. Places(n, Append(q, x)) = Places(n, q)
      BY <1>1, <1>4 DEF Places
    <2>2. Count(n, q) \in Nat BY PlacesFinite
    <2> QED BY <1>4, <2>1, <2>2 DEF Count
  <1> QED BY <1>3, <1>4

\* The places in the tail are those of the queue but the first, one lower.
LEMMA CountTail ==
  ASSUME NEW S, NEW q \in Seq(S), q # <<>>, NEW n
  PROVE  Count(n, q) = Count(n, Tail(q)) + (IF Head(q) = n THEN 1 ELSE 0)
  <1>1. /\ Len(q) \in Nat \ {0} /\ DOMAIN q = 1 .. Len(q)
        /\ Tail(q) \in Seq(S) /\ DOMAIN Tail(q) = 1 .. Len(q) - 1
        /\ \A k \in 1 .. Len(q) - 1 : Tail(q)[k] = q[k + 1]
        /\ Head(q) = q[1]
    OBVIOUS
  <1> DEFINE R == Places(n, Tail(q))
             U == Places(n, q) \ {1}
             f == [k \in R |-> k + 1]
  <1>2. f \in [R -> U] BY <1>1 DEF Places
  <1>3. \A a, b \in R : f[a] = f[b] => a = b BY <1>1 DEF Places
  <1>4. ASSUME NEW u \in U PROVE \E k \in R : f[k] = u
    <2>1. u \in 2 .. Len(q) /\ q[u] = n BY <1>1 DEF Places
    <2>2. u - 1 \in R BY <1>1, <2>1 DEF Places
    <2> QED BY <2>1, <2>2
  <1>5. ExistsBijection(R, U)
    <2>1. DOMAIN f = R OBVIOUS
    <2> HIDE DEF f, R, U
    <2> QED BY <1>2, <1>3, <1>4, <2>1
        DEF ExistsBijection, Bijection, Injection, Surjection, IsInjective
  <1>6. IsFiniteSet(R) /\ Cardinality(R) \in Nat BY <1>1, PlacesFinite DEF Count
  <1>7. Cardinality(U) = Cardinality(R) BY <1>5, <1>6, FS_Bijection
  <1>8. IsFiniteSet(Places(n, q)) /\ Cardinality(Places(n, q)) \in Nat
    BY PlacesFinite DEF Count
  <1>9. 1 \in Places(n, q) <=> Head(q) = n BY <1>1 DEF Places
  <1> HIDE DEF R, U
  <1>10. Cardinality(U) = Cardinality(Places(n, q)) - (IF Head(q) = n THEN 1 ELSE 0)
    <2> DEFINE P == Places(n, q)
    <2>1. IsFiniteSet(P) /\ U = P \ {1} BY <1>8 DEF U
    <2> HIDE DEF P
    <2>2. Cardinality(P \ {1}) = IF 1 \in P THEN Cardinality(P) - 1 ELSE Cardinality(P)
      BY <2>1, FS_RemoveElement
    <2> QED BY <2>1, <2>2, <1>8, <1>9 DEF P
  <1> QED BY <1>6, <1>7, <1>8, <1>10 DEF Count, R

LEMMA PushersFinite ==
  ASSUME NEW n
  PROVE  IsFiniteSet(Pushers(n)) /\ Cardinality(Pushers(n)) \in Nat
  BY TakersFinite DEF Pushers

\* A step that neither begins nor ends a push nor moves an item.
LEMMA OnceKept ==
  ASSUME OnceInv, UNCHANGED <<queue, taken, pushes>>,
         \A t \in Threads : Pushing(t)' <=> Pushing(t),
         \A t \in Threads : Pushing(t) => item'[t] = item[t]
  PROVE  NumbersGiven' /\ EachItemOnce'
  <1>1. \A n : Pushers(n)' = Pushers(n) BY DEF Pushers
  <1>2. Places(0, queue)' = Places(0, queue) BY DEF Places
  <1> QED BY <1>1 DEF OnceInv, NumbersGiven, EachItemOnce, Pushers, Places

\* An item moves from the queue to its taker.
LEMMA OnceTaken ==
  ASSUME OnceInv, queue # <<>>, pushes' = pushes,
         queue' = Tail(queue), taken' = Append(taken, Head(queue)),
         \A t \in Threads : Pushing(t)' <=> Pushing(t),
         \A t \in Threads : Pushing(t) => item'[t] = item[t]
  PROVE  NumbersGiven' /\ EachItemOnce'
  <1> DEFINE S == 1 .. MaxPushes
  <1>1. /\ queue \in Seq(S) /\ taken \in Seq(S) /\ queue # <<>>
        /\ queue' = Tail(queue) /\ taken' = Append(taken, Head(queue))
        /\ pushes \in Nat
    BY QueueConstants DEF OnceInv, QInv, TypeOK
  <1> HIDE DEF S
  <1>2. Head(queue) \in S BY <1>1
  <1>3. NumbersGiven'
    <2>1. /\ \A k \in DOMAIN queue' : k + 1 \in DOMAIN queue /\ queue'[k] = queue[k + 1]
          /\ 1 \in DOMAIN queue /\ Head(queue) = queue[1]
      BY <1>1
    <2>2. \A k \in DOMAIN taken' :
            taken'[k] = Head(queue) \/ (k \in DOMAIN taken /\ taken'[k] = taken[k])
      BY <1>1, <1>2
    <2> QED BY <2>1, <2>2 DEF OnceInv, NumbersGiven
  <1>4. ASSUME NEW n \in 1 .. pushes
        PROVE  Cardinality(Pushers(n)') + Count(n, queue') + Count(n, taken') = 1
    <2>1. Pushers(n)' = Pushers(n) BY DEF Pushers
    <2>2. Cardinality(Pushers(n)) + Count(n, queue) + Count(n, taken) = 1
      BY DEF OnceInv, EachItemOnce, Pushers, Count
    <2>3. Count(n, queue) = Count(n, queue') + (IF Head(queue) = n THEN 1 ELSE 0)
      BY <1>1, CountTail
    <2>4. Count(n, taken') = Count(n, taken) + (IF Head(queue) = n THEN 1 ELSE 0)
      BY <1>1, <1>2, CountAppend
    <2>5. /\ Cardinality(Pushers(n)) \in Nat
          /\ Count(n, queue) \in Nat /\ Count(n, taken) \in Nat
      BY <1>1, PushersFinite, PlacesFinite
    <2>6. Tail(queue) \in Seq(S) /\ Count(n, queue') \in Nat
      BY <1>1, FrontFacts, PlacesFinite
    <2> QED BY <2>1, <2>2, <2>3, <2>4, <2>5, <2>6
  <1> QED BY <1>1, <1>3, <1>4 DEF EachItemOnce, Pushers, Count, Places

LEMMA OnceInit == Init => OnceInv
  <1> SUFFICES ASSUME Init PROVE OnceInv
    OBVIOUS
  <1>1. QInv BY QInit
  <1>2. NumbersGiven BY DEF Init, NumbersGiven, Pushing
  <1>3. EachItemOnce BY DEF Init, EachItemOnce
  <1> QED BY <1>1, <1>2, <1>3 DEF OnceInv

LEMMA OnceStep == OnceInv /\ QInv' /\ [Next]_vars => OnceInv'
  <1> SUFFICES ASSUME OnceInv, QInv', [Next]_vars PROVE NumbersGiven' /\ EachItemOnce'
    BY DEF OnceInv
  <1>t. /\ queue \in Seq(1 .. MaxPushes) /\ taken \in Seq(1 .. MaxPushes)
        /\ pc \in [Threads -> PCs] /\ op \in [Threads -> Ops]
        /\ item \in [Threads -> 0 .. MaxPushes]
        /\ pushes \in Nat
        /\ \A t \in Threads : pc[t] \in {"wait", "woken"} => op[t] \in Blocking
    BY QueueConstants DEF OnceInv, QInv, TypeOK, CallInv
  <1>1. CASE UNCHANGED vars
    <2>1. /\ UNCHANGED <<queue, taken, pushes>>
          /\ \A t \in Threads : Pushing(t)' <=> Pushing(t)
          /\ \A t \in Threads : Pushing(t) => item'[t] = item[t]
      BY <1>1 DEF vars, Pushing
    <2> QED BY <2>1, OnceKept
  <1>2. ASSUME NEW t \in Threads, Call(t, "push") PROVE NumbersGiven' /\ EachItemOnce'
    <2>1. /\ pc[t] = "idle" /\ pc' = [pc EXCEPT ![t] = "lock"]
          /\ op' = [op EXCEPT ![t] = "push"] /\ pushes' = pushes + 1
          /\ item' = [item EXCEPT ![t] = pushes + 1]
          /\ UNCHANGED <<queue, taken>>
      BY <1>2 DEF Call
    <2>2. /\ Pushing(t)' /\ ~ Pushing(t) /\ item'[t] = pushes + 1
          /\ \A u \in Threads \ {t} : (Pushing(u)' <=> Pushing(u)) /\ item'[u] = item[u]
      BY <1>t, <2>1 DEF Pushing
    <2>3. NumbersGiven'
      <3>1. \A u \in Threads : Pushing(u)' => item'[u] \in 1 .. pushes'
        BY <1>t, <2>1, <2>2 DEF OnceInv, NumbersGiven
      <3>2. (\A k \in DOMAIN queue' : queue'[k] <= pushes')
        <4>1. ASSUME NEW k \in DOMAIN queue PROVE queue[k] <= pushes + 1
          <5>1. queue[k] \in 1 .. MaxPushes BY <1>t, ElementType
          <5>2. queue[k] <= pushes BY DEF OnceInv, NumbersGiven
          <5> QED BY <1>t, <5>1, <5>2
        <4> QED BY <2>1, <4>1
      <3>3. (\A k \in DOMAIN taken' : taken'[k] <= pushes')
        <4>1. ASSUME NEW k \in DOMAIN taken PROVE taken[k] <= pushes + 1
          <5>1. taken[k] \in 1 .. MaxPushes BY <1>t, ElementType
          <5>2. taken[k] <= pushes BY DEF OnceInv, NumbersGiven
          <5> QED BY <1>t, <5>1, <5>2
        <4> QED BY <2>1, <4>1
      <3> QED BY <3>1, <3>2, <3>3 DEF NumbersGiven
    <2>4. ASSUME NEW n \in 1 .. pushes'
          PROVE  Cardinality(Pushers(n)') + Count(n, queue) + Count(n, taken) = 1
      <3>1. CASE n = pushes + 1
        <4>1. Pushers(n)' = {t}
          <5>1. \A u \in Threads : u # t /\ Pushing(u)' => item'[u] # n
            BY <1>t, <2>2, <3>1 DEF OnceInv, NumbersGiven
          <5> QED BY <2>2, <3>1, <5>1 DEF Pushers
        <4>2. Places(n, queue) = {} /\ Places(n, taken) = {}
          BY <1>t, <3>1 DEF OnceInv, NumbersGiven, Places
        <4> QED BY <4>1, <4>2, FS_Singleton, FS_EmptySet DEF Count
      <3>2. CASE n # pushes + 1
        <4>1. Pushers(n)' = Pushers(n)
          BY <2>2, <3>2 DEF Pushers
        <4>2. n \in 1 .. pushes BY <1>t, <2>1, <3>2
        <4> QED BY <4>1, <4>2 DEF OnceInv, EachItemOnce, Pushers, Count
      <3> QED BY <3>1, <3>2
    <2> QED BY <2>1, <2>3, <2>4 DEF EachItemOnce, Pushers, Count, Places
  <1>3. ASSUME NEW t \in Threads, Push(t) PROVE NumbersGiven' /\ EachItemOnce'
    <2>1. /\ pc[t] = "inside" /\ op[t] = "push" /\ queue' = Append(queue, item[t])
          /\ UNCHANGED <<op, item, pushes, taken>>
      BY <1>3 DEF Push, In
    <2>2. Pushing(t) /\ item[t] \in 1 .. pushes
      BY <2>1 DEF Pushing, OnceInv, NumbersGiven
    <2>3. ~ Pushing(t)' /\ \A u \in Threads \ {t} : Pushing(u)' <=> Pushing(u)
      <3>1. CASE pc' = [pc EXCEPT ![t] = "idle"]
        BY <1>t, <2>1, <3>1 DEF Pushing
      <3>2. CASE \E w \in At("wait") : pc' = [pc EXCEPT ![t] = "idle", ![w] = "woken"]
        <4>1. PICK w \in At("wait") : pc' = [pc EXCEPT ![t] = "idle", ![w] = "woken"]
          BY <3>2
        <4>2. w \in Threads /\ w # t /\ op[w] # "push"
          BY <1>t, <2>1 DEF At, Blocking
        <4> QED BY <1>t, <2>1, <4>1, <4>2 DEF Pushing, At
      <3> QED BY <1>3, <3>1, <3>2 DEF Push
    <2>4. item[t] \in 1 .. MaxPushes BY <2>2 DEF OnceInv, QInv, CallInv
    <2>5. NumbersGiven'
      <3>1. \A k \in DOMAIN queue' :
              queue'[k] = item[t] \/ (k \in DOMAIN queue /\ queue'[k] = queue[k])
        BY <1>t, <2>1, <2>4
      <3> QED BY <1>t, <2>1, <2>2, <2>3, <3>1 DEF OnceInv, NumbersGiven
    <2>6. ASSUME NEW n \in 1 .. pushes
          PROVE  Cardinality(Pushers(n)') + Count(n, queue') + Count(n, taken) = 1
      <3>1. Cardinality(Pushers(n)) + Count(n, queue) + Count(n, taken) = 1
        BY DEF OnceInv, EachItemOnce, Pushers, Count
      <3>2. Count(n, queue') = Count(n, queue) + (IF item[t] = n THEN 1 ELSE 0)
        BY <1>t, <2>1, <2>4, CountAppend
      <3>3. Pushers(n)' = Pushers(n) \ {t} /\ (t \in Pushers(n) <=> item[t] = n)
        BY <2>1, <2>2, <2>3 DEF Pushers
      <3>4. /\ IsFiniteSet(Pushers(n)) /\ Cardinality(Pushers(n)) \in Nat
            /\ Count(n, queue) \in Nat /\ Count(n, taken) \in Nat
        BY <1>t, PushersFinite, PlacesFinite
      <3>5. Cardinality(Pushers(n)') = Cardinality(Pushers(n)) - (IF item[t] = n THEN 1 ELSE 0)
        <4> DEFINE P == Pushers(n)
        <4>1. IsFiniteSet(P) /\ Pushers(n)' = P \ {t} BY <3>3, <3>4
        <4> HIDE DEF P
        <4>2. Cardinality(P \ {t}) = IF t \in P THEN Cardinality(P) - 1 ELSE Cardinality(P)
          BY <4>1, FS_RemoveElement
        <4> QED BY <4>1, <4>2, <3>3, <3>4 DEF P
      <3> QED BY <3>1, <3>2, <3>4, <3>5
    <2> QED BY <2>1, <2>5, <2>6 DEF EachItemOnce, Pushers, Count, Places
  <1>4. ASSUME NEW t \in Threads, Pop(t) PROVE NumbersGiven' /\ EachItemOnce'
    <2>1. /\ pc[t] = "read" /\ op[t] \in Taking /\ queue # <<>>
          /\ queue' = Tail(queue) /\ taken' = Append(taken, Head(queue))
          /\ op' = op /\ pushes' = pushes /\ item' = [item EXCEPT ![t] = 0]
          /\ pc' = [pc EXCEPT ![t] = "idle"]
      BY <1>4, PopFacts DEF OnceInv
    <2>2. /\ \A u \in Threads : Pushing(u)' <=> Pushing(u)
          /\ \A u \in Threads : Pushing(u) => item'[u] = item[u]
      BY <1>t, <2>1 DEF Pushing, Taking
    <2> QED BY <2>1, <2>2, OnceTaken
  <1>5. ASSUME NEW t \in Threads,
               \/ \E o \in Ops \ {"push"} : Call(t, o)
               \/ Acquire(t) \/ TryLockFails(t) \/ Wait(t) \/ Peek(t) \/ Look(t)
               \/ TryPopFails(t) \/ SpuriousWakeup(t)
        PROVE  NumbersGiven' /\ EachItemOnce'
    <2>1. CASE \E o \in Ops \ {"push"} : Call(t, o)
      <3>1. PICK o \in Ops \ {"push"} : Call(t, o) BY <2>1
      <3>2. /\ UNCHANGED <<queue, taken, pushes, item>> /\ pc[t] = "idle"
            /\ pc' = [pc EXCEPT ![t] = "lock"] /\ op' = [op EXCEPT ![t] = o]
        BY <3>1 DEF Call
      <3>3. \A u \in Threads : Pushing(u)' <=> Pushing(u)
        BY <1>t, <3>2 DEF Pushing
      <3> QED BY <3>2, <3>3, OnceKept
    <2>2. CASE Acquire(t) \/ TryLockFails(t) \/ Wait(t) \/ Peek(t) \/ Look(t)
               \/ TryPopFails(t) \/ SpuriousWakeup(t)
      <3>1. UNCHANGED <<queue, taken, pushes, item, op>>
        BY <2>2 DEF Acquire, TryLockFails, Wait, Peek, Look, TryPopFails, SpuriousWakeup
      <3>2. \A u \in Threads : Pushing(u)' <=> Pushing(u)
        BY <1>t, <2>2, <3>1
        DEF Acquire, TryLockFails, Wait, Peek, Look, TryPopFails, In, Return, SpuriousWakeup,
            Pushing, Blocking
      <3> QED BY <3>1, <3>2, OnceKept
    <2> QED BY <1>5, <2>1, <2>2
  <1>6. ASSUME NEW t \in Threads, NEW o \in Ops, Call(t, o)
        PROVE  NumbersGiven' /\ EachItemOnce'
    BY <1>2, <1>5, <1>6
  <1>7. ASSUME NEW t \in Threads, Front(t) PROVE NumbersGiven' /\ EachItemOnce'
    <2>1. /\ pc[t] = "inside" /\ op[t] \in Taking
          /\ pc' = [pc EXCEPT ![t] = "read"] /\ item' = [item EXCEPT ![t] = Head(queue)]
          /\ UNCHANGED <<queue, op, pushes, taken>>
      BY <1>7 DEF Front
    <2>2. /\ \A u \in Threads : Pushing(u)' <=> Pushing(u)
          /\ \A u \in Threads : Pushing(u) => item'[u] = item[u]
      BY <1>t, <2>1 DEF Pushing, Taking
    <2> QED BY <2>1, <2>2, OnceKept
  <1> QED BY <1>1, <1>3, <1>4, <1>5, <1>6, <1>7 DEF Next, Step

\* No item is lost and none is delivered twice, for any threads and calls.
THEOREM ItemsOnce == Spec => []EachItemOnce
  <1>1. OnceInv => EachItemOnce BY DEF OnceInv
  <1> QED BY <1>1, OnceInit, OnceStep, QInvariance, PTL DEF Spec
============================================================================
