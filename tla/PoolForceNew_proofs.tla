------------------------ MODULE PoolForceNew_proofs ------------------------
(***************************************************************************)
(* For any number of threads and types: the word never turns, and a block  *)
(* goes back the way it came.  Neither is inductive alone: Decided adds    *)
(* that threads which race have the answer the word already shows, and     *)
(* that the word is not zero once a block has been routed by it.           *)
(***************************************************************************)
EXTENDS PoolForceNew, FiniteSetTheorems, TLAPS

\* Threads in a race have, or will get, one answer, and it is the sign of the
\* word if one of them has added to it already.
RacersAgree ==
  \A t \in Threads :
    /\ pc[t] = "add" => answer[t] = env
    /\ Racing(t) /\ forceNew[call[t].type] > 0 => env
    /\ Racing(t) /\ forceNew[call[t].type] < 0 => ~env

\* Past the initialisation the word is not zero, and what a thread has read
\* of it still holds.
ReadingsHold ==
  \A t \in Threads :
    /\ pc[t] \in {"route", "take"} => forceNew[call[t].type] # 0
    /\ pc[t] = "take" => way[t] = Way(call[t])

\* The word of a live block's type is not zero, and says the way it came.
BlocksHold ==
  \A b \in live : forceNew[b.call.type] # 0 /\ b.way = Way(b.call)

Decided == TypeOK /\ RacersAgree /\ ReadingsHold /\ BlocksHold

\* What a step does to the words when it leaves their signs as they are once
\* they have one.
SignsKept ==
  \A T \in Types :
    /\ forceNew[T] > 0 => forceNew'[T] > 0
    /\ forceNew[T] < 0 => forceNew'[T] < 0

----------------------------------------------------------------------------
\* Initially no word has a sign, no thread is in allocate and no block lives.
LEMMA InitDecided == Init => Decided
  BY DEF Init, Decided, TypeOK, RacersAgree, ReadingsHold, BlocksHold, Racing,
         PCs, Calls, Blocks, Ways

\* While the words keep their signs, the blocks that lived keep their way.
LEMMA BlocksKept ==
  ASSUME Decided, SignsKept, forceNew' \in [Types -> Int]
  PROVE  \A b \in live : forceNew'[b.call.type] # 0 /\ b.way = Way(b.call)'
  BY DEF Decided, SignsKept, TypeOK, BlocksHold, Blocks, Calls, Way

\* An add goes the way of the word, if it has one.
LEMMA AddKeepsSigns ==
  ASSUME Decided, NEW t \in Threads, Add(t)
  PROVE  SignsKept /\ forceNew' \in [Types -> Int] /\ forceNew'[call[t].type] # 0
  <1>1. call[t].type \in Types /\ answer[t] \in BOOLEAN
    BY DEF Decided, TypeOK, Calls
  <1>2. /\ answer[t] = env
        /\ forceNew[call[t].type] > 0 => env
        /\ forceNew[call[t].type] < 0 => ~env
    BY DEF Add, Decided, RacersAgree, Racing
  <1>3. /\ answer[t] => forceNew[call[t].type] >= 0
        /\ ~answer[t] => forceNew[call[t].type] <= 0
    BY <1>1, <1>2 DEF Decided, TypeOK
  <1>4. CASE answer[t]
    BY <1>1, <1>3, <1>4 DEF Add, Decided, TypeOK, SignsKept
  <1>5. CASE ~answer[t]
    BY <1>1, <1>3, <1>5 DEF Add, Decided, TypeOK, SignsKept
  <1> QED BY <1>1, <1>4, <1>5

----------------------------------------------------------------------------
\* Every step of a thread keeps the invariant, by the step it is.
LEMMA StepDecided ==
  ASSUME Decided, NEW t \in Threads, Step(t)
  PROVE  Decided'
  <1> USE DEF Decided
  <1>1. ASSUME NEW c \in Calls, Check(t, c) PROVE Decided'
    <2>1. TypeOK' BY <1>1 DEF Check, TypeOK, PCs
    <2>2. RacersAgree'
      BY <1>1 DEF Check, TypeOK, Calls, RacersAgree, Racing
    <2>3. ReadingsHold' BY <1>1 DEF Check, TypeOK, Calls, ReadingsHold, Way
    <2>4. BlocksHold' BY <1>1 DEF Check, BlocksHold, Way
    <2> QED BY <2>1, <2>2, <2>3, <2>4
  <1>2. CASE Ask(t)
    <2>1. TypeOK' BY <1>2 DEF Ask, TypeOK, PCs
    <2>2. RacersAgree' BY <1>2 DEF Ask, TypeOK, RacersAgree, Racing
    <2>3. ReadingsHold' BY <1>2 DEF Ask, TypeOK, ReadingsHold, Way
    <2>4. BlocksHold' BY <1>2 DEF Ask, BlocksHold, Way
    <2> QED BY <2>1, <2>2, <2>3, <2>4
  <1>3. CASE Add(t)
    <2>0. SignsKept /\ forceNew' \in [Types -> Int] /\ forceNew'[call[t].type] # 0
      BY <1>3, AddKeepsSigns
    <2>1. TypeOK' BY <1>3, <2>0 DEF Add, TypeOK, PCs
    <2>2. RacersAgree'
      <3> SUFFICES ASSUME NEW u \in Threads
                   PROVE  /\ (pc[u] = "add" => answer[u] = env)'
                          /\ (Racing(u) /\ forceNew[call[u].type] > 0 => env)'
                          /\ (Racing(u) /\ forceNew[call[u].type] < 0 => ~env)'
        BY DEF RacersAgree
      <3>1. CASE u = t BY <1>3, <3>1 DEF Add, TypeOK, Racing
      <3>2. CASE u # t /\ call[u].type = call[t].type
        <4>1. answer[t] = env BY <1>3 DEF Add, RacersAgree
        <4>2. /\ env => forceNew'[call[t].type] = forceNew[call[t].type] + 1
              /\ ~env => forceNew'[call[t].type] = forceNew[call[t].type] - 1
          BY <1>3, <4>1 DEF Add, TypeOK, Calls
        <4>3. /\ forceNew[call[t].type] > 0 => env
              /\ forceNew[call[t].type] < 0 => ~env
          BY <1>3 DEF Add, RacersAgree, Racing
        <4>4. /\ forceNew'[call[t].type] > 0 => env
              /\ forceNew'[call[t].type] < 0 => ~env
          BY <4>2, <4>3 DEF TypeOK, Calls
        <4> QED BY <1>3, <3>2, <4>4 DEF Add, TypeOK, RacersAgree, Racing
      <3>3. CASE u # t /\ call[u].type # call[t].type
        BY <1>3, <3>3 DEF Add, TypeOK, Calls, RacersAgree, Racing
      <3> QED BY <3>1, <3>2, <3>3
    <2>3. ReadingsHold'
      <3> SUFFICES ASSUME NEW u \in Threads
                   PROVE  /\ (pc[u] \in {"route", "take"} => forceNew[call[u].type] # 0)'
                          /\ (pc[u] = "take" => way[u] = Way(call[u]))'
        BY DEF ReadingsHold
      <3>1. CASE u = t BY <1>3, <2>0, <3>1 DEF Add, TypeOK
      <3>2. CASE u # t
        BY <1>3, <2>0, <3>2 DEF Add, TypeOK, Calls, ReadingsHold, SignsKept, Way
      <3> QED BY <3>1, <3>2
    <2>4. BlocksHold' BY <1>3, <2>0, BlocksKept DEF Add, BlocksHold
    <2> QED BY <2>1, <2>2, <2>3, <2>4
  <1>4. CASE Route(t)
    <2>1. TypeOK' BY <1>4 DEF Route, TypeOK, PCs, Ways, Way
    <2>2. RacersAgree' BY <1>4 DEF Route, TypeOK, RacersAgree, Racing
    <2>3. ReadingsHold' BY <1>4 DEF Route, TypeOK, ReadingsHold, Way
    <2>4. BlocksHold' BY <1>4 DEF Route, BlocksHold, Way
    <2> QED BY <2>1, <2>2, <2>3, <2>4
  <1>5. CASE Take(t)
    <2>0. PICK a \in Addresses :
            live' = live \cup {[at |-> a, call |-> call[t], way |-> way[t]]}
      BY <1>5 DEF Take
    <2>1. TypeOK'
      <3>1. way[t] \in Ways
        BY <1>5 DEF Take, TypeOK, ReadingsHold, Way, Ways
      <3> QED BY <1>5, <2>0, <3>1 DEF Take, TypeOK, PCs, Blocks
    <2>2. RacersAgree' BY <1>5 DEF Take, TypeOK, RacersAgree, Racing
    <2>3. ReadingsHold' BY <1>5 DEF Take, TypeOK, ReadingsHold, Way
    <2>4. BlocksHold' BY <1>5, <2>0 DEF Take, TypeOK, ReadingsHold, BlocksHold, Way
    <2> QED BY <2>1, <2>2, <2>3, <2>4
  <1>6. CASE TakeFails(t)
    <2>1. TypeOK' BY <1>6 DEF TakeFails, TypeOK, PCs
    <2>2. RacersAgree' BY <1>6 DEF TakeFails, TypeOK, RacersAgree, Racing
    <2>3. ReadingsHold' BY <1>6 DEF TakeFails, TypeOK, ReadingsHold, Way
    <2>4. BlocksHold' BY <1>6 DEF TakeFails, BlocksHold, Way
    <2> QED BY <2>1, <2>2, <2>3, <2>4
  <1> QED BY <1>1, <1>2, <1>3, <1>4, <1>5, <1>6 DEF Step

\* And so does every other step.
LEMMA NextDecided == Decided /\ [Next]_vars => Decided'
  <1> SUFFICES ASSUME Decided, [Next]_vars PROVE Decided'
    OBVIOUS
  <1>1. ASSUME NEW t \in Threads, Step(t) PROVE Decided'
    BY <1>1, StepDecided
  <1>2. ASSUME NEW b \in live, Deallocate(b) PROVE Decided'
    BY <1>2 DEF Deallocate, Decided, TypeOK, RacersAgree, ReadingsHold, BlocksHold,
                Racing, Way
  <1>3. CASE ChangeEnv
    BY <1>3 DEF ChangeEnv, Decided, TypeOK, RacersAgree, ReadingsHold, BlocksHold,
                Racing, Way
  <1>4. CASE UNCHANGED vars
    BY <1>4 DEF vars, Decided, TypeOK, RacersAgree, ReadingsHold, BlocksHold,
                Racing, Way
  <1> QED BY <1>1, <1>2, <1>3, <1>4 DEF Next

LEMMA AlwaysDecided == Spec => []Decided
  BY InitDecided, NextDecided, PTL DEF Spec

----------------------------------------------------------------------------
\* The word stays a number and a block's way one of the two, whatever the
\* threads of allocate do.
THEOREM TypeCorrect == Spec => []TypeOK
  BY AlwaysDecided, PTL DEF Decided

\* deallocate sends every block back the way allocate took it, for any number
\* of threads, types and blocks.
THEOREM SameWayBack == Spec => []GoesBackAsItCame
  <1>1. Decided => GoesBackAsItCame
    BY DEF Decided, BlocksHold, GoesBackAsItCame
  <1> QED BY <1>1, AlwaysDecided, PTL

\* The sign of _S_force_new is the first answer of the environment, for ever.
THEOREM WordNeverTurns == Spec => FirstAnswerStands
  <1> DEFINE Kept ==
        \A T \in Types :
          forceNew'[T] > 0 <=> forceNew[T] > 0 \/ (forceNew[T] = 0 /\ forceNew'[T] # 0 /\ env)
  <1>1. Decided /\ [Next]_vars => [Kept]_vars
    <2> SUFFICES ASSUME Decided, Next PROVE Kept
      OBVIOUS
    <2>1. CASE forceNew' = forceNew
      BY <2>1 DEF Decided, TypeOK
    <2>2. ASSUME NEW t \in Threads, Add(t) PROVE Kept
      <3>1. SignsKept /\ forceNew' \in [Types -> Int]
        BY <2>2, AddKeepsSigns
      <3>2. answer[t] = env
        BY <2>2 DEF Add, Decided, RacersAgree
      <3>3. \A T \in Types : forceNew[T] = 0 /\ forceNew'[T] # 0 => (forceNew'[T] > 0 <=> env)
        BY <2>2, <3>2 DEF Add, Decided, TypeOK, Calls
      <3> QED BY <3>1, <3>3 DEF Decided, TypeOK, SignsKept
    <2> QED
      BY <2>1, <2>2 DEF Next, Step, Check, Ask, Route, Take, TakeFails, Deallocate, ChangeEnv
  <1> QED BY <1>1, AlwaysDecided, PTL DEF Spec, FirstAnswerStands

----------------------------------------------------------------------------
(* How far the word gets from zero.  Only a thread that is racing adds to  *)
(* it, once, and no thread begins to race once it is not zero: the threads *)
(* that still race are what it may yet move by.                            *)

Racers(T) == {t \in Threads : Racing(t) /\ call[t].type = T}

Room(T) ==
  /\ forceNew[T] + Cardinality(Racers(T)) <= Cardinality(Threads)
  /\ -forceNew[T] + Cardinality(Racers(T)) <= Cardinality(Threads)

Bounded == TypeOK /\ \A T \in Types : Room(T)

\* A set of threads is finite, and not larger than one it is part of.
LEMMA ThreadCount ==
  ASSUME NEW R \in SUBSET Threads, NEW S \in SUBSET R
  PROVE  /\ IsFiniteSet(S) /\ Cardinality(S) \in Nat /\ Cardinality(R) \in Nat
         /\ Cardinality(S) <= Cardinality(R)
         /\ Cardinality(R) <= Cardinality(Threads) /\ Cardinality(Threads) \in Nat
  BY FiniteThreads, FS_Subset, FS_CardinalityType

\* A step that leaves the word of T alone and lets no thread begin to race.
LEMMA RoomKept ==
  ASSUME TypeOK, NEW T \in Types, Room(T),
         forceNew'[T] = forceNew[T], Racers(T)' \subseteq Racers(T)
  PROVE  Room(T)'
  <1>1. /\ Cardinality(Racers(T)') <= Cardinality(Racers(T))
        /\ Cardinality(Racers(T)') \in Nat /\ Cardinality(Racers(T)) \in Nat
        /\ Cardinality(Threads) \in Nat
    BY ThreadCount DEF Racers
  <1>2. forceNew[T] \in Int BY DEF TypeOK
  <1> QED BY <1>1, <1>2 DEF Room

LEMMA InitBounded == Init => Bounded
  <1> SUFFICES ASSUME Init PROVE Bounded
    OBVIOUS
  <1>1. TypeOK BY InitDecided DEF Decided
  <1>2. ASSUME NEW T \in Types PROVE Room(T)
    <2>1. Racers(T) = {} BY DEF Init, Racers, Racing
    <2>2. Cardinality(Racers(T)) = 0 BY <2>1, FS_EmptySet
    <2> QED BY <2>2, ThreadCount DEF Init, Room
  <1> QED BY <1>1, <1>2 DEF Bounded

\* By the kind of step: a thread may begin to race, or add, or neither.
LEMMA NextBounded == TypeOK' /\ Bounded /\ [Next]_vars => Bounded'
  <1> SUFFICES ASSUME TypeOK', Bounded, [Next]_vars, NEW T \in Types PROVE Room(T)'
    BY DEF Bounded
  <1> USE DEF Bounded
  <1>1. ASSUME NEW t \in Threads, NEW c \in Calls, Check(t, c) PROVE Room(T)'
    <2>1. forceNew' = forceNew BY <1>1 DEF Check
    <2>2. CASE forceNew[T] = 0
      <3>1. /\ Cardinality(Racers(T)') <= Cardinality(Threads)
            /\ Cardinality(Racers(T)') \in Nat /\ Cardinality(Threads) \in Nat
        BY ThreadCount DEF Racers
      <3> QED BY <2>1, <2>2, <3>1 DEF Room
    <2>3. CASE forceNew[T] # 0
      <3>1. Racers(T)' \subseteq Racers(T)
        BY <1>1, <2>3 DEF Check, Racers, Racing, TypeOK
      <3> QED BY <2>1, <3>1, RoomKept
    <2> QED BY <2>2, <2>3
  <1>2. ASSUME NEW t \in Threads, Add(t) PROVE Room(T)'
    <2>1. CASE call[t].type = T
      <3>1. /\ t \in Racers(T) /\ Racers(T)' = Racers(T) \ {t}
        BY <1>2, <2>1 DEF Add, Racers, Racing, TypeOK
      <3>2. /\ Cardinality(Racers(T)') = Cardinality(Racers(T)) - 1
            /\ Cardinality(Racers(T)) \in Nat /\ Cardinality(Threads) \in Nat
        BY <3>1, ThreadCount, FS_RemoveElement DEF Racers
      <3>3. /\ forceNew[T] \in Int
            /\ forceNew'[T] = forceNew[T] + 1 \/ forceNew'[T] = forceNew[T] - 1
        BY <1>2, <2>1 DEF Add, TypeOK
      <3> QED BY <3>2, <3>3 DEF Room
    <2>2. CASE call[t].type # T
      <3>1. forceNew'[T] = forceNew[T] /\ Racers(T)' \subseteq Racers(T)
        BY <1>2, <2>2 DEF Add, Racers, Racing, TypeOK
      <3> QED BY <3>1, RoomKept
    <2> QED BY <2>1, <2>2
  <1>3. ASSUME NEW t \in Threads, Ask(t) \/ Route(t) \/ Take(t) \/ TakeFails(t)
        PROVE  Room(T)'
    <2>1. forceNew' = forceNew /\ Racers(T)' \subseteq Racers(T)
      BY <1>3 DEF Ask, Route, Take, TakeFails, Racers, Racing, TypeOK
    <2> QED BY <2>1, RoomKept
  <1>4. CASE (\E b \in live : Deallocate(b)) \/ ChangeEnv \/ UNCHANGED vars
    <2>1. forceNew' = forceNew /\ Racers(T)' \subseteq Racers(T)
      BY <1>4 DEF Deallocate, ChangeEnv, vars, Racers, Racing
    <2> QED BY <2>1, RoomKept
  <1> QED BY <1>1, <1>2, <1>3, <1>4 DEF Next, Step

\* However many threads race, none adds twice for a type: the word stays as
\* near to zero as there are threads.
THEOREM WordStaysNear == Spec => []WordBounded
  <1>1. Bounded => WordBounded
    <2> SUFFICES ASSUME Bounded, NEW T \in Types
                 PROVE  forceNew[T] \in -Cardinality(Threads) .. Cardinality(Threads)
      BY DEF WordBounded
    <2>1. Cardinality(Racers(T)) \in Nat /\ Cardinality(Threads) \in Nat
      BY ThreadCount DEF Racers
    <2> QED BY <2>1 DEF Bounded, Room, TypeOK
  <1> QED BY <1>1, InitBounded, NextBounded, TypeCorrect, PTL DEF Spec
============================================================================
