---------------------------- MODULE PoolForceNew ----------------------------
(***************************************************************************)
(* _S_force_new, the word that sends the small blocks of one type to       *)
(* operator new instead of the pool (stl/include/ext/pool_allocator.h).    *)
(* It is zero until the first allocation of the type asks the environment, *)
(* and no lock protects it: threads may find it zero together, and each of *)
(* them then adds its own answer.  allocate and deallocate read the word   *)
(* at different times, and a block must go back the way it came.           *)
(*                                                                         *)
(* Where the blocks of the pool come from is PoolAlloc; here a block is an *)
(* address with the call that asked for it and the way it came.            *)
(***************************************************************************)
EXTENDS Integers, FiniteSets

CONSTANTS
  Threads,
  Types,       \* the instances of __pool_alloc, each with a word of its own
  Addresses    \* of blocks, from operator new and from the pool

ASSUME FiniteThreads == IsFiniteSet(Threads)

Ways == {"new", "pool"}

\* A call: its type, and whether its size is at most _S_max_bytes.
Calls == [type : Types, small : BOOLEAN]

Blocks == [at : Addresses, call : Calls, way : Ways]

VARIABLES
  env,       \* whether GLIBCXX_FORCE_NEW is in the environment
  forceNew,  \* _S_force_new of each type
  pc,        \* where a thread is in allocate
  call,      \* the allocation a thread is in, or was in last
  answer,    \* what getenv last told a thread
  way,       \* what a thread last read the word to mean, or "none"
  live       \* the blocks clients hold

vars == <<env, forceNew, pc, call, answer, way, live>>

\* "idle"  not in allocate
\* "ask"   found the word zero
\* "add"   has the answer of getenv
\* "route" past the initialisation, to read the word once more
\* "take"  knows which way to go
PCs == {"idle", "ask", "add", "route", "take"}

\* Thread t has found the word zero and has not added to it yet.
Racing(t) == pc[t] \in {"ask", "add"}

\* The way call c goes for what the word of its type says now.
Way(c) == IF ~c.small \/ forceNew[c.type] > 0 THEN "new" ELSE "pool"

----------------------------------------------------------------------------
Init ==
  /\ env \in BOOLEAN
  /\ forceNew = [T \in Types |-> 0]
  /\ pc = [t \in Threads |-> "idle"]
  /\ call \in [Threads -> Calls]
  /\ answer = [t \in Threads |-> FALSE]
  /\ way = [t \in Threads |-> "none"]
  /\ live = {}

\* mutant: a call that finds the pool chosen asks again.
CheckUnlessForced(t, c) ==
  /\ pc[t] = "idle"
  /\ call' = [call EXCEPT ![t] = c]
  /\ pc' = [pc EXCEPT ![t] = IF forceNew[c.type] <= 0 THEN "ask" ELSE "route"]
  /\ UNCHANGED <<env, forceNew, answer, way, live>>

\* allocate(c): is the word still zero?
Check(t, c) ==
  /\ pc[t] = "idle"
  /\ call' = [call EXCEPT ![t] = c]
  /\ pc' = [pc EXCEPT ![t] = IF forceNew[c.type] = 0 THEN "ask" ELSE "route"]
  /\ UNCHANGED <<env, forceNew, answer, way, live>>

\* getenv.
Ask(t) ==
  /\ pc[t] = "ask"
  /\ answer' = [answer EXCEPT ![t] = env]
  /\ pc' = [pc EXCEPT ![t] = "add"]
  /\ UNCHANGED <<env, forceNew, call, way, live>>

\* mutant: both answers count up.
AddUp(t) ==
  /\ pc[t] = "add"
  /\ forceNew' = [forceNew EXCEPT ![call[t].type] = @ + 1]
  /\ pc' = [pc EXCEPT ![t] = "route"]
  /\ UNCHANGED <<env, call, answer, way, live>>

\* __atomic_add_dispatch of the answer.
Add(t) ==
  /\ pc[t] = "add"
  /\ forceNew' = [forceNew EXCEPT ![call[t].type] = @ + IF answer[t] THEN 1 ELSE -1]
  /\ pc' = [pc EXCEPT ![t] = "route"]
  /\ UNCHANGED <<env, call, answer, way, live>>

\* The word decides, together with the size, where the block will come from.
Route(t) ==
  /\ pc[t] = "route"
  /\ way' = [way EXCEPT ![t] = Way(call[t])]
  /\ pc' = [pc EXCEPT ![t] = "take"]
  /\ UNCHANGED <<env, forceNew, call, answer, live>>

\* mutant: the block is taken before the word is read.
TakeUnrouted(t) ==
  /\ pc[t] = "route"
  /\ pc' = [pc EXCEPT ![t] = "idle"]
  /\ \E a \in Addresses :
       /\ \A b \in live : b.at # a
       /\ live' = live \cup {[at |-> a, call |-> call[t], way |-> way[t]]}
  /\ UNCHANGED <<env, forceNew, call, answer, way>>

\* A block at an address no live block has (PoolAlloc, and operator new).
Take(t) ==
  /\ pc[t] = "take"
  /\ pc' = [pc EXCEPT ![t] = "idle"]
  /\ \E a \in Addresses :
       /\ \A b \in live : b.at # a
       /\ live' = live \cup {[at |-> a, call |-> call[t], way |-> way[t]]}
  /\ UNCHANGED <<env, forceNew, call, answer, way>>

\* bad_alloc, from either way.
TakeFails(t) ==
  /\ pc[t] = "take"
  /\ pc' = [pc EXCEPT ![t] = "idle"]
  /\ UNCHANGED <<env, forceNew, call, answer, way, live>>

\* deallocate by the client that holds b, whichever way the word says then:
\* GoesBackAsItCame says it is the way b came.
Deallocate(b) ==
  /\ b \in live
  /\ live' = live \ {b}
  /\ UNCHANGED <<env, forceNew, pc, call, answer, way>>

\* The program changes its environment, but not while threads race through
\* a first allocation: what allocate's comment assumes when it has getenv
\* "resolve in same direction".
ChangeEnv ==
  /\ \A t \in Threads : ~Racing(t)
  /\ env' = ~env
  /\ UNCHANGED <<forceNew, pc, call, answer, way, live>>

Step(t) ==
  \/ \E c \in Calls : Check(t, c)
  \/ Ask(t)
  \/ Add(t)
  \/ Route(t)
  \/ Take(t)
  \/ TakeFails(t)

Next ==
  \/ \E t \in Threads : Step(t)
  \/ \E b \in live : Deallocate(b)
  \/ ChangeEnv

Spec == Init /\ [][Next]_vars

----------------------------------------------------------------------------
\* The words are numbers and the rest is what the comments above say.
TypeOK ==
  /\ env \in BOOLEAN
  /\ forceNew \in [Types -> Int]
  /\ pc \in [Threads -> PCs]
  /\ call \in [Threads -> Calls]
  /\ answer \in [Threads -> BOOLEAN]
  /\ way \in [Threads -> Ways \cup {"none"}]
  /\ live \subseteq Blocks

\* A live block would go back the way it came, in any state: deallocate reads
\* the word anew, and threads may have added to it since allocate read it.
GoesBackAsItCame == \A b \in live : b.way = Way(b.call)

\* The first answer added to a word is what the environment says then, and
\* whatever is added later, and however the environment changes, the word
\* keeps that sign: no add takes it back to zero or beyond.
FirstAnswerStands ==
  [][\A T \in Types :
       forceNew'[T] > 0 <=> forceNew[T] > 0 \/ (forceNew[T] = 0 /\ forceNew'[T] # 0 /\ env)]_vars

\* As many threads as there are can race, and none of them twice for a type:
\* the word stays as near to zero as that.
WordBounded ==
  \A T \in Types : forceNew[T] \in -Cardinality(Threads) .. Cardinality(Threads)
============================================================================
