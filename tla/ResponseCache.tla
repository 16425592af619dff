---------------------------- MODULE ResponseCache ----------------------------
(******************************************************************************)
(* ResponseCache.get_or_compute of the Python agent: the worker threads of    *)
(* the gRPC server share one LRU cache of responses, keyed by method and      *)
(* request.  The backend sends a request again when a call timed out; the     *)
(* second call must wait for the first one's computation, or find its result, *)
(* instead of running the agents a second time.                               *)
(*                                                                            *)
(* What a thread does while it holds the lock is one action.                  *)
(******************************************************************************)
EXTENDS Naturals, FiniteSets

CONSTANTS
  Threads,   \* the workers of the gRPC server
  Keys,      \* requests that differ
  None,
  MaxSize,   \* idempotency_cache_size
  MaxCalls   \* bound: calls made

ASSUME CacheAssumption ==
  /\ MaxSize \in Nat \ {0} /\ MaxCalls \in Nat
  /\ IsFiniteSet(Keys) /\ None \notin Threads \cup Keys

VARIABLES
  rank,      \* _responses: a cached key's place in the OrderedDict, 1 being
             \*   the oldest; 0 for the others
  inflight,  \* _inflight: the thread whose Event is registered for the key
  thread,    \* per thread: pc, the key of its call, whose Event it waits for
  calls,     \* calls made so far
  computed,  \* history, per key: computations begun,
  undone     \*   and computations that failed or whose result was evicted

vars == <<rank, inflight, thread, calls, computed, undone>>

Idle == [pc |-> "idle", key |-> None, waits |-> None]
PCs  == {"idle", "look", "wait", "compute", "release"}

Init ==
  /\ rank = [k \in Keys |-> 0]
  /\ inflight = [k \in Keys |-> None]
  /\ thread = [t \in Threads |-> Idle]
  /\ calls = 0
  /\ computed = [k \in Keys |-> 0]
  /\ undone = [k \in Keys |-> 0]

--------------------------------------------------------------------------------
At(t, pc)   == thread[t].pc = pc
Goto(t, pc) == thread' = [thread EXCEPT ![t].pc = pc]

Cached == {k \in Keys : rank[k] > 0}
Size   == Cardinality(Cached)

(* move_to_end of a cached key.                                               *)
MoveToEnd(k) ==
  [j \in Keys |-> IF j = k THEN Size ELSE IF rank[j] > rank[k] THEN rank[j] - 1 ELSE rank[j]]

(* A new key at the end; above max_size, popitem(last=False).                 *)
Full == Size >= MaxSize
Add(k) ==
  [j \in Keys |->
     IF j = k THEN (IF Full THEN Size ELSE Size + 1)
     ELSE IF Full /\ rank[j] > 0 THEN rank[j] - 1 ELSE rank[j]]
Evicted(k) == {j \in Keys \ {k} : Full /\ rank[j] = 1}

Call(t, k) ==
  /\ At(t, "idle") /\ calls < MaxCalls
  /\ calls' = calls + 1
  /\ thread' = [thread EXCEPT ![t] = [pc |-> "look", key |-> k, waits |-> None]]
  /\ UNCHANGED <<rank, inflight, computed, undone>>

LookSlip(t) ==
  LET k == thread[t].key IN
  /\ At(t, "look")
  /\ IF k \in Cached
     THEN /\ rank' = MoveToEnd(k)
          /\ thread' = [thread EXCEPT ![t] = Idle]
          /\ UNCHANGED <<inflight, computed>>
     ELSE /\ inflight' = [inflight EXCEPT ![k] = t]
          /\ computed' = [computed EXCEPT ![k] = @ + 1]
          /\ Goto(t, "compute") /\ UNCHANGED rank
  /\ UNCHANGED <<calls, undone>>

(* The critical section at the top of the loop: a hit, a computation to wait  *)
(* for, or one to begin.                                                      *)
Look(t) ==
  LET k == thread[t].key IN
  /\ At(t, "look")
  /\ \/ /\ k \in Cached
        /\ rank' = MoveToEnd(k)
        /\ thread' = [thread EXCEPT ![t] = Idle]
        /\ UNCHANGED <<inflight, computed>>
     \/ /\ k \notin Cached /\ inflight[k] # None
        /\ thread' = [thread EXCEPT ![t].pc = "wait", ![t].waits = inflight[k]]
        /\ UNCHANGED <<rank, inflight, computed>>
     \/ /\ k \notin Cached /\ inflight[k] = None
        /\ inflight' = [inflight EXCEPT ![k] = t]
        /\ computed' = [computed EXCEPT ![k] = @ + 1]
        /\ Goto(t, "compute") /\ UNCHANGED rank
  /\ UNCHANGED <<calls, undone>>

StoreSlip(t) ==
  /\ At(t, "compute")
  /\ Goto(t, "release")
  /\ UNCHANGED <<rank, inflight, calls, computed, undone>>

UnboundedStoreSlip(t) ==
  /\ At(t, "compute")
  /\ rank' = [rank EXCEPT ![thread[t].key] = Size + 1]
  /\ Goto(t, "release")
  /\ UNCHANGED <<inflight, calls, computed, undone>>

(* The computation returns, and its response is stored.                       *)
Store(t) ==
  LET k == thread[t].key IN
  /\ At(t, "compute")
  /\ rank' = IF k \in Cached THEN MoveToEnd(k) ELSE Add(k)
  /\ undone' = [j \in Keys |->
                  IF k \notin Cached /\ j \in Evicted(k) THEN undone[j] + 1 ELSE undone[j]]
  /\ Goto(t, "release")
  /\ UNCHANGED <<inflight, calls, computed>>

(* The computation raises, on its way through finally to the caller.          *)
Raise(t) ==
  /\ At(t, "compute")
  /\ undone' = [undone EXCEPT ![thread[t].key] = @ + 1]
  /\ Goto(t, "release")
  /\ UNCHANGED <<rank, inflight, calls, computed>>

ReleaseSlip(t) ==
  /\ At(t, "release")
  /\ inflight' = [inflight EXCEPT ![thread[t].key] = None]
  /\ thread' = [thread EXCEPT ![t] = Idle]
  /\ UNCHANGED <<rank, calls, computed, undone>>

(* finally: the Event is taken out and set, which wakes those that wait for   *)
(* it; they go through the loop again.                                        *)
Release(t) ==
  /\ At(t, "release")
  /\ inflight' = [inflight EXCEPT ![thread[t].key] = None]
  /\ thread' = [u \in Threads |->
       IF u = t THEN Idle
       ELSE IF At(u, "wait") /\ thread[u].waits = t
            THEN [pc |-> "look", key |-> thread[u].key, waits |-> None]
            ELSE thread[u]]
  /\ UNCHANGED <<rank, calls, computed, undone>>

Step(t) == Look(t) \/ Store(t) \/ Raise(t) \/ Release(t)

Next == \E t \in Threads : Step(t) \/ \E k \in Keys : Call(t, k)

(* A thread that can run runs, and every computation comes to an end: its     *)
(* LLM and MCP calls have timeouts.                                           *)
Fairness == \A t \in Threads : WF_vars(Step(t))
Spec     == Init /\ [][Next]_vars
FairSpec == Spec /\ Fairness

--------------------------------------------------------------------------------
TypeOK ==
  /\ rank \in [Keys -> Nat]
  /\ inflight \in [Keys -> Threads \cup {None}]
  /\ thread \in [Threads ->
       [pc : PCs, key : Keys \cup {None}, waits : Threads \cup {None}]]
  /\ \A t \in Threads : ~At(t, "idle") => thread[t].key \in Keys
  /\ calls \in Nat
  /\ computed \in [Keys -> Nat] /\ undone \in [Keys -> Nat]

(* The cache never holds more than max_size responses, and its order is one.  *)
WithinMaxSize ==
  /\ Size <= MaxSize
  /\ \A j, k \in Cached : rank[j] = rank[k] => j = k

Owns(t, k) == thread[t].key = k /\ thread[t].pc \in {"compute", "release"}

(* One thread at a time computes the response of a key, and never one that    *)
(* the cache holds.                                                           *)
SingleFlight ==
  \A k \in Keys, t \in Threads : Owns(t, k) =>
    /\ \A u \in Threads : Owns(u, k) => u = t
    /\ At(t, "compute") => k \notin Cached

(* A request that is sent again, at once or later, runs the agents again only *)
(* because a computation failed or its response had to make room.             *)
OnceUnlessUndone == \A k \in Keys : computed[k] <= undone[k] + 1

(* Whoever waits for a computation is woken, also when it fails, and finds    *)
(* the response or computes it.                                               *)
EveryCallReturns == \A t \in Threads : thread[t].pc # "idle" ~> thread[t].pc = "idle"
================================================================================
