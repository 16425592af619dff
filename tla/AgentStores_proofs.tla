-------------------------- MODULE AgentStores_proofs ---------------------------
(******************************************************************************)
(* What the parts of the agent and of its MCP servers keep, for all values of *)
(* their constants: the response cache, which AgentParts extends, the two     *)
(* vector stores, the two interest stores, the cache of the embedding provider, *)
(* and the profile that feedback builds up.                                   *)
(******************************************************************************)
EXTENDS AgentParts, Integers, SequenceTheorems, FiniteSetTheorems, TLAPS

(* The response cache: one computation at a time per request, and one in all  *)
(* unless one failed or was evicted.                                          *)

(* The size of the cache is a number, positive once a key is cached.          *)
LEMMA SizeType ==
  ASSUME rank \in [Keys -> Nat]
  PROVE  /\ Size \in Nat
         /\ \A k \in Cached : Size > 0
<1>1. IsFiniteSet(Cached)
  BY CacheAssumption, FS_Subset DEF Cached
<1>2. Size \in Nat
  BY <1>1, FS_CardinalityType DEF Size
<1>3. ASSUME NEW k \in Cached  PROVE Size > 0
  BY <1>1, <1>2, <1>3, FS_EmptySet DEF Size
<1>. QED  BY <1>2, <1>3

(* Every variable keeps its type.                                             *)
THEOREM TypeCorrect == Spec => []TypeOK
<1>1. Init => TypeOK
  BY CacheAssumption DEF Init, TypeOK, Idle, PCs, At
<1>2. TypeOK /\ [Next]_vars => TypeOK'
  <2>. SUFFICES ASSUME TypeOK, [Next]_vars  PROVE TypeOK'
    OBVIOUS
  <2>. USE DEF At, Goto, PCs, Idle
  <2>0. Size \in Nat /\ \A k \in Cached : Size > 0
    BY SizeType DEF TypeOK
  <2>m. ASSUME NEW k \in Keys, k \in Cached  PROVE MoveToEnd(k) \in [Keys -> Nat]
    BY <2>0, <2>m DEF TypeOK, MoveToEnd, Cached
  <2>a. ASSUME NEW k \in Keys  PROVE Add(k) \in [Keys -> Nat]
    BY <2>0 DEF TypeOK, Add
  <2>1. ASSUME NEW t \in Threads, Look(t)  PROVE TypeOK'
    BY <2>1, <2>m, CacheAssumption DEF TypeOK, Look
  <2>2. ASSUME NEW t \in Threads, Store(t)  PROVE TypeOK'
    <3>. PICK k \in Keys : k = thread[t].key
      BY <2>2 DEF TypeOK, Store
    <3>1. rank' \in [Keys -> Nat]
      BY <2>2, <2>m, <2>a DEF Store
    <3>2. undone' \in [Keys -> Nat]
      BY <2>2 DEF TypeOK, Store
    <3>. QED  BY <2>2, <3>1, <3>2 DEF TypeOK, Store
  <2>3. ASSUME NEW t \in Threads, Raise(t)  PROVE TypeOK'
    BY <2>3 DEF TypeOK, Raise
  <2>4. ASSUME NEW t \in Threads, Release(t)  PROVE TypeOK'
    BY <2>4 DEF TypeOK, Release
  <2>5. ASSUME NEW t \in Threads, NEW k \in Keys, Call(t, k)  PROVE TypeOK'
    BY <2>5 DEF TypeOK, Call
  <2>6. CASE UNCHANGED vars
    BY <2>6 DEF TypeOK, vars
  <2>. QED  BY <2>1, <2>2, <2>3, <2>4, <2>5, <2>6 DEF Next, Step
<1>. QED  BY <1>1, <1>2, PTL DEF Spec

--------------------------------------------------------------------------------
(* The register: a key's Event is that of the thread computing it.            *)
Register == \A k \in Keys, t \in Threads : inflight[k] = t <=> Owns(t, k)

NoneCached == \A k \in Keys, t \in Threads : Owns(t, k) /\ At(t, "compute") => k \notin Cached

Computing(k) == \E t \in Threads : Owns(t, k) /\ At(t, "compute")
Account ==
  \A k \in Keys :
    computed[k] = undone[k] + (IF k \in Cached \/ Computing(k) THEN 1 ELSE 0)

CacheInv == TypeOK /\ Register /\ NoneCached /\ Account

(* What a hit, and a response stored, do to the set of cached keys.           *)
LEMMA CachedAfterMove ==
  ASSUME rank \in [Keys -> Nat], NEW k \in Cached, rank' = MoveToEnd(k)
  PROVE  Cached' = Cached
<1>. USE DEF Cached
<1>1. Size > 0 /\ Size \in Nat
  BY SizeType
<1>2. ASSUME NEW j \in Keys  PROVE rank'[j] > 0 <=> rank[j] > 0
  BY <1>1 DEF MoveToEnd
<1>. QED  BY <1>2

LEMMA CachedAfterAdd ==
  ASSUME rank \in [Keys -> Nat], NEW k \in Keys, rank' = Add(k), rank[k] = 0
  PROVE  Cached' = (Cached \cup {k}) \ Evicted(k)
<1>. USE DEF Cached
<1>1. Size \in Nat /\ \A j \in Cached : Size > 0
  BY SizeType
<1>2. ASSUME NEW j \in Keys, j # k
      PROVE  rank'[j] > 0 <=> rank[j] > 0 /\ ~(Full /\ rank[j] = 1)
  BY <1>2 DEF Add
<1>3. rank'[k] > 0
  BY <1>1, CacheAssumption DEF Add, Full
<1>. QED  BY <1>2, <1>3 DEF Evicted

(* The inductive invariant of get_or_compute: threads, events and cached keys *)
(* agree, and every computation is accounted for.                             *)
THEOREM CacheCorrect == Spec => []CacheInv
<1>1. Init => CacheInv
  BY CacheAssumption
     DEF Init, CacheInv, TypeOK, Idle, PCs, At, Register, Owns, NoneCached, Account,
         Computing, Cached
<1>2. CacheInv /\ TypeOK' /\ [Next]_vars => CacheInv'
  <2>. SUFFICES ASSUME CacheInv, TypeOK', [Next]_vars  PROVE CacheInv'
    OBVIOUS
  <2>. USE DEF At, Goto, Idle
  <2>1. ASSUME NEW t \in Threads, Look(t)  PROVE CacheInv'
    <3>. PICK k \in Keys : k = thread[t].key
      BY <2>1 DEF Look, CacheInv, TypeOK
    <3>1. CASE /\ k \in Cached
               /\ rank' = MoveToEnd(k)
               /\ thread' = [thread EXCEPT ![t] = Idle]
               /\ UNCHANGED <<inflight, computed>>
      <4>1. Cached' = Cached
        BY <3>1, CachedAfterMove DEF CacheInv, TypeOK
      <4>2. \A j \in Keys, u \in Threads : Owns(u, j)' <=> Owns(u, j)
        BY <2>1, <3>1, CacheAssumption DEF Owns, Look, CacheInv, TypeOK
      <4>3. \A u \in Threads : At(u, "compute")' <=> At(u, "compute")
        BY <2>1, <3>1 DEF Look, CacheInv, TypeOK
      <4>4. \A j \in Keys : Computing(j)' <=> Computing(j)
        BY <4>2, <4>3 DEF Computing
      <4>. QED  BY <2>1, <3>1, <4>1, <4>2, <4>3, <4>4
                DEF CacheInv, Register, NoneCached, Account, Look
    <3>2. CASE /\ k \notin Cached /\ inflight[k] # None
               /\ thread' = [thread EXCEPT ![t].pc = "wait", ![t].waits = inflight[k]]
               /\ UNCHANGED <<rank, inflight, computed>>
      <4>1. Cached' = Cached
        BY <3>2 DEF Cached
      <4>2. \A j \in Keys, u \in Threads : Owns(u, j)' <=> Owns(u, j)
        BY <2>1, <3>2 DEF Owns, Look, CacheInv, TypeOK
      <4>3. \A u \in Threads : At(u, "compute")' <=> At(u, "compute")
        BY <2>1, <3>2 DEF Look, CacheInv, TypeOK
      <4>4. \A j \in Keys : Computing(j)' <=> Computing(j)
        BY <4>2, <4>3 DEF Computing
      <4>. QED  BY <2>1, <3>2, <4>1, <4>2, <4>3, <4>4
                DEF CacheInv, Register, NoneCached, Account, Look
    <3>3. CASE /\ k \notin Cached /\ inflight[k] = None
               /\ inflight' = [inflight EXCEPT ![k] = t]
               /\ computed' = [computed EXCEPT ![k] = @ + 1]
               /\ thread' = [thread EXCEPT ![t].pc = "compute"] /\ UNCHANGED rank
      <4>1. Cached' = Cached
        BY <3>3 DEF Cached
      <4>2. \A u \in Threads : ~Owns(u, k)
        BY <3>3, CacheAssumption DEF CacheInv, Register
      <4>3. \A j \in Keys : ~Owns(t, j)
        BY <2>1 DEF Look, Owns
      <4>4. \A j \in Keys, u \in Threads : Owns(u, j)' <=> Owns(u, j) \/ (u = t /\ j = k)
        BY <2>1, <3>3 DEF Owns, Look, CacheInv, TypeOK
      <4>5. \A u \in Threads : At(u, "compute")' <=> At(u, "compute") \/ u = t
        BY <2>1, <3>3 DEF Look, CacheInv, TypeOK
      <4>6. Computing(k)' /\ ~Computing(k)
        BY <4>2, <4>4, <4>5 DEF Computing
      <4>7. \A j \in Keys \ {k} : Computing(j)' <=> Computing(j)
        BY <4>3, <4>4, <4>5 DEF Computing
      <4>8. Register'
        BY <3>3, <4>2, <4>3, <4>4, CacheAssumption DEF CacheInv, Register, TypeOK
      <4>9. NoneCached'
        BY <3>3, <4>1, <4>3, <4>4, <4>5 DEF CacheInv, NoneCached
      <4>10. Account'
        <5>. SUFFICES ASSUME NEW j \in Keys
                     PROVE  (computed[j] = undone[j] + (IF j \in Cached \/ Computing(j) THEN 1 ELSE 0))'
          BY DEF Account
        <5>1. CASE j = k
          BY <2>1, <3>3, <4>1, <4>6, <5>1 DEF CacheInv, Account, TypeOK, Look
        <5>2. CASE j # k
          BY <2>1, <3>3, <4>1, <4>7, <5>2 DEF CacheInv, Account, TypeOK, Look
        <5>. QED  BY <5>1, <5>2
      <4>. QED  BY <4>8, <4>9, <4>10 DEF CacheInv
    <3>. QED  BY <2>1, <3>1, <3>2, <3>3 DEF Look
  <2>2. ASSUME NEW t \in Threads, Store(t)  PROVE CacheInv'
    <3>. PICK k \in Keys : k = thread[t].key
      BY <2>2 DEF Store, CacheInv, TypeOK
    <3>1. Owns(t, k) /\ k \notin Cached /\ rank[k] = 0
      BY <2>2 DEF Store, CacheInv, NoneCached, Owns, TypeOK, Cached
    <3>2. Cached' = (Cached \cup {k}) \ Evicted(k)
      BY <2>2, <3>1, CachedAfterAdd DEF CacheInv, TypeOK, Store
    <3>3. \A j \in Keys, u \in Threads : Owns(u, j)' <=> Owns(u, j)
      BY <2>2 DEF Owns, Store, CacheInv, TypeOK
    <3>4. \A u \in Threads : At(u, "compute")' <=> At(u, "compute") /\ u # t
      BY <2>2 DEF Store, CacheInv, TypeOK
    <3>5. \A u \in Threads : Owns(u, k) => u = t
      BY <3>1 DEF CacheInv, Register
    <3>6. Computing(k) /\ ~Computing(k)'
      BY <2>2, <3>1, <3>3, <3>4, <3>5 DEF Computing, Store
    <3>7. \A j \in Keys \ {k} : Computing(j)' <=> Computing(j)
      BY <3>1, <3>3, <3>4 DEF Computing, Owns
    <3>8. Evicted(k) \subseteq Cached \ {k}
      BY DEF Evicted, Cached
    <3>9. Register'
      BY <2>2, <3>3 DEF CacheInv, Register, Store
    <3>10. NoneCached'
      BY <3>2, <3>3, <3>4, <3>5 DEF CacheInv, NoneCached
    <3>11. Account'
      <4>. SUFFICES ASSUME NEW j \in Keys
                   PROVE  (computed[j] = undone[j] + (IF j \in Cached \/ Computing(j) THEN 1 ELSE 0))'
        BY DEF Account
      <4>1. computed'[j] = computed[j] /\ undone'[j] = undone[j] + (IF j \in Evicted(k) THEN 1 ELSE 0)
        BY <2>2, <3>1 DEF Store, CacheInv, TypeOK
      <4>2. computed[j] \in Nat /\ undone[j] \in Nat
        BY DEF CacheInv, TypeOK
      <4>3. CASE j = k
        BY <3>1, <3>2, <3>6, <3>8, <4>1, <4>2, <4>3 DEF CacheInv, Account
      <4>4. CASE j # k /\ j \in Evicted(k)
        <5>1. j \in Cached /\ j \notin Cached'
          BY <3>2, <3>8, <4>4
        <5>2. ~Computing(j)'
          BY <3>7, <4>4, <5>1 DEF CacheInv, NoneCached, Computing
        <5>3. computed[j] = undone[j] + 1
          BY <5>1 DEF CacheInv, Account
        <5>. QED  BY <4>1, <4>2, <4>4, <5>1, <5>2, <5>3
      <4>5. CASE j # k /\ j \notin Evicted(k)
        <5>1. j \in Cached' <=> j \in Cached
          BY <3>2, <4>5
        <5>2. computed[j] = undone[j] + (IF j \in Cached \/ Computing(j) THEN 1 ELSE 0)
          BY DEF CacheInv, Account
        <5>. QED  BY <3>7, <4>1, <4>2, <4>5, <5>1, <5>2
      <4>. QED  BY <4>3, <4>4, <4>5
    <3>. QED  BY <3>9, <3>10, <3>11 DEF CacheInv
  <2>3. ASSUME NEW t \in Threads, Raise(t)  PROVE CacheInv'
    <3>. PICK k \in Keys : k = thread[t].key
      BY <2>3 DEF Raise, CacheInv, TypeOK
    <3>1. Owns(t, k) /\ k \notin Cached
      BY <2>3 DEF Raise, CacheInv, NoneCached, Owns
    <3>2. Cached' = Cached
      BY <2>3 DEF Raise, Cached
    <3>3. \A j \in Keys, u \in Threads : Owns(u, j)' <=> Owns(u, j)
      BY <2>3 DEF Owns, Raise, CacheInv, TypeOK
    <3>4. \A u \in Threads : At(u, "compute")' <=> At(u, "compute") /\ u # t
      BY <2>3 DEF Raise, CacheInv, TypeOK
    <3>5. \A u \in Threads : Owns(u, k) => u = t
      BY <3>1 DEF CacheInv, Register
    <3>6. Computing(k) /\ ~Computing(k)'
      BY <2>3, <3>1, <3>3, <3>4, <3>5 DEF Computing, Raise
    <3>7. \A j \in Keys \ {k} : Computing(j)' <=> Computing(j)
      BY <3>1, <3>3, <3>4 DEF Computing, Owns
    <3>8. Register'
      BY <2>3, <3>3 DEF CacheInv, Register, Raise
    <3>9. NoneCached'
      BY <3>2, <3>3, <3>4 DEF CacheInv, NoneCached
    <3>10. Account'
      <4>. SUFFICES ASSUME NEW j \in Keys
                   PROVE  (computed[j] = undone[j] + (IF j \in Cached \/ Computing(j) THEN 1 ELSE 0))'
        BY DEF Account
      <4>1. CASE j = k
        BY <2>3, <3>1, <3>2, <3>6, <4>1 DEF CacheInv, Account, TypeOK, Raise
      <4>2. CASE j # k
        BY <2>3, <3>2, <3>7, <4>2 DEF CacheInv, Account, TypeOK, Raise
      <4>. QED  BY <4>1, <4>2
    <3>. QED  BY <3>8, <3>9, <3>10 DEF CacheInv
  <2>4. ASSUME NEW t \in Threads, Release(t)  PROVE CacheInv'
    <3>. PICK k \in Keys : k = thread[t].key
      BY <2>4 DEF Release, CacheInv, TypeOK
    <3>1. Owns(t, k)
      BY <2>4 DEF Release, Owns
    <3>2. Cached' = Cached
      BY <2>4 DEF Release, Cached
    <3>a. thread'[t] = Idle
      BY <2>4 DEF Release
    <3>b. ASSUME NEW u \in Threads, u # t
          PROVE  /\ thread'[u].key = thread[u].key
                 /\ \/ thread'[u].pc = thread[u].pc
                    \/ thread[u].pc = "wait" /\ thread'[u].pc = "look"
      BY <2>4, <3>b DEF Release, CacheInv, TypeOK
    <3>3. \A j \in Keys, u \in Threads : Owns(u, j)' <=> Owns(u, j) /\ u # t
      BY <3>a, <3>b DEF Owns
    <3>4. \A u \in Threads : At(u, "compute")' <=> At(u, "compute")
      BY <2>4, <3>a, <3>b DEF Release
    <3>5. \A j \in Keys : Computing(j)' <=> Computing(j)
      BY <2>4, <3>3, <3>4 DEF Computing, Release
    <3>6. \A j \in Keys : Owns(t, j) <=> j = k
      BY <3>1 DEF Owns
    <3>7. Register'
      <4>1. inflight'[k] = None /\ \A j \in Keys \ {k} : inflight'[j] = inflight[j]
        BY <2>4 DEF Release, CacheInv, TypeOK
      <4>2. \A u \in Threads : Owns(u, k) => u = t
        BY <3>1 DEF CacheInv, Register
      <4>. QED  BY <3>3, <3>6, <4>1, <4>2, CacheAssumption DEF CacheInv, Register
    <3>. QED  BY <2>4, <3>2, <3>3, <3>4, <3>5, <3>7
              DEF CacheInv, NoneCached, Account, Release
  <2>5. ASSUME NEW t \in Threads, NEW k \in Keys, Call(t, k)  PROVE CacheInv'
    <3>1. Cached' = Cached
      BY <2>5 DEF Call, Cached
    <3>2. \A j \in Keys, u \in Threads : Owns(u, j)' <=> Owns(u, j)
      BY <2>5 DEF Owns, Call, CacheInv, TypeOK
    <3>3. \A u \in Threads : At(u, "compute")' <=> At(u, "compute")
      BY <2>5 DEF Call, CacheInv, TypeOK
    <3>4. \A j \in Keys : Computing(j)' <=> Computing(j)
      BY <3>2, <3>3 DEF Computing
    <3>. QED  BY <2>5, <3>1, <3>2, <3>3, <3>4
              DEF CacheInv, Register, NoneCached, Account, Call
  <2>6. CASE UNCHANGED vars
    BY <2>6 DEF vars, CacheInv, TypeOK, Register, Owns, NoneCached, Account, Computing, Cached
  <2>. QED  BY <2>1, <2>2, <2>3, <2>4, <2>5, <2>6 DEF Next, Step
<1>. QED  BY <1>1, <1>2, TypeCorrect, PTL DEF Spec

(* One computation at a time per request, and never of a cached one.          *)
THEOREM SingleFlightAlways == Spec => []SingleFlight
<1>1. CacheInv => SingleFlight
  BY DEF CacheInv, Register, NoneCached, SingleFlight
<1>. QED  BY <1>1, CacheCorrect, PTL

(* A request is computed once, plus once per failure or eviction.             *)
THEOREM OnceAlways == Spec => []OnceUnlessUndone
<1>1. CacheInv => OnceUnlessUndone
  <2>. SUFFICES ASSUME CacheInv, NEW k \in Keys  PROVE computed[k] <= undone[k] + 1
    BY DEF OnceUnlessUndone
  <2>1. computed[k] \in Nat /\ undone[k] \in Nat
    BY DEF CacheInv, TypeOK
  <2>2. computed[k] = undone[k] \/ computed[k] = undone[k] + 1
    BY <2>1 DEF CacheInv, Account
  <2>. QED  BY <2>1, <2>2
<1>. QED  BY <1>1, CacheCorrect, PTL

--------------------------------------------------------------------------------
(* The places in the OrderedDict are 1 to its length, each taken once.        *)
Places ==
  /\ Size <= MaxSize
  /\ \A k \in Cached : rank[k] \in 1..Size
  /\ \A j, k \in Cached : rank[j] = rank[k] => j = k
  /\ \A n \in 1..Size : \E k \in Cached : rank[k] = n

LEMMA PlacesAfterMove ==
  ASSUME TypeOK, Places, NEW k \in Cached, rank' = MoveToEnd(k)
  PROVE  Places'
<1>0. Size \in Nat /\ rank \in [Keys -> Nat] /\ MaxSize \in Nat
  BY SizeType, CacheAssumption DEF TypeOK
<1>1. Cached' = Cached
  BY CachedAfterMove DEF TypeOK
<1>2. Size' = Size
  BY <1>1 DEF Size
<1>3. \A j \in Cached : rank'[j] = IF j = k THEN Size
                                  ELSE IF rank[j] > rank[k] THEN rank[j] - 1 ELSE rank[j]
  BY DEF MoveToEnd, Cached
<1>4. \A j \in Cached : rank[j] \in 1..Size
  BY DEF Places
<1>5. \A j \in Cached : rank'[j] \in 1..Size
  BY <1>0, <1>3, <1>4
<1>6. \A i, j \in Cached : rank[i] = rank[j] => i = j
  BY DEF Places
<1>7. ASSUME NEW i \in Cached, NEW j \in Cached, rank'[i] = rank'[j]  PROVE i = j
  <2>1. rank[i] = rank[k] => i = k
    BY <1>6
  <2>2. rank[j] = rank[k] => j = k
    BY <1>6
  <2>3. rank[i] = rank[j] => i = j
    BY <1>6
  <2>. QED  BY <1>0, <1>3, <1>4, <1>7, <2>1, <2>2, <2>3
<1>8. ASSUME NEW n \in 1..Size  PROVE \E j \in Cached : rank'[j] = n
  <2>1. CASE n = Size
    BY <1>3, <2>1
  <2>2. CASE n < rank[k]
    <3>1. PICK j \in Cached : rank[j] = n
      BY DEF Places
    <3>. QED  BY <1>0, <1>3, <1>4, <2>2, <3>1
  <2>3. CASE rank[k] <= n /\ n < Size
    <3>1. PICK j \in Cached : rank[j] = n + 1
      BY <1>0, <2>3 DEF Places
    <3>. QED  BY <1>0, <1>3, <1>4, <2>3, <3>1
  <2>. QED  BY <1>0, <1>4, <2>1, <2>2, <2>3
<1>. QED  BY <1>0, <1>1, <1>2, <1>5, <1>7, <1>8 DEF Places

LEMMA PlacesAfterAdd ==
  ASSUME TypeOK, Places, NEW k \in Keys, k \notin Cached, rank' = Add(k)
  PROVE  Places'
<1>0. Size \in Nat /\ rank \in [Keys -> Nat] /\ MaxSize \in Nat \ {0}
  BY SizeType, CacheAssumption DEF TypeOK
<1>1. IsFiniteSet(Cached)
  BY CacheAssumption, FS_Subset DEF Cached
<1>2. \A j \in Keys : rank'[j] = IF j = k THEN (IF Full THEN Size ELSE Size + 1)
                                ELSE IF Full /\ rank[j] > 0 THEN rank[j] - 1 ELSE rank[j]
  BY DEF Add
<1>3. rank[k] = 0
  BY <1>0 DEF Cached
<1>4. CASE ~Full
  <2>1. Size < MaxSize
    BY <1>0, <1>4 DEF Full
  <2>2. Cached' = Cached \cup {k}
    BY <1>0, <1>2, <1>4 DEF Cached
  <2>3. Size' = Size + 1
    BY <1>1, <2>2, FS_AddElement DEF Size
  <2>4. \A j \in Cached : rank'[j] = rank[j] /\ j # k
    BY <1>2, <1>4 DEF Cached
  <2>5. rank'[k] = Size + 1
    BY <1>2, <1>4
  <2>6. \A j \in Cached : rank[j] \in 1..Size
    BY DEF Places
  <2>7. \A j \in Cached' : rank'[j] \in 1..(Size + 1)
    BY <1>0, <2>2, <2>4, <2>5, <2>6
  <2>8. \A i, j \in Cached' : rank'[i] = rank'[j] => i = j
    BY <1>0, <2>2, <2>4, <2>5, <2>6 DEF Places
  <2>9. ASSUME NEW n \in 1..(Size + 1)  PROVE \E j \in Cached' : rank'[j] = n
    <3>1. CASE n = Size + 1
      BY <2>2, <2>5, <3>1
    <3>2. CASE n \in 1..Size
      BY <2>2, <2>4, <3>2 DEF Places
    <3>. QED  BY <1>0, <3>1, <3>2
  <2>. QED  BY <1>0, <2>1, <2>3, <2>7, <2>8, <2>9 DEF Places
<1>5. CASE Full
  <2>1. Size = MaxSize /\ Size > 0
    BY <1>0, <1>5 DEF Full, Places
  <2>2. PICK e \in Cached : rank[e] = 1
    BY <1>0, <2>1 DEF Places
  <2>3. \A j \in Cached : rank[j] \in 1..Size /\ (rank[j] = 1 => j = e)
    BY <2>2 DEF Places
  <2>4. \A j \in Cached : rank'[j] = rank[j] - 1 /\ j # k
    BY <1>0, <1>2, <1>5 DEF Cached
  <2>5. rank'[k] = Size
    BY <1>2, <1>5
  <2>6. \A j \in Keys : j \notin Cached /\ j # k => rank'[j] = 0
    BY <1>0, <1>2 DEF Cached
  <2>7. Cached' = (Cached \ {e}) \cup {k}
    <3>1. ASSUME NEW j \in Keys, rank'[j] > 0  PROVE j \in (Cached \ {e}) \cup {k}
      BY <1>0, <2>2, <2>4, <2>6, <3>1
    <3>2. ASSUME NEW j \in (Cached \ {e}) \cup {k}  PROVE j \in Keys /\ rank'[j] > 0
      BY <1>0, <2>1, <2>3, <2>4, <2>5, <3>2 DEF Cached
    <3>. QED  BY <3>1, <3>2 DEF Cached
  <2>8. Size' = Size
    <3>1. IsFiniteSet(Cached \ {e}) /\ Cardinality(Cached \ {e}) = Size - 1
      BY <1>1, <2>2, FS_RemoveElement DEF Size
    <3>2. Cardinality(Cached') = Size - 1 + 1
      BY <2>7, <3>1, FS_AddElement
    <3>. QED  BY <1>0, <3>2 DEF Size
  <2>9. \A j \in Cached' : rank'[j] \in 1..Size
    BY <1>0, <2>1, <2>3, <2>4, <2>5, <2>7
  <2>10. \A i, j \in Cached' : rank'[i] = rank'[j] => i = j
    <3>1. \A i, j \in Cached : rank[i] - 1 = rank[j] - 1 => i = j
      BY <1>0, <2>3 DEF Places
    <3>2. \A j \in Cached : rank[j] - 1 # Size
      BY <1>0, <2>3
    <3>. QED  BY <2>4, <2>5, <2>7, <3>1, <3>2
  <2>11. ASSUME NEW n \in 1..Size  PROVE \E j \in Cached' : rank'[j] = n
    <3>1. CASE n = Size
      BY <2>5, <2>7, <3>1
    <3>2. CASE n < Size
      <4>1. PICK j \in Cached : rank[j] = n + 1
        BY <1>0, <3>2 DEF Places
      <4>2. j # e
        BY <2>2, <4>1
      <4>. QED  BY <2>4, <2>7, <4>1, <4>2
    <3>. QED  BY <1>0, <3>1, <3>2
  <2>. QED  BY <1>0, <2>1, <2>8, <2>9, <2>10, <2>11 DEF Places
<1>. QED  BY <1>4, <1>5

(* The cache never holds more than max_size responses, in one order of use.   *)
THEOREM WithinMaxSizeAlways == Spec => []WithinMaxSize
<1>1. Init => Places
  <2>. SUFFICES ASSUME Init  PROVE Places
    OBVIOUS
  <2>1. Cached = {}
    BY DEF Init, Cached
  <2>2. Size = 0
    BY <2>1, FS_EmptySet DEF Size
  <2>. QED  BY <2>1, <2>2, CacheAssumption DEF Places
<1>2. TypeOK /\ Places /\ [Next]_vars => Places'
  <2>. SUFFICES ASSUME TypeOK, Places, [Next]_vars  PROVE Places'
    OBVIOUS
  <2>1. CASE rank' = rank
    BY <2>1 DEF Places, Size, Cached
  <2>2. ASSUME NEW t \in Threads, Look(t)  PROVE Places'
    BY <2>1, <2>2, PlacesAfterMove DEF Look
  <2>3. ASSUME NEW t \in Threads, Store(t)  PROVE Places'
    <3>1. PICK k \in Keys : k = thread[t].key
      BY <2>3 DEF TypeOK, Store, At
    <3>2. rank' = IF k \in Cached THEN MoveToEnd(k) ELSE Add(k)
      BY <2>3, <3>1 DEF Store
    <3>. QED  BY <3>2, PlacesAfterMove, PlacesAfterAdd
  <2>4. ASSUME NEW t \in Threads, Raise(t) \/ Release(t)  PROVE Places'
    BY <2>1, <2>4 DEF Raise, Release
  <2>5. ASSUME NEW t \in Threads, NEW k \in Keys, Call(t, k)  PROVE Places'
    BY <2>1, <2>5 DEF Call
  <2>6. CASE UNCHANGED vars
    BY <2>1, <2>6 DEF vars
  <2>. QED  BY <2>2, <2>3, <2>4, <2>5, <2>6 DEF Next, Step
<1>3. Places => WithinMaxSize
  BY DEF Places, WithinMaxSize
<1>. QED  BY <1>1, <1>2, <1>3, TypeCorrect, PTL DEF Spec

--------------------------------------------------------------------------------
(* The two vector stores.                                                     *)
(* A set of positions has a last one: the positions from there on are the     *)
(* fewest.                                                                    *)
Top(s) == CHOOSE x \in s : \A y \in s : x >= y

LEMMA TopFacts ==
  ASSUME NEW n \in Nat, NEW s \in SUBSET (1..n), s # {}
  PROVE  Top(s) \in s
<1> DEFINE rest == {m..n : m \in s}
<1>1. PICK x \in rest : \A y \in rest : ~(<<y, x>> \in StrictSubsetOrdering(1..n))
  <2>1. \A m \in s : m..n \subseteq 1..n
    OBVIOUS
  <2>4. rest \subseteq SUBSET (1..n) /\ rest # {}
    BY <2>1
  <2>2. IsFiniteSet(1..n)
    BY FS_Interval
  <2>3. IsWellFoundedOn(StrictSubsetOrdering(1..n), SUBSET (1..n))
    BY <2>2, FS_FiniteSubsetsOfFinite, FS_StrictSubsetOrderingWellFounded
  <2> HIDE DEF rest
  <2> QED BY <2>4, <2>3, WFMin
<1>2. PICK m \in s : x = m..n
  BY <1>1
<1>3. ASSUME NEW k \in s PROVE m >= k
  <2>1. ~(<<k..n, m..n>> \in StrictSubsetOrdering(1..n))
    BY <1>1, <1>2
  <2>2. k..n \subseteq 1..n /\ m..n \subseteq 1..n
    OBVIOUS
  <2>3. ~(k..n \subseteq m..n) \/ k..n = m..n
    BY <2>1, <2>2 DEF StrictSubsetOrdering
  <2>4. CASE k > m
    <3>1. k..n \subseteq m..n
      BY <2>4
    <3>2. m \in m..n /\ m \notin k..n
      BY <2>4
    <3> QED BY <2>3, <3>1, <3>2
  <2> QED BY <2>4
<1> QED BY <1>2, <1>3, Zenon DEF Top

LEMMA MaxFacts ==
  ASSUME NEW n \in Nat, NEW s \in SUBSET (1..n), s # {}
  PROVE  Stores!Max(s) \in s
BY TopFacts DEF Top, Stores!Max

(* Of sets that go wrong, one has no smaller one that does.                   *)
LEMMA Least ==
  ASSUME NEW s, IsFiniteSet(s), NEW odd, odd \subseteq SUBSET s, odd # {}
  PROVE  \E t \in odd : \A u \in SUBSET t : u # t => u \notin odd
<1>1. IsWellFoundedOn(StrictSubsetOrdering(s), SUBSET s)
  BY FS_FiniteSubsetsOfFinite, FS_StrictSubsetOrderingWellFounded
<1>2. PICK t \in odd : \A u \in odd : ~(<<u, t>> \in StrictSubsetOrdering(s))
  BY <1>1, WFMin
<1>3. ASSUME NEW u \in SUBSET t, u # t, u \in odd PROVE FALSE
  BY <1>2, <1>3 DEF StrictSubsetOrdering
<1> QED BY <1>3

(* Two functions that are the same on a set.                                  *)
Equal(f, g, s) == \A x \in s : f[x] = g[x]

(* What holds of 0, and of a number after one of which it holds, holds up to  *)
(* any number; it is given as the set of the numbers of which it holds.       *)
LEMMA UpTo ==
  ASSUME NEW n \in Nat, NEW S, 0 \in S, \A m \in 1..n : m - 1 \in S => m \in S
  PROVE  \A m \in 0..n : m \in S
<1> DEFINE odd == {1..m : m \in {k \in 0..n : k \notin S}}
<1> SUFFICES ASSUME NEW k \in 0..n, k \notin S PROVE FALSE
  OBVIOUS
<1>1. odd \subseteq SUBSET (1..n) /\ odd # {}
  <2>1. 1..k \in odd
    OBVIOUS
  <2>2. \A m \in 0..n : 1..m \subseteq 1..n
    OBVIOUS
  <2> QED BY <2>1, <2>2
<1>2. PICK t \in odd : \A u \in SUBSET t : u # t => u \notin odd
  <2>1. IsFiniteSet(1..n)
    BY FS_Interval
  <2> HIDE DEF odd
  <2> QED BY <1>1, <2>1, Least
<1>3. PICK m \in 0..n : t = 1..m /\ m \notin S
  BY <1>2
<1>4. m - 1 \in 0..n /\ m - 1 \notin S
  BY <1>3
<1>5. 1..m - 1 \in odd
  BY <1>4
<1>6. 1..m - 1 \subseteq 1..m /\ m \in 1..m /\ m \notin 1..m - 1
  BY <1>3, <1>4
<1> HIDE DEF odd
<1> QED BY <1>2, <1>3, <1>5, <1>6

LEMMA TopPrefix ==
  ASSUME NEW n \in Nat, NEW m \in 1..n
  PROVE  1..m \in SUBSET (1..n) /\ 1..m # {} /\ Top(1..m) = m /\ (1..m) \ {m} = 1..m - 1
<1>1. m \in Nat /\ 1..m \in SUBSET (1..m) /\ 1..m # {} /\ m \in 1..m
  OBVIOUS
<1>2. Top(1..m) \in 1..m
  BY <1>1, TopFacts
<1>3. \E y \in 1..m : \A k \in 1..m : y >= k
  BY <1>1
<1>4. \A k \in 1..m : Top(1..m) >= k
  BY <1>3, Zenon DEF Top
<1>5. Top(1..m) = m
  BY <1>1, <1>2, <1>4
<1>6. \A k : k \in 1..m - 1 <=> k \in 1..m /\ k # m
  BY <1>1
<1>7. 1..m \in SUBSET (1..n)
  OBVIOUS
<1> QED BY <1>1, <1>5, <1>6, <1>7

(* A fold of the community modules over the positions of a sequence gives     *)
(* every set of them what the last one, t, makes of what the others give: it  *)
(* exists whatever the step G does, and stays in A if G does.                 *)
IsRun(f, base, G, s) ==
  f = [t \in SUBSET s |-> IF t = {} THEN base ELSE G[<<f[t \ {Top(t)}], Top(t)>>]]
Runs(f, base, G, s) ==
  /\ f[{}] = base
  /\ \A t \in SUBSET s :
       t # {} => Top(t) \in t /\ f[t] = G[<<f[t \ {Top(t)}], Top(t)>>]

LEMMA RunFacts ==
  ASSUME NEW f, NEW base, NEW G, NEW n \in Nat, NEW s \in SUBSET (1..n), IsRun(f, base, G, s)
  PROVE  Runs(f, base, G, s)
<1>1. \A t \in SUBSET s : f[t] = IF t = {} THEN base ELSE G[<<f[t \ {Top(t)}], Top(t)>>]
  BY DEF IsRun
<1>2. \A t \in SUBSET s : t # {} => Top(t) \in t
  BY TopFacts
<1> QED BY <1>1, <1>2 DEF Runs

RunOf(base, G, s) == CHOOSE f : IsRun(f, base, G, s)

LEMMA RunsAgree ==
  ASSUME NEW base, NEW G, NEW n \in Nat, NEW s \in SUBSET (1..n), NEW z \in SUBSET (1..n),
         s \subseteq z, NEW f, IsRun(f, base, G, s), NEW g, IsRun(g, base, G, z)
  PROVE  Equal(f, g, SUBSET s)
<1> DEFINE odd == {t \in SUBSET s : f[t] # g[t]}
<1> SUFFICES ASSUME odd # {} PROVE FALSE
  BY DEF Equal
<1>1. PICK t \in odd : \A u \in SUBSET t : u # t => u \notin odd
  <2> HIDE DEF odd
  <2>1. odd \subseteq SUBSET s
    BY DEF odd
  <2>2. IsFiniteSet(s)
    <3>1. IsFiniteSet(1..n)
      BY FS_Interval
    <3> QED BY <3>1, FS_Subset
  <2> QED BY <2>1, <2>2, Least
<1>2. Runs(f, base, G, s) /\ Runs(g, base, G, z)
  BY RunFacts
<1>3. t \in SUBSET s /\ t \in SUBSET z /\ f[t] # g[t] /\ t # {}
  BY <1>2 DEF Runs
<1>4. Top(t) \in t /\ t \ {Top(t)} \in SUBSET t /\ t \ {Top(t)} # t
  BY <1>3, TopFacts
<1>5. f[t \ {Top(t)}] = g[t \ {Top(t)}]
  BY <1>1, <1>3, <1>4
<1>6. f[t] = G[<<f[t \ {Top(t)}], Top(t)>>]
  BY <1>2, <1>3 DEF Runs
<1>7. g[t] = G[<<g[t \ {Top(t)}], Top(t)>>]
  BY <1>2, <1>3 DEF Runs
<1> QED BY <1>3, <1>5, <1>6, <1>7

LEMMA RunExists ==
  ASSUME NEW base, NEW G, NEW n \in Nat, NEW s \in SUBSET (1..n)
  PROVE  IsRun(RunOf(base, G, s), base, G, s)
<1> DEFINE odd == {t \in SUBSET s : \A f : ~IsRun(f, base, G, t)}
<1>1. ASSUME NEW t \in odd, \A u \in SUBSET t : u # t => u \notin odd PROVE FALSE
  <2>1. \A u \in SUBSET t : u # t => IsRun(RunOf(base, G, u), base, G, u)
    <3>1. ASSUME NEW u \in SUBSET t, u # t PROVE \E f : IsRun(f, base, G, u)
      BY <1>1, <3>1
    <3> QED BY <3>1 DEF RunOf
  <2> DEFINE v(u) == RunOf(base, G, u)[u]
             f == [u \in SUBSET t |-> IF u = {} THEN base ELSE G[<<v(u \ {Top(u)}), Top(u)>>]]
  <2>2. ASSUME NEW u \in SUBSET t, u # t PROVE f[u] = v(u)
    <3>1. Runs(RunOf(base, G, u), base, G, u)
      BY <2>1, <2>2, RunFacts
    <3>2. CASE u = {}
      BY <3>1, <3>2 DEF Runs
    <3>3. CASE u # {}
      <4> DEFINE w == u \ {Top(u)}
      <4>1. Top(u) \in u /\ w \in SUBSET t /\ w # t /\ w \in SUBSET u
        BY <2>2, <3>3, TopFacts
      <4>2. v(u) = G[<<RunOf(base, G, u)[w], Top(u)>>]
        BY <3>1, <3>3 DEF Runs
      <4>3. IsRun(RunOf(base, G, w), base, G, w) /\ IsRun(RunOf(base, G, u), base, G, u)
        BY <2>1, <2>2, <4>1
      <4>4. w \in SUBSET (1..n) /\ u \in SUBSET (1..n)
        BY <4>1
      <4>5. RunOf(base, G, u)[w] = v(w)
        <5> HIDE DEF w
        <5>1. Equal(RunOf(base, G, w), RunOf(base, G, u), SUBSET w)
          BY <4>1, <4>3, <4>4, RunsAgree
        <5> QED BY <5>1 DEF Equal
      <4>6. f[u] = G[<<v(w), Top(u)>>]
        BY <2>2, <3>3
      <4> QED BY <4>2, <4>5, <4>6
    <3> QED BY <3>2, <3>3
  <2>3. \A u \in SUBSET t : u # {} => f[u \ {Top(u)}] = v(u \ {Top(u)})
    <3>1. ASSUME NEW u \in SUBSET t, u # {}
          PROVE  u \ {Top(u)} \in SUBSET t /\ u \ {Top(u)} # t
      BY <3>1, TopFacts
    <3> HIDE DEF f, v
    <3> QED BY <2>2, <3>1
  <2>4. f = [u \in SUBSET t |-> IF u = {} THEN base ELSE G[<<f[u \ {Top(u)}], Top(u)>>]]
    <3>1. \A u \in SUBSET t :
            f[u] = IF u = {} THEN base ELSE G[<<v(u \ {Top(u)}), Top(u)>>]
      OBVIOUS
    <3>2. f = [u \in SUBSET t |-> f[u]]
      OBVIOUS
    <3> HIDE DEF f, v
    <3>3. \A u \in SUBSET t :
            f[u] = IF u = {} THEN base ELSE G[<<f[u \ {Top(u)}], Top(u)>>]
      BY <2>3, <3>1
    <3> QED BY <3>2, <3>3
  <2>5. IsRun(f, base, G, t)
    BY <2>4 DEF IsRun
  <2> QED BY <1>1, <2>5
<1>2. odd = {}
  <2>1. odd \subseteq SUBSET s
    OBVIOUS
  <2>2. IsFiniteSet(s)
    <3>1. IsFiniteSet(1..n)
      BY FS_Interval
    <3> QED BY <3>1, FS_Subset
  <2> HIDE DEF odd
  <2> QED BY <1>1, <2>1, <2>2, Least
<1>3. \E f : IsRun(f, base, G, s)
  BY <1>2
<1> QED BY <1>3 DEF RunOf

(* What holds of the empty set's value and is handed on by every step holds   *)
(* of all values; it is given as the set of the values of which it holds.     *)
LEMMA RunIn ==
  ASSUME NEW A, NEW f, NEW n \in Nat, NEW s \in SUBSET (1..n), f[{}] \in A,
         \A t \in SUBSET s : t # {} /\ f[t \ {Top(t)}] \in A => f[t] \in A
  PROVE  \A t \in SUBSET s : f[t] \in A
<1> DEFINE odd == {t \in SUBSET s : f[t] \notin A}
<1> SUFFICES ASSUME odd # {} PROVE FALSE
  OBVIOUS
<1>1. PICK t \in odd : \A u \in SUBSET t : u # t => u \notin odd
  <2>1. odd \subseteq SUBSET s
    OBVIOUS
  <2>2. IsFiniteSet(s)
    <3>1. IsFiniteSet(1..n)
      BY FS_Interval
    <3> QED BY <3>1, FS_Subset
  <2> HIDE DEF odd
  <2> QED BY <2>1, <2>2, Least
<1>2. t \in SUBSET s /\ f[t] \notin A /\ t # {}
  OBVIOUS
<1> HIDE DEF odd
<1>3. Top(t) \in t /\ t \ {Top(t)} \in SUBSET t /\ t \ {Top(t)} # t
  <2>1. t \in SUBSET (1..n)
    BY <1>2
  <2>2. Top(t) \in t
    BY <1>2, <2>1, TopFacts
  <2> QED BY <2>2
<1>4. f[t \ {Top(t)}] \in A
  BY <1>1, <1>2, <1>3 DEF odd
<1> QED BY <1>2, <1>4

(* A step that stays in A, and the run it makes.                              *)
LEMMA Steps ==
  ASSUME NEW A, NEW base \in A, NEW n \in Nat, NEW G \in [A \X (1..n) -> A]
  PROVE  /\ IsRun(RunOf(base, G, 1..n), base, G, 1..n)
         /\ \A t \in SUBSET (1..n) : RunOf(base, G, 1..n)[t] \in A
<1> DEFINE g == RunOf(base, G, 1..n)
<1>1. IsRun(g, base, G, 1..n)
  BY RunExists
<1> HIDE DEF g
<1>2. Runs(g, base, G, 1..n)
  BY <1>1, RunFacts
<1>3. \A t \in SUBSET (1..n) : t # {} /\ g[t \ {Top(t)}] \in A => g[t] \in A
  <2> SUFFICES ASSUME NEW t \in SUBSET (1..n), t # {}, g[t \ {Top(t)}] \in A
               PROVE  g[t] \in A
    OBVIOUS
  <2>1. Top(t) \in 1..n /\ g[t] = G[<<g[t \ {Top(t)}], Top(t)>>]
    BY <1>2 DEF Runs
  <2> QED BY <2>1
<1>4. g[{}] \in A
  BY <1>2 DEF Runs
<1>5. \A t \in SUBSET (1..n) : g[t] \in A
  BY <1>3, <1>4, RunIn
<1> QED BY <1>1, <1>5 DEF g

IdsOf(given) == {given[n].id : n \in DOMAIN given}

(* What a batch leaves behind: its own items, and the others as they were.    *)
Merged(store, given, after) ==
  /\ after = [i \in DOMAIN store \cup IdsOf(given) |-> after[i]]
  /\ \A i \in DOMAIN store \ IdsOf(given) : after[i] = store[i]
  /\ \A i \in IdsOf(given) : after[i] = Stores!Put(<<>>, given)[i]
  /\ IsFiniteSet(IdsOf(given))
  /\ \A i \in IdsOf(given) : \E n \in DOMAIN given : given[n].id = i /\ after[i] = given[n]

LEMMA PutFacts ==
  ASSUME NEW store, NEW given \in Stores!Batches, NEW after, after = Stores!Put(store, given)
  PROVE  Merged(store, given, after)
<1>1. PICK len \in Nat : given \in [1..len -> Stores!Item]
  BY DEF Stores!Batches
<1>2. Len(given) = len /\ DOMAIN given = 1..len
  BY <1>1
<1> DEFINE new     == IdsOf(given)
           of(i)   == {n \in 1..Len(given) : given[n].id = i}
           last(i) == Stores!Max(of(i))
<1>3. {item.id : item \in Stores!Range(given)} = new
  BY DEF Stores!Range, IdsOf
<1>4. \A any : Stores!Put(any, given)
        = [i \in DOMAIN any \cup new |-> IF i \in new THEN given[last(i)] ELSE any[i]]
  BY <1>3 DEF Stores!Put
<1>5. ASSUME NEW i \in new PROVE last(i) \in DOMAIN given /\ given[last(i)].id = i
  <2>1. of(i) \subseteq 1..len /\ of(i) # {}
    BY <1>2 DEF IdsOf
  <2>2. last(i) \in of(i)
    BY <2>1, MaxFacts
  <2> QED BY <1>2, <2>2
<1> HIDE DEF new, last
<1>6. \A any : \A i \in new : Stores!Put(any, given)[i] = given[last(i)]
  BY <1>4
<1>7. /\ after = [i \in DOMAIN store \cup new |-> after[i]]
      /\ \A i \in DOMAIN store \ new : after[i] = store[i]
  BY <1>4
<1>8. \A i \in new : \E n \in DOMAIN given : given[n].id = i /\ after[i] = given[n]
  BY <1>5, <1>6
<1>9. \A i \in new : after[i] = Stores!Put(<<>>, given)[i]
  BY <1>6
<1>10. IsFiniteSet(new)
  <2> DEFINE f == [n \in 1..len |-> given[n].id]
  <2>1. f \in Surjection(1..len, new)
    BY <1>2 DEF Surjection, new, IdsOf
  <2>2. IsFiniteSet(1..len)
    BY FS_Interval
  <2> HIDE DEF f
  <2> QED BY <2>1, <2>2, FS_Surjection
<1> QED BY <1>7, <1>8, <1>9, <1>10 DEF new, Merged

(* The stores hold what the type says and, as long as no delete by id had an  *)
(* empty filter, the same; and until then their answers agree.                *)
StoresInv ==
  /\ Stores!TypeOK /\ Stores!SameItems /\ swept \in BOOLEAN
  /\ IsFiniteSet(DOMAIN collection)
  /\ swept \/ Stores!SameReplies

LEMMA UpsertStep ==
  ASSUME StoresInv, NEW given \in Stores!Batches, Stores!Upsert(given) PROVE StoresInv'
<1>1. swept' = swept /\ Stores!SameReplies'
  BY DEF Stores!Upsert, Stores!SameReplies
<1>2. CASE UNCHANGED <<items, collection>>
  BY <1>1, <1>2 DEF StoresInv, Stores!TypeOK, Stores!SameItems, Stores!Valid
<1>3. CASE /\ \A n \in 1..Len(given) : Stores!Valid(given[n])
           /\ items' = Stores!Put(items, given) /\ collection' = Stores!Put(collection, given)
  <2>1. /\ DOMAIN given = 1..Len(given)
        /\ \A n \in DOMAIN given : given[n] \in Stores!Item /\ given[n].id \in Ids
    <3>1. PICK len \in Nat : given \in [1..len -> Stores!Item]
      BY DEF Stores!Batches
    <3> QED BY <3>1 DEF Stores!Item
  <2>2. ASSUME NEW store \in {items, collection}, NEW after, after = Stores!Put(store, given)
        PROVE  /\ DOMAIN after \subseteq Ids
               /\ \A i \in DOMAIN after : after[i].id = i /\ after[i] \in Stores!Item
                                          /\ Stores!Valid(after[i])
    <3> DEFINE new == IdsOf(given)
    <3>1. /\ after = [i \in DOMAIN store \cup new |-> after[i]]
          /\ \A i \in DOMAIN store \ new : after[i] = store[i]
          /\ \A i \in new : \E n \in DOMAIN given : given[n].id = i /\ after[i] = given[n]
      <4>1. Merged(store, given, after)
        BY <2>2, PutFacts
      <4> QED BY <4>1 DEF Merged
    <3>6. new \subseteq Ids
      BY <2>1 DEF IdsOf
    <3> HIDE DEF new
    <3>2. DOMAIN after = DOMAIN store \cup new
      BY <3>1
    <3>3. DOMAIN store \subseteq Ids
          /\ \A i \in DOMAIN store : store[i].id = i /\ store[i] \in Stores!Item
                                     /\ Stores!Valid(store[i])
      BY DEF StoresInv, Stores!TypeOK
    <3>4. \A i \in new : after[i].id = i /\ after[i] \in Stores!Item /\ Stores!Valid(after[i])
      BY <1>3, <2>1, <3>1
    <3> QED BY <3>1, <3>2, <3>3, <3>4, <3>6
  <2>3. Stores!TypeOK'
    BY <1>3, <2>2 DEF Stores!TypeOK, Stores!Valid
  <2>4. Stores!SameItems'
    <3>1. CASE items = collection
      BY <1>3, <3>1 DEF Stores!SameItems
    <3>2. CASE swept
      <4> DEFINE new == IdsOf(given)
      <4>1. /\ items' = [i \in DOMAIN items \cup new |-> items'[i]]
            /\ \A i \in DOMAIN items \ new : items'[i] = items[i]
            /\ \A i \in new : items'[i] = Stores!Put(<<>>, given)[i]
        <5>1. Merged(items, given, items')
          BY <1>3, PutFacts
        <5> QED BY <5>1 DEF Merged
      <4>2. /\ collection' = [i \in DOMAIN collection \cup new |-> collection'[i]]
            /\ \A i \in DOMAIN collection \ new : collection'[i] = collection[i]
            /\ \A i \in new : collection'[i] = Stores!Put(<<>>, given)[i]
        <5>1. Merged(collection, given, collection')
          BY <1>3, PutFacts
        <5> QED BY <5>1 DEF Merged
      <4> HIDE DEF new
      <4>3. DOMAIN items' = DOMAIN items \cup new /\ DOMAIN collection' = DOMAIN collection \cup new
        BY <4>1, <4>2
      <4>4. \A i \in DOMAIN items : i \in DOMAIN collection /\ items[i] = collection[i]
        BY DEF StoresInv, Stores!SameItems
      <4> QED BY <1>1, <3>2, <4>1, <4>2, <4>3, <4>4 DEF Stores!SameItems
    <3> QED BY <3>1, <3>2 DEF StoresInv, Stores!SameItems
  <2>5. IsFiniteSet(DOMAIN collection')
    <3>1. Merged(collection, given, collection')
      BY <1>3, PutFacts
    <3>2. IsFiniteSet(DOMAIN collection \cup IdsOf(given))
      BY <3>1, FS_Union DEF StoresInv, Merged
    <3>3. DOMAIN collection' = DOMAIN collection \cup IdsOf(given)
      BY <3>1 DEF Merged
    <3> QED BY <3>2, <3>3
  <2> QED BY <1>1, <2>3, <2>4, <2>5 DEF StoresInv
<1> QED BY <1>2, <1>3 DEF Stores!Upsert

LEMMA DeleteStep ==
  ASSUME Stores!VectorsAssumption, StoresInv, NEW ids, NEW filter \in Stores!Filters,
         Stores!Delete(ids, filter)
  PROVE  StoresInv'
<1>1. CASE /\ UNCHANGED <<items, collection, swept>>
           /\ reply' = [call |-> "delete", memory |-> Stores!Refused, milvus |-> Stores!Refused]
  <2>1. Stores!SameReplies'
    BY <1>1 DEF Stores!SameReplies, Stores!Refused
  <2> QED BY <1>1, <2>1 DEF StoresInv, Stores!TypeOK, Stores!SameItems, Stores!Valid
<1>2. CASE /\ ~(ids = {} /\ filter \notin Scopes)
           /\ ~(ids # {} /\ filter \in Scopes)
           /\ items' = Stores!Drop(items, Stores!Targets(ids, filter))
           /\ collection' = Stores!Drop(collection, Stores!Deleted(ids, filter))
           /\ reply' = [call |-> "delete", memory |-> Stores!Told(Stores!Targets(ids, filter)),
                        milvus |-> Stores!Told(ids)]
           /\ swept' = (swept \/ (ids # {} /\ filter = Unfiltered))
  <2> DEFINE out  == Stores!Targets(ids, filter)
             gone == Stores!Deleted(ids, filter)
  <2>1. /\ DOMAIN items' = DOMAIN items \ out
        /\ \A i \in DOMAIN items' : items'[i] = items[i]
        /\ DOMAIN collection' = DOMAIN collection \ gone
        /\ \A i \in DOMAIN collection' : collection'[i] = collection[i]
    BY <1>2 DEF Stores!Drop
  <2>2. \A i \in DOMAIN items : i \in DOMAIN collection /\ items[i] = collection[i]
    BY DEF StoresInv, Stores!SameItems
  <2>3. Stores!TypeOK'
    BY <2>1 DEF StoresInv, Stores!TypeOK, Stores!Valid
  <2>4. gone \cap DOMAIN items \subseteq out
    BY <1>2, <2>2 DEF Stores!VectorsAssumption, Stores!Targets, Stores!Deleted, Stores!Matches
  <2>5. ASSUME items = collection, ~(ids # {} /\ filter = Unfiltered) PROVE out = gone
    <3>1. CASE ids = {}
      BY <1>2, <2>5, <3>1 DEF Stores!VectorsAssumption, Stores!Targets, Stores!Deleted
    <3>2. CASE ids # {}
      <4>1. filter = NoFilter
        BY <1>2, <2>5, <3>2 DEF Stores!Filters
      <4> QED BY <2>5, <3>2, <4>1 DEF Stores!Targets, Stores!Deleted
    <3> QED BY <3>1, <3>2
  <2>6. /\ reply'.call = "delete" /\ reply'.memory.ok = reply'.milvus.ok
        /\ reply'.memory.ids = out /\ reply'.milvus.ids = ids
    BY <1>2 DEF Stores!Told
  <2>7. ASSUME ~swept' PROVE Stores!SameReplies' /\ items' = collection'
    <3>1. items = collection /\ ~(ids # {} /\ filter = Unfiltered)
      BY <1>2, <2>7 DEF StoresInv, Stores!SameItems
    <3>2. out = gone
      BY <2>5, <3>1
    <3>3. items' = collection'
      BY <1>2, <3>1, <3>2
    <3>4. ids # {} => out \subseteq ids
      BY <3>2 DEF Stores!Deleted
    <3>5. ids \cap DOMAIN items' = {}
      BY <2>1, <3>1, <3>2 DEF Stores!Deleted
    <3>6. out \cap DOMAIN items' = {}
      BY <2>1
    <3> HIDE DEF out, gone
    <3> QED BY <2>6, <3>3, <3>4, <3>5, <3>6 DEF Stores!SameReplies
  <2> HIDE DEF out, gone
  <2>8. \A i \in DOMAIN items' : i \in DOMAIN collection' /\ items'[i] = collection'[i]
    BY <2>1, <2>2, <2>4
  <2>9. swept' \in BOOLEAN
    BY <1>2
  <2>10. IsFiniteSet(DOMAIN collection')
    BY <2>1, FS_Subset DEF StoresInv
  <2> QED BY <2>3, <2>7, <2>8, <2>9, <2>10 DEF StoresInv, Stores!SameItems
<1> QED BY <1>1, <1>2 DEF Stores!Delete

THEOREM StoresCorrect ==
  ASSUME Stores!VectorsAssumption PROVE Stores!Spec => []StoresInv
<1>1. Stores!Init => StoresInv
  <2> SUFFICES ASSUME Stores!Init PROVE StoresInv
    OBVIOUS
  <2>1. DOMAIN items = {} /\ items = collection /\ ~swept /\ swept \in BOOLEAN
    BY DEF Stores!Init, Stores!Empty
  <2>2. Stores!SameReplies
    BY DEF Stores!Init, Stores!Quiet, Stores!Told, Stores!SameReplies
  <2> QED BY <2>1, <2>2, FS_EmptySet DEF StoresInv, Stores!TypeOK, Stores!SameItems
<1>2. StoresInv /\ [Stores!Next]_(Stores!vars) => StoresInv'
  <2> SUFFICES ASSUME StoresInv, [Stores!Next]_(Stores!vars) PROVE StoresInv'
    OBVIOUS
  <2>1. CASE UNCHANGED Stores!vars
    BY <2>1 DEF Stores!vars, StoresInv, Stores!TypeOK, Stores!SameItems, Stores!Valid,
                Stores!SameReplies
  <2>2. CASE Stores!Next
    BY <2>2, UpsertStep, DeleteStep DEF Stores!Next, Stores!Filters
  <2> QED BY <2>1, <2>2
<1> QED BY <1>1, <1>2, PTL DEF Stores!Spec

(* Cutting and then dropping what is below the minimum finds what dropping    *)
(* and then cutting finds: what is better than a hit is above the minimum.    *)
LEMMA SameHits ==
  ASSUME Stores!VectorsAssumption, Stores!TypeOK, items = collection,
         NEW v \in Vectors, NEW limit, NEW filter, NEW least \in Int
  PROVE  Stores!MemoryHits(v, limit, filter, least) = Stores!MilvusHits(v, limit, filter, least)
<1> DEFINE all  == Stores!Scope(items, filter)
           good == {i \in all : Stores!Score(items, v, i) >= least}
<1>1. ASSUME NEW i \in all PROVE Stores!Score(items, v, i) \in Int
  <2>1. i \in DOMAIN items
    BY DEF Stores!Scope
  <2>2. items[i].vector \in Vectors
    BY <2>1 DEF Stores!TypeOK, Stores!Valid
  <2> QED BY <2>2 DEF Stores!VectorsAssumption, Stores!Score
<1>2. ASSUME NEW i \in good
      PROVE  Stores!Better(items, v, good, i) = Stores!Better(items, v, all, i)
  <2>1. \A j \in all : Stores!Score(items, v, j) > Stores!Score(items, v, i) => j \in good
    BY <1>1
  <2> QED BY <2>1 DEF Stores!Better
<1> DEFINE few  == Stores!Best(items, v, good, limit)
           more == Stores!Best(items, v, all, limit)
<1>3. few = {i \in more : Stores!Score(items, v, i) >= least}
  BY <1>2 DEF Stores!Best
<1>4. Stores!MemoryHits(v, limit, filter, least) = {Stores!Score(items, v, i) : i \in few}
  BY DEF Stores!MemoryHits, Stores!Scores
<1>5. Stores!MilvusHits(v, limit, filter, least)
        = {n \in {Stores!Score(items, v, i) : i \in more} : n >= least}
  BY DEF Stores!MilvusHits, Stores!Scores
<1> HIDE DEF few, more
<1> QED BY <1>3, <1>4, <1>5

(* Of a finite set of items one is the best: the fewest are better than it.   *)
LEMMA SomeBest ==
  ASSUME NEW store, NEW v, NEW s, IsFiniteSet(s), s # {},
         \A i \in s : Stores!Score(store, v, i) \in Int
  PROVE  \E i \in s : Stores!Better(store, v, s, i) = {}
<1> DEFINE better == {Stores!Better(store, v, s, i) : i \in s}
<1>1. PICK x \in better : \A y \in better : ~(<<y, x>> \in StrictSubsetOrdering(s))
  <2>1. \A i \in s : Stores!Better(store, v, s, i) \subseteq s
    BY DEF Stores!Better
  <2>2. better \subseteq SUBSET s /\ better # {}
    BY <2>1
  <2>3. IsWellFoundedOn(StrictSubsetOrdering(s), SUBSET s)
    BY FS_FiniteSubsetsOfFinite, FS_StrictSubsetOrderingWellFounded
  <2> HIDE DEF better
  <2> QED BY <2>2, <2>3, WFMin
<1>2. PICK i \in s : x = Stores!Better(store, v, s, i)
  BY <1>1
<1>3. ASSUME NEW j \in x PROVE FALSE
  <2> DEFINE y == Stores!Better(store, v, s, j)
  <2>1. j \in s /\ Stores!Score(store, v, j) > Stores!Score(store, v, i)
    BY <1>2 DEF Stores!Better
  <2>2. x \subseteq s /\ y \subseteq s /\ y \subseteq x /\ j \notin y
    BY <1>2, <2>1 DEF Stores!Better
  <2>3. <<y, x>> \in StrictSubsetOrdering(s)
    <3> HIDE DEF y
    <3> QED BY <2>2, <1>3 DEF StrictSubsetOrdering
  <2> QED BY <1>1, <2>1, <2>3
<1> QED BY <1>2, <1>3

(* The one best hit reaches the threshold when anything does.                 *)
LEMMA SameFound ==
  ASSUME Stores!VectorsAssumption, StoresInv, items = collection,
         NEW v \in Vectors, NEW filter
  PROVE  Stores!MilvusHits(v, 1, filter, Threshold) # {}
           <=> Stores!Near(v, {items[i].vector : i \in Stores!Scope(items, filter)})
<1> DEFINE good == {i \in Stores!Scope(items, filter) : Stores!Score(items, v, i) >= Threshold}
<1>1. Stores!MilvusHits(v, 1, filter, Threshold) = Stores!MemoryHits(v, 1, filter, Threshold)
  BY SameHits DEF StoresInv, Stores!VectorsAssumption
<1>2. Stores!MemoryHits(v, 1, filter, Threshold)
        = {Stores!Score(items, v, i) : i \in Stores!Best(items, v, good, 1)}
  BY DEF Stores!MemoryHits, Stores!Scores
<1>3. Stores!Near(v, {items[i].vector : i \in Stores!Scope(items, filter)}) <=> good # {}
  BY DEF Stores!Near, Stores!Score
<1>4. Stores!Best(items, v, good, 1) \subseteq good
  BY DEF Stores!Best
<1>5. ASSUME good # {} PROVE Stores!Best(items, v, good, 1) # {}
  <2>1. good \subseteq DOMAIN items
    BY DEF Stores!Scope
  <2>2. IsFiniteSet(good)
    BY <2>1, FS_Subset DEF StoresInv
  <2>3. ASSUME NEW i \in good PROVE Stores!Score(items, v, i) \in Int
    <3>1. items[i].vector \in Vectors
      BY <2>1 DEF StoresInv, Stores!TypeOK, Stores!Valid
    <3> QED BY <3>1 DEF Stores!VectorsAssumption, Stores!Score
  <2> HIDE DEF good
  <2>4. PICK i \in good : Stores!Better(items, v, good, i) = {}
    BY <1>5, <2>2, <2>3, SomeBest
  <2>5. Stores!Cardinality({}) = 0
    BY FS_EmptySet DEF Cardinality, Stores!Cardinality
  <2> QED BY <2>4, <2>5 DEF Stores!Best
<1> HIDE DEF good
<1> QED BY <1>1, <1>2, <1>3, <1>4, <1>5

(* And, until then, their answers agree: what is refused and what is gone     *)
(* after a delete, the scores found for any limit and minimum, and what is no *)
(* duplicate.                                                                 *)
THEOREM StoresAlwaysAgree ==
  ASSUME Stores!VectorsAssumption
  PROVE  Stores!Spec =>
           /\ []VectorStoresAgree
           /\ [](swept \/ \A limit \in Nat, least \in Int : Stores!SameScores(limit, least))
<1> DEFINE Everywhere == swept \/ \A limit \in Nat, least \in Int : Stores!SameScores(limit, least)
<1>1. StoresInv => Everywhere
  BY SameHits DEF StoresInv, Stores!SameItems, Stores!SameScores
<1>2. StoresInv => Stores!SameAnswers
  <2> SUFFICES ASSUME StoresInv, ~swept PROVE Stores!SameAnswers
    BY DEF Stores!SameAnswers
  <2>1. items = collection /\ Stores!SameReplies
    BY DEF StoresInv, Stores!SameItems
  <2>2. \A limit \in 1..2, least \in {-1, Threshold} : Stores!SameScores(limit, least)
    BY <1>1 DEF Stores!VectorsAssumption
  <2>3. ASSUME NEW given \in Stores!Comparable, NEW filter \in Stores!Filters
        PROVE  Stores!MemoryUniques(given, filter) = Stores!MilvusUniques(given, filter)
    <3>1. \A n \in DOMAIN given : given[n].vector \in Vectors
      <4>1. PICK len \in Nat : given \in [1..len -> Stores!Item]
        BY DEF Stores!Comparable, Stores!Batches
      <4>2. DOMAIN given = 1..Len(given)
        BY <4>1
      <4> QED BY <4>2 DEF Stores!Comparable, Stores!Valid
    <3>2. Stores!MemoryFound(given, filter) = Stores!MilvusFound(given, filter)
      BY <2>1, <3>1, SameFound DEF Stores!MemoryFound, Stores!MilvusFound
    <3> QED BY <3>2 DEF Stores!MemoryUniques, Stores!MilvusUniques
  <2> QED BY <2>1, <2>2, <2>3 DEF Stores!SameAnswers, Stores!SameUniques
<1> HIDE DEF Everywhere
<1>3. Stores!Spec => []Everywhere
  BY <1>1, StoresCorrect, PTL
<1>4. StoresInv => VectorStoresAgree
  BY <1>2 DEF StoresInv, VectorStoresAgree
<1>5. Stores!Spec => []VectorStoresAgree
  BY <1>4, StoresCorrect, PTL
<1> QED BY <1>3, <1>5 DEF Everywhere

(* The items of a batch that are no duplicates, as the fold finds them.       *)
Positions(given) == [n \in DOMAIN given |-> n]
Longer(unique, given, found, n) ==
  IF n \in found \/ Stores!Near(given[n].vector, {u.vector : u \in Stores!Range(unique)})
  THEN unique ELSE Append(unique, given[n])
IsUniques(f, given, found) ==
  f = [t \in SUBSET DOMAIN Positions(given) |->
         IF t = {} THEN <<>>
         ELSE Longer(f[t \ {Top(t)}], given, found, Positions(given)[Top(t)])]
UniquesOf(given, found) == CHOOSE f : IsUniques(f, given, found)

LEMMA UniquesFold ==
  \A given, found :
    Stores!Uniques(given, found) = UniquesOf(given, found)[DOMAIN Positions(given)]
BY DEF Stores!Uniques, Stores!FoldLeftDomain, Stores!FoldLeft, Stores!MapThenFoldSet, Stores!Max,
       UniquesOf, IsUniques, Longer, Positions, Top

(* Items none of which is like another or like what is stored.                *)
Apart(stored) ==
  {u \in Seq(Stores!Item) :
     \A n \in DOMAIN u :
       /\ u[n].vector \in Vectors
       /\ \A w \in stored : ~(Sim[<<u[n].vector, w>>] >= Threshold)
       /\ \A m \in DOMAIN u \ {n} : ~(Sim[<<u[n].vector, u[m].vector>>] >= Threshold)}

LEMMA LongerApart ==
  ASSUME Stores!VectorsAssumption, NEW given \in Stores!Comparable, NEW stored, NEW found,
         \A n \in DOMAIN given : Stores!Near(given[n].vector, stored) => n \in found,
         NEW unique \in Apart(stored), NEW n \in DOMAIN given
  PROVE  Longer(unique, given, found, n) \in Apart(stored)
<1>1. CASE n \in found \/ Stores!Near(given[n].vector, {u.vector : u \in Stores!Range(unique)})
  BY <1>1 DEF Longer
<1>2. CASE ~(n \in found \/ Stores!Near(given[n].vector, {u.vector : u \in Stores!Range(unique)}))
  <2> DEFINE x == given[n]
             l == Len(unique)
             long == Append(unique, x)
  <2>1. x \in Stores!Item /\ x.vector \in Vectors
    <3>1. PICK k \in Nat : given \in [1..k -> Stores!Item]
      BY DEF Stores!Comparable, Stores!Batches
    <3>2. DOMAIN given = 1..Len(given)
      BY <3>1
    <3> QED BY <3>1, <3>2 DEF Stores!Comparable, Stores!Valid
  <2>2. ~Stores!Near(x.vector, stored)
    BY <1>2
  <2>3. \A w \in stored : ~(Sim[<<x.vector, w>>] >= Threshold)
    BY <2>2 DEF Stores!Near
  <2>4. \A m \in DOMAIN unique : ~(Sim[<<x.vector, unique[m].vector>>] >= Threshold)
    <3>1. ~Stores!Near(x.vector, {u.vector : u \in Stores!Range(unique)})
      BY <1>2
    <3>2. \A m \in DOMAIN unique : unique[m].vector \in {u.vector : u \in Stores!Range(unique)}
      BY DEF Stores!Range
    <3> QED BY <3>1, <3>2 DEF Stores!Near
  <2> HIDE DEF x
  <2>5. unique \in Seq(Stores!Item)
    BY DEF Apart
  <2>6. /\ l \in Nat /\ DOMAIN unique = 1..l /\ long \in Seq(Stores!Item)
        /\ DOMAIN long = 1..l + 1 /\ long[l + 1] = x
        /\ \A m \in 1..l : long[m] = unique[m]
    BY <2>1, <2>5, LenProperties, AppendProperties
  <2> HIDE DEF l, long
  <2>7. \A m \in 1..l : unique[m].vector \in Vectors
    BY <2>6 DEF Apart
  <2>8. \A m \in 1..l : ~(Sim[<<unique[m].vector, x.vector>>] >= Threshold)
    BY <2>1, <2>4, <2>6, <2>7 DEF Stores!VectorsAssumption
  <2>9. ASSUME NEW m \in 1..l + 1
        PROVE  /\ long[m].vector \in Vectors
               /\ \A w \in stored : ~(Sim[<<long[m].vector, w>>] >= Threshold)
    <3>1. CASE m = l + 1
      BY <2>1, <2>3, <2>6, <3>1
    <3>2. CASE m \in 1..l
      BY <2>6, <3>2 DEF Apart
    <3> QED BY <2>6, <3>1, <3>2
  <2>10. ASSUME NEW m \in 1..l + 1, NEW k \in (1..l + 1) \ {m}
         PROVE  ~(Sim[<<long[m].vector, long[k].vector>>] >= Threshold)
    <3>1. CASE m = l + 1
      <4>1. k \in 1..l
        BY <2>6, <3>1
      <4> QED BY <2>4, <2>6, <3>1, <4>1
    <3>2. CASE m \in 1..l /\ k = l + 1
      BY <2>6, <2>8, <3>2
    <3>3. CASE m \in 1..l /\ k \in 1..l
      BY <2>6, <3>3 DEF Apart
    <3> QED BY <2>6, <3>1, <3>2, <3>3
  <2>11. long \in Apart(stored)
    BY <2>6, <2>9, <2>10 DEF Apart
  <2> QED BY <1>2, <2>11 DEF Longer, long, x
<1> QED BY <1>1, <1>2

LEMMA UniquesApart ==
  ASSUME Stores!VectorsAssumption, NEW given \in Stores!Comparable, NEW stored, NEW found,
         \A n \in DOMAIN given : Stores!Near(given[n].vector, stored) => n \in found
  PROVE  Stores!Uniques(given, found) \in Apart(stored)
<1>1. PICK n \in Nat : DOMAIN given = 1..n
  BY DEF Stores!Comparable, Stores!Batches
<1>2. DOMAIN Positions(given) = 1..n /\ \A k \in 1..n : Positions(given)[k] = k
  BY <1>1 DEF Positions
<1>3. <<>> \in Apart(stored)
  <2>1. <<>> \in Seq(Stores!Item) /\ DOMAIN <<>> = {}
    BY EmptySeq
  <2> QED BY <2>1 DEF Apart
<1>4. \A u \in Apart(stored), k \in 1..n : Longer(u, given, found, k) \in Apart(stored)
  BY <1>1, LongerApart
<1> DEFINE G == [p \in Apart(stored) \X (1..n) |-> Longer(p[1], given, found, p[2])]
           g == RunOf(<<>>, G, 1..n)
<1>5. Runs(g, <<>>, G, 1..n) /\ IsRun(g, <<>>, G, 1..n)
  <2> HIDE DEF G, g
  <2>1. IsRun(g, <<>>, G, 1..n)
    BY RunExists DEF g
  <2> QED BY <2>1, RunFacts
<1> HIDE DEF g
<1>6. \A u \in Apart(stored), k \in 1..n : G[<<u, k>>] = Longer(u, given, found, k)
  OBVIOUS
<1> HIDE DEF G
<1>7. \A t \in SUBSET (1..n) : g[t] \in Apart(stored)
  <2>1. g[{}] \in Apart(stored)
    BY <1>3, <1>5 DEF Runs
  <2>2. \A t \in SUBSET (1..n) :
          t # {} /\ g[t \ {Top(t)}] \in Apart(stored) => g[t] \in Apart(stored)
    <3> SUFFICES ASSUME NEW t \in SUBSET (1..n), t # {}, g[t \ {Top(t)}] \in Apart(stored)
                 PROVE  g[t] \in Apart(stored)
      OBVIOUS
    <3>1. Top(t) \in 1..n /\ g[t] = G[<<g[t \ {Top(t)}], Top(t)>>]
      BY <1>5 DEF Runs
    <3>2. g[t] = Longer(g[t \ {Top(t)}], given, found, Top(t))
      BY <1>6, <3>1
    <3> QED BY <1>4, <3>1, <3>2
  <2> QED BY <2>1, <2>2, RunIn
<1>8. IsUniques(g, given, found)
  <2>1. \A t \in SUBSET (1..n) : t # {} =>
          G[<<g[t \ {Top(t)}], Top(t)>>] =
            Longer(g[t \ {Top(t)}], given, found, Positions(given)[Top(t)])
    <3> SUFFICES ASSUME NEW t \in SUBSET (1..n), t # {}
                 PROVE  G[<<g[t \ {Top(t)}], Top(t)>>] =
                          Longer(g[t \ {Top(t)}], given, found, Positions(given)[Top(t)])
      OBVIOUS
    <3>1. Top(t) \in 1..n /\ t \ {Top(t)} \in SUBSET (1..n)
      BY TopFacts
    <3>2. g[t \ {Top(t)}] \in Apart(stored) /\ Positions(given)[Top(t)] = Top(t)
      BY <1>2, <1>7, <3>1
    <3> QED BY <1>6, <3>1, <3>2
  <2>2. [t \in SUBSET (1..n) |-> IF t = {} THEN <<>> ELSE G[<<g[t \ {Top(t)}], Top(t)>>]]
          = [t \in SUBSET (1..n) |->
               IF t = {} THEN <<>>
               ELSE Longer(g[t \ {Top(t)}], given, found, Positions(given)[Top(t)])]
    BY <2>1
  <2> QED BY <1>2, <1>5, <2>2 DEF IsUniques, IsRun
<1> DEFINE f == UniquesOf(given, found)
<1>9. IsUniques(f, given, found)
  BY <1>8 DEF UniquesOf
<1> HIDE DEF f
<1>10. /\ f[{}] = <<>>
       /\ \A t \in SUBSET (1..n) :
            t # {} => f[t] = Longer(f[t \ {Top(t)}], given, found, Positions(given)[Top(t)])
  <2>1. \A t \in SUBSET (1..n) :
          f[t] = IF t = {} THEN <<>>
                 ELSE Longer(f[t \ {Top(t)}], given, found, Positions(given)[Top(t)])
    BY <1>2, <1>9 DEF IsUniques
  <2> QED BY <2>1
<1>11. \A t \in SUBSET (1..n) : f[t] \in Apart(stored)
  <2>1. \A t \in SUBSET (1..n) :
          t # {} /\ f[t \ {Top(t)}] \in Apart(stored) => f[t] \in Apart(stored)
    <3> SUFFICES ASSUME NEW t \in SUBSET (1..n), t # {}, f[t \ {Top(t)}] \in Apart(stored)
                 PROVE  f[t] \in Apart(stored)
      OBVIOUS
    <3>1. Top(t) \in 1..n
      BY TopFacts
    <3>2. Positions(given)[Top(t)] = Top(t)
      BY <1>2, <3>1
    <3> QED BY <1>4, <1>10, <3>1, <3>2
  <2> QED BY <1>3, <1>10, <2>1, RunIn
<1>12. Stores!Uniques(given, found) = f[1..n]
  BY <1>2, UniquesFold DEF f
<1> QED BY <1>11, <1>12

(* Whatever is stored, in whatever order a batch brings its items, and        *)
(* however many: deduplication keeps no two that are alike and none that is   *)
(* like a stored one.                                                         *)
THEOREM UniqueAlwaysApart ==
  ASSUME Stores!VectorsAssumption
  PROVE  Stores!Spec => []UniqueApart
<1>1. UniqueApart
  <2> SUFFICES ASSUME NEW given \in Stores!Comparable, NEW filter \in Stores!Filters
               PROVE  LET unique == Stores!MemoryUniques(given, filter)
                      IN \A n \in 1..Len(unique) :
                           ~Stores!Near(unique[n].vector,
                               {unique[m].vector : m \in 1..Len(unique) \ {n}}
                                 \cup {items[i].vector : i \in Stores!Scope(items, filter)})
    BY DEF UniqueApart, Stores!UniqueApart
  <2> DEFINE stored == {items[i].vector : i \in Stores!Scope(items, filter)}
             found == Stores!MemoryFound(given, filter)
             unique == Stores!Uniques(given, found)
  <2>1. \A n \in DOMAIN given : Stores!Near(given[n].vector, stored) => n \in found
    BY DEF Stores!MemoryFound
  <2>2. unique \in Apart(stored)
    <3> HIDE DEF stored, found
    <3> QED BY <2>1, UniquesApart
  <2> HIDE DEF stored, found, unique
  <2>3. DOMAIN unique = 1..Len(unique)
    BY <2>2, LenProperties DEF Apart
  <2>4. \A n \in 1..Len(unique) :
          ~Stores!Near(unique[n].vector,
                       {unique[m].vector : m \in 1..Len(unique) \ {n}} \cup stored)
    BY <2>2, <2>3 DEF Apart, Stores!Near
  <2> QED BY <2>4 DEF Stores!MemoryUniques, unique, found, stored
<1> QED BY <1>1, PTL DEF Stores!Spec

--------------------------------------------------------------------------------
(* The two interest stores.                                                   *)
(* Both stores count an event once, and add the same to the same weights; an  *)
(* edge of Neo4j is one that the memory store knows.                          *)
SameStores == graph = relations /\ events = nodes

EdgesKnown == \A e \in DOMAIN edges : e \in DOMAIN Related /\ edges[e] = Related[e]

LEMMA InterestsStep ==
  ASSUME SameStores, EdgesKnown, [Interests!Next]_(Interests!vars)
  PROVE  SameStores' /\ EdgesKnown'
<1>1. CASE UNCHANGED Interests!vars
  BY <1>1 DEF Interests!vars, SameStores, EdgesKnown
<1>2. ASSUME NEW id \in Events, NEW u \in Users, NEW p \in Payloads, Interests!Update(id, u, p)
      PROVE  SameStores' /\ edges' = edges
  BY <1>2 DEF Interests!Update, Interests!MemoryUpdate, Interests!Neo4jUpdate, SameStores
<1> QED BY <1>1, <1>2 DEF Interests!Next, EdgesKnown

LEMMA SameStoresAlways == Interests!Spec => [](SameStores /\ EdgesKnown)
<1>1. Interests!Init => SameStores /\ EdgesKnown
  <2> SUFFICES ASSUME Interests!Init PROVE SameStores /\ EdgesKnown
    OBVIOUS
  <2>1. PICK some \in SUBSET DOMAIN Related : edges = [e \in some |-> Related[e]]
    BY DEF Interests!Init, Interests!Loaded
  <2> QED BY <2>1 DEF Interests!Init, SameStores, EdgesKnown
<1>2. SameStores /\ EdgesKnown /\ [Interests!Next]_(Interests!vars) => (SameStores /\ EdgesKnown)'
  BY InterestsStep
<1> QED BY <1>1, <1>2, PTL DEF Interests!Spec

(* A row of Neo4j is a topic with itself, which memory finds as a match, or   *)
(* an edge, which memory finds as a path; never both.                         *)
LEMMA RowsFound ==
  ASSUME SameStores, EdgesKnown, NEW u, NEW article
  PROVE  Interests!Neo4jScores(u, article) \subseteq Interests!MemoryScores(u, article)
<1> SUFFICES ASSUME NEW r \in Interests!Rows(u, article)
             PROVE  Interests!RowScore(u, r) \in Interests!MemoryScores(u, article)
  BY DEF Interests!Neo4jScores
<1>1. r[1] \in DOMAIN graph[u] /\ r[2] \in article /\ (r[1] = r[2] \/ r \in DOMAIN edges)
  BY DEF SameStores, Interests!Rows
<1>2. CASE r \in DOMAIN edges
  <2>1. r \in Interests!MemoryPaths(u, article)
    BY <1>1, <1>2 DEF EdgesKnown, Interests!MemoryPaths
  <2>2. Interests!RowScore(u, r) = graph[u][r[1]] * Related[r]
    BY <1>2 DEF SameStores, EdgesKnown, Interests!RowScore
  <2> QED BY <2>1, <2>2 DEF Interests!MemoryScores
<1>3. CASE r \notin DOMAIN edges
  <2>1. r[1] \in Interests!MemoryMatched(u, article)
    BY <1>1, <1>3 DEF Interests!MemoryMatched
  <2>2. Interests!RowScore(u, r) = graph[u][r[1]] * 100
    BY <1>3 DEF SameStores, Interests!RowScore
  <2> QED BY <2>1, <2>2 DEF Interests!MemoryScores
<1> QED BY <1>2, <1>3

(* What memory matches is a row, and so is a path of it that is an edge.      *)
LEMMA PathsFound ==
  ASSUME Interests!InterestAssumption, SameStores, EdgesKnown, NEW u, NEW article,
         Interests!MemoryPaths(u, article) \subseteq DOMAIN edges
  PROVE  Interests!MemoryScores(u, article) \subseteq Interests!Neo4jScores(u, article)
<1>1. ASSUME NEW t \in Interests!MemoryMatched(u, article)
      PROVE  graph[u][t] * 100 \in Interests!Neo4jScores(u, article)
  <2>1. <<t, t>> \in Interests!Rows(u, article)
    BY DEF SameStores, Interests!MemoryMatched, Interests!Rows
  <2>2. <<t, t>> \notin DOMAIN edges
    BY DEF EdgesKnown, Interests!InterestAssumption
  <2>3. Interests!RowScore(u, <<t, t>>) = graph[u][t] * 100
    BY <2>2 DEF SameStores, Interests!RowScore
  <2> QED BY <2>1, <2>3 DEF Interests!Neo4jScores
<1>2. ASSUME NEW e \in Interests!MemoryPaths(u, article)
      PROVE  graph[u][e[1]] * Related[e] \in Interests!Neo4jScores(u, article)
  <2>1. e \in DOMAIN edges /\ edges[e] = Related[e] /\ e = <<e[1], e[2]>>
    BY DEF EdgesKnown, Interests!MemoryPaths, Interests!InterestAssumption
  <2>2. e \in Interests!Rows(u, article)
    BY <2>1 DEF SameStores, Interests!MemoryPaths, Interests!Rows
  <2>3. Interests!RowScore(u, e) = graph[u][e[1]] * Related[e]
    BY <2>1 DEF SameStores, Interests!RowScore
  <2> QED BY <2>2, <2>3 DEF Interests!Neo4jScores
<1> QED BY <1>1, <1>2 DEF Interests!MemoryScores

(* For every set of users, topics, events and payloads: both stores list the  *)
(* same interests, whatever is repeated, Neo4j explains a recommendation by   *)
(* nothing that memory does not know, and both give it the same score if all  *)
(* that memory finds related is an edge of Neo4j; when no topic is related to *)
(* itself: such an edge would take the place of the match in Neo4j, and only  *)
(* be added to it in memory.                                                  *)
THEOREM InterestsAlwaysAgree ==
  ASSUME Interests!InterestAssumption PROVE Interests!Spec => []InterestStoresAgree
<1>1. SameStores => Interests!SameInterests
  BY DEF SameStores, Interests!SameInterests
<1>2. SameStores /\ EdgesKnown => Interests!SameScore
  <2> SUFFICES ASSUME SameStores, EdgesKnown, NEW u \in Users, NEW article \in SUBSET Topics,
                      Interests!MemoryPaths(u, article) \subseteq DOMAIN edges
               PROVE  Interests!MemoryScore(u, article) = Interests!Neo4jScore(u, article)
    BY RowsFound DEF Interests!SameScore
  <2>1. Interests!MemoryScores(u, article) = Interests!Neo4jScores(u, article)
    BY RowsFound, PathsFound
  <2> QED BY <2>1 DEF Interests!MemoryScore, Interests!Neo4jScore
<1>3. SameStores /\ EdgesKnown => InterestStoresAgree
  BY <1>1, <1>2 DEF InterestStoresAgree
<1> QED BY <1>3, SameStoresAlways, PTL

--------------------------------------------------------------------------------
(* The embedding provider (EmbeddingCache).                                   *)
(* The sequences of a sequence, put after each other, one more at a time.     *)
IsJoin(e, seqs, n) == e = [i \in 1..n |-> IF i = 1 THEN seqs[i] ELSE e[i - 1] \o seqs[i]]
JoinOf(seqs, n) == CHOOSE e : IsJoin(e, seqs, n)
Joins(e, seqs, n) ==
  \A i \in 1..n : e[i] = IF i = 1 THEN seqs[i] ELSE e[i - 1] \o seqs[i]

LEMMA JoinFacts ==
  ASSUME NEW e, NEW seqs, NEW n, IsJoin(e, seqs, n)
  PROVE  Joins(e, seqs, n)
BY DEF IsJoin, Joins

LEMMA JoinExists ==
  ASSUME NEW seqs, NEW n \in Nat
  PROVE  IsJoin(JoinOf(seqs, n), seqs, n)
<1> DEFINE S == {m \in 0..n : \E e : IsJoin(e, seqs, m)}
<1>1. 0 \in S
  <2>1. IsJoin([i \in 1..0 |-> seqs], seqs, 0)
    BY DEF IsJoin
  <2> QED BY <2>1
<1>2. ASSUME NEW m \in 1..n, m - 1 \in S PROVE m \in S
  <2>1. PICK d : IsJoin(d, seqs, m - 1)
    BY <1>2
  <2> DEFINE e == [i \in 1..m |-> IF i < m THEN d[i]
                                  ELSE IF m = 1 THEN seqs[m] ELSE d[m - 1] \o seqs[m]]
  <2>2. Joins(d, seqs, m - 1)
    BY <2>1, JoinFacts
  <2>3. ASSUME NEW i \in 1..m
        PROVE  e[i] = IF i = 1 THEN seqs[i] ELSE e[i - 1] \o seqs[i]
    <3>1. CASE i = m
      <4>1. m > 1 => m - 1 \in 1..m /\ m - 1 < m
        OBVIOUS
      <4> QED BY <3>1, <4>1
    <3>2. CASE i < m
      <4>1. i \in 1..m - 1 /\ e[i] = d[i]
        BY <3>2
      <4>2. i > 1 => i - 1 \in 1..m /\ i - 1 < m
        BY <3>2
      <4>3. i > 1 => e[i - 1] = d[i - 1]
        BY <4>2
      <4>4. d[i] = IF i = 1 THEN seqs[i] ELSE d[i - 1] \o seqs[i]
        BY <2>2, <4>1 DEF Joins
      <4> HIDE DEF e
      <4> QED BY <4>1, <4>3, <4>4
    <3> QED BY <3>1, <3>2
  <2>4. e = [i \in 1..m |-> e[i]]
    OBVIOUS
  <2> HIDE DEF e
  <2>5. IsJoin(e, seqs, m)
    BY <2>3, <2>4 DEF IsJoin
  <2> QED BY <2>5
<1> HIDE DEF S
<1>3. n \in S
  BY <1>1, <1>2, UpTo
<1> QED BY <1>3 DEF S, JoinOf

LEMMA JoinsAgree ==
  ASSUME NEW n \in Nat, NEW m \in 0..n, NEW e, NEW d, NEW a, NEW b,
         Joins(e, a, m), Joins(d, b, n), Equal(a, b, 1..m)
  PROVE  \A i \in 1..m : e[i] = d[i]
<1> DEFINE S == {i \in 0..m : i = 0 \/ e[i] = d[i]}
<1>1. 0 \in S /\ m \in Nat
  OBVIOUS
<1>2. ASSUME NEW i \in 1..m, i - 1 \in S PROVE i \in S
  <2>1. e[i] = IF i = 1 THEN a[i] ELSE e[i - 1] \o a[i]
    BY DEF Joins
  <2>2. d[i] = IF i = 1 THEN b[i] ELSE d[i - 1] \o b[i]
    BY DEF Joins
  <2>3. a[i] = b[i]
    BY DEF Equal
  <2> QED BY <1>2, <2>1, <2>2, <2>3
<1> HIDE DEF S
<1>3. \A i \in 0..m : i \in S
  BY <1>1, <1>2, UpTo
<1> QED BY <1>3 DEF S

LEMMA FlattenJoins ==
  \A seqs : Embeddings!FlattenSeq(seqs) =
              IF Len(seqs) = 0 THEN seqs ELSE JoinOf(seqs, Len(seqs))[Len(seqs)]
BY DEF Embeddings!FlattenSeq, JoinOf, IsJoin

(* The first n of the sequences, joined.                                      *)
Joined(seqs, n) == Embeddings!FlattenSeq(SubSeq(seqs, 1, n))

LEMMA JoinedFacts ==
  ASSUME NEW A, NEW seqs \in Seq(Seq(A))
  PROVE  /\ Joined(seqs, 0) = <<>>
         /\ Embeddings!FlattenSeq(seqs) = Joined(seqs, Len(seqs))
         /\ \A n \in 1..Len(seqs) : Joined(seqs, n) = Joined(seqs, n - 1) \o seqs[n]
         /\ \A n \in 0..Len(seqs) : Joined(seqs, n) \in Seq(A)
<1> DEFINE l == Len(seqs)
           head(n) == SubSeq(seqs, 1, n)
<1>1. l \in Nat /\ seqs \in [1..l -> Seq(A)]
  BY LenProperties
<1> HIDE DEF l
<1>2. ASSUME NEW n \in 0..l
      PROVE  /\ head(n) \in Seq(Seq(A)) /\ Len(head(n)) = n
             /\ \A i \in 1..n : head(n)[i] = seqs[i]
  <2>1. n \in Int /\ \A i \in 1..n : seqs[i] \in Seq(A)
    BY <1>1
  <2>2. /\ head(n) \in Seq(Seq(A))
        /\ Len(head(n)) = IF 1 <= n THEN n - 1 + 1 ELSE 0
        /\ \A i \in 1..n - 1 + 1 : head(n)[i] = seqs[1 + i - 1]
    BY <2>1, SubSeqProperties
  <2> HIDE DEF head
  <2>3. Len(head(n)) = n
    BY <2>1, <2>2
  <2>4. \A i \in 1..n : head(n)[i] = seqs[i]
    BY <2>1, <2>2
  <2> QED BY <2>2, <2>3, <2>4
<1> DEFINE J(n) == JoinOf(head(n), n)
<1>3. ASSUME NEW n \in 0..l PROVE Joins(J(n), head(n), n)
  BY JoinExists, JoinFacts
<1>4. ASSUME NEW n \in 1..l PROVE Joined(seqs, n) = J(n)[n]
  <2>1. Len(head(n)) = n /\ n # 0
    BY <1>1, <1>2
  <2>2. Joined(seqs, n) = Embeddings!FlattenSeq(head(n))
    BY DEF Joined
  <2> HIDE DEF head
  <2> QED BY <2>1, <2>2, FlattenJoins
<1>5. Joined(seqs, 0) = <<>>
  <2>1. head(0) = <<>>
    BY SubSeqEmpty
  <2>2. Len(<<>>) = 0
    BY EmptySeq
  <2> QED BY <2>1, <2>2, FlattenJoins DEF Joined
<1>6. ASSUME NEW n \in 1..l PROVE seqs[n] \in Seq(A) /\ n \in 0..l /\ n - 1 \in 0..l
  BY <1>1
<1>7. ASSUME NEW n \in 1..l PROVE Joined(seqs, n) = Joined(seqs, n - 1) \o seqs[n]
  <2>1. Joins(J(n), head(n), n) /\ Joins(J(n - 1), head(n - 1), n - 1)
    BY <1>3, <1>6
  <2>2. head(n)[n] = seqs[n]
    BY <1>2, <1>6
  <2>3. CASE n = 1
    <3>1. J(n)[n] = seqs[n]
      <4> HIDE DEF J, head
      <4> QED BY <2>1, <2>2, <2>3 DEF Joins
    <3>2. <<>> \o seqs[n] = seqs[n]
      BY <1>6, ConcatEmptySeq
    <3>3. Joined(seqs, n - 1) = <<>>
      BY <1>5, <2>3
    <3> QED BY <1>4, <3>1, <3>2, <3>3
  <2>4. CASE n > 1
    <3>1. Equal(head(n - 1), head(n), 1..n - 1)
      BY <1>2, <1>6 DEF Equal
    <3>2. n - 1 \in 1..l /\ n \in Nat /\ n - 1 \in 0..n /\ n - 1 \in 1..n - 1
      BY <2>4, <1>1
    <3>3. J(n - 1)[n - 1] = J(n)[n - 1]
      <4> HIDE DEF J, head
      <4> QED BY <2>1, <3>1, <3>2, JoinsAgree
    <3>4. J(n)[n] = J(n)[n - 1] \o seqs[n]
      <4>1. n \in 1..n /\ n # 1
        BY <2>4
      <4> DEFINE e == J(n)
                 s == head(n)
      <4>2. Joins(e, s, n) /\ s[n] = seqs[n]
        BY <2>1, <2>2
      <4> HIDE DEF e, s
      <4>3. e[n] = e[n - 1] \o s[n]
        BY <4>1, <4>2 DEF Joins
      <4> QED BY <4>2, <4>3 DEF e
    <3>5. Joined(seqs, n - 1) = J(n - 1)[n - 1] /\ Joined(seqs, n) = J(n)[n]
      BY <1>4, <3>2
    <3> QED BY <3>3, <3>4, <3>5
  <2>5. n = 1 \/ n > 1
    OBVIOUS
  <2> HIDE DEF J, head
  <2> QED BY <2>3, <2>4, <2>5
<1> HIDE DEF J, head
<1>8. \A n \in 0..l : Joined(seqs, n) \in Seq(A)
  <2> DEFINE S == {n \in 0..l : Joined(seqs, n) \in Seq(A)}
  <2>1. 0 \in S
    <3>1. <<>> \in Seq(A)
      BY EmptySeq
    <3>2. 0 \in 0..l
      BY <1>1
    <3>3. Joined(seqs, 0) \in Seq(A)
      BY <1>5, <3>1
    <3> QED BY <3>2, <3>3
  <2>2. ASSUME NEW n \in 1..l, n - 1 \in S PROVE n \in S
    BY <1>6, <1>7, <2>2, ConcatProperties
  <2> HIDE DEF S
  <2>3. \A n \in 0..l : n \in S
    BY <1>1, <2>1, <2>2, UpTo
  <2> QED BY <2>3 DEF S
<1>9. Embeddings!FlattenSeq(seqs) = Joined(seqs, l)
  BY SubSeqFull DEF Joined, l
<1> QED BY <1>5, <1>7, <1>8, <1>9 DEF l

(* What is joined can be cut out of the whole again.                          *)
LEMMA Slice ==
  ASSUME NEW A, NEW seqs \in Seq(Seq(A)), NEW n \in 1..Len(seqs)
  PROVE  LET from == Len(Joined(seqs, n - 1))
         IN SubSeq(Embeddings!FlattenSeq(seqs), from + 1, from + Len(seqs[n])) = seqs[n]
<1> DEFINE l == Len(seqs)
           J(k) == Joined(seqs, k)
           part == seqs[n]
           whole == J(l)
           from == Len(J(n - 1))
<1>1. /\ l \in Nat /\ n - 1 \in 0..l /\ n \in 0..l /\ l \in 0..l /\ part \in Seq(A)
      /\ \A k \in 1..l : seqs[k] \in Seq(A) /\ k - 1 \in 0..l /\ k \in 0..l
  BY LenProperties
<1>2. /\ Embeddings!FlattenSeq(seqs) = whole
      /\ \A k \in 1..l : J(k) = J(k - 1) \o seqs[k]
      /\ \A k \in 0..l : J(k) \in Seq(A)
  BY JoinedFacts
<1> HIDE DEF J, l, part
<1>3. /\ \A k \in 0..l : Len(J(k)) \in Nat
      /\ \A k \in 1..l : Len(seqs[k]) \in Nat /\ Len(J(k)) = Len(J(k - 1)) + Len(seqs[k])
  BY <1>1, <1>2, LenProperties, ConcatProperties
<1>4. ASSUME NEW k \in 1..l, NEW p \in 1..Len(J(k - 1)) PROVE J(k)[p] = J(k - 1)[p]
  <2> DEFINE a == J(k - 1)
             b == seqs[k]
  <2>1. a \in Seq(A) /\ b \in Seq(A) /\ J(k) = a \o b
    BY <1>1, <1>2
  <2>2. Len(a) \in Nat /\ Len(b) \in Nat
    BY <1>1, <1>3
  <2> HIDE DEF a, b
  <2>3. p \in 1..Len(a)
    BY DEF a
  <2>4. p <= Len(a) /\ p \in 1..Len(a) + Len(b)
    BY <2>2, <2>3
  <2> QED BY <2>1, <2>4, ConcatProperties DEF a
<1>5. /\ Len(J(n)) <= Len(whole)
      /\ \A p \in 1..Len(J(n)) : whole[p] = J(n)[p]
  <2> DEFINE Reaches(k) == /\ Len(J(n)) <= Len(J(k))
                           /\ \A p \in 1..Len(J(n)) : J(k)[p] = J(n)[p]
             S == {k \in 0..l : k >= n => Reaches(k)}
  <2>1. 0 \in S
    BY <1>1
  <2>2. ASSUME NEW k \in 1..l, k - 1 \in S PROVE k \in S
    <3>1. CASE k < n
      BY <1>1, <3>1
    <3>2. CASE k = n
      BY <1>1, <1>3, <3>2
    <3>3. CASE k > n
      <4>1. Reaches(k - 1)
        BY <1>1, <2>2, <3>3
      <4>2. Len(J(n)) \in Nat /\ Len(J(k - 1)) \in Nat /\ Len(seqs[k]) \in Nat
            /\ Len(J(k)) = Len(J(k - 1)) + Len(seqs[k])
        BY <1>1, <1>3
      <4>3. Len(J(n)) <= Len(J(k))
        <5> DEFINE a == Len(J(n))
                   b == Len(J(k - 1))
                   c == Len(seqs[k])
                   d == Len(J(k))
        <5>1. a <= b /\ a \in Nat /\ b \in Nat /\ c \in Nat /\ d = b + c
          BY <4>1, <4>2
        <5> HIDE DEF a, b, c, d
        <5>2. a <= d
          BY <5>1
        <5> QED BY <5>2 DEF a, d
      <4>4. ASSUME NEW p \in 1..Len(J(n)) PROVE J(k)[p] = J(n)[p]
        <5>1. p \in 1..Len(J(k - 1))
          BY <4>1, <4>2
        <5> QED BY <1>4, <4>1, <5>1
      <4> QED BY <1>1, <4>3, <4>4
    <3> QED BY <1>1, <3>1, <3>2, <3>3
  <2> HIDE DEF S
  <2>3. \A k \in 0..l : k \in S
    BY <1>1, <2>1, <2>2, UpTo
  <2>4. Reaches(l)
    <3>1. l >= n
      BY <1>1 DEF l
    <3> HIDE DEF Reaches
    <3> QED BY <1>1, <2>3, <3>1 DEF S
  <2> QED BY <2>4
<1>6. from \in Nat /\ Len(part) \in Nat /\ Len(J(n)) = from + Len(part) /\ whole \in Seq(A)
  BY <1>1, <1>2, <1>3 DEF part, l
<1>7. \A p \in 1..Len(part) : J(n)[from + p] = part[p]
  <2> SUFFICES ASSUME NEW p \in 1..Len(part) PROVE J(n)[from + p] = part[p]
    OBVIOUS
  <2>1. J(n) = J(n - 1) \o part /\ J(n - 1) \in Seq(A)
    BY <1>1, <1>2 DEF part, l
  <2>2. from + p \in 1..from + Len(part) /\ ~(from + p <= from) /\ from + p - from = p
    BY <1>6
  <2> HIDE DEF from
  <2>3. (J(n - 1) \o part)[from + p] = part[from + p - from]
    <3> USE DEF from
    <3>1. \A i \in 1..Len(J(n - 1)) + Len(part) :
            (J(n - 1) \o part)[i] = IF i <= Len(J(n - 1)) THEN J(n - 1)[i]
                                    ELSE part[i - Len(J(n - 1))]
      BY <1>1, <2>1, ConcatProperties
    <3> HIDE DEF from
    <3> QED BY <2>2, <3>1 DEF from
  <2> QED BY <2>1, <2>2, <2>3
<1> DEFINE cut == SubSeq(whole, from + 1, from + Len(part))
<1> HIDE DEF from, whole
<1>8. \A i \in from + 1..from + Len(part) : whole[i] \in A
  <2>1. Len(whole) \in Nat /\ whole \in [1..Len(whole) -> A]
    BY <1>6, LenProperties
  <2> QED BY <1>5, <1>6, <2>1
<1>9. /\ cut \in Seq(A) /\ Len(cut) = Len(part)
      /\ \A p \in 1..Len(part) : cut[p] = whole[from + p]
  <2> DEFINE m == from + 1
             k == from + Len(part)
  <2>1. m \in Int /\ k \in Int /\ k - m + 1 = Len(part)
        /\ (IF m <= k THEN k - m + 1 ELSE 0) = Len(part)
        /\ \A p \in 1..Len(part) : m + p - 1 = from + p
    BY <1>6
  <2>2. \A i \in m..k : whole[i] \in A
    BY <1>8
  <2> HIDE DEF m, k
  <2>3. /\ SubSeq(whole, m, k) \in Seq(A)
        /\ Len(SubSeq(whole, m, k)) = IF m <= k THEN k - m + 1 ELSE 0
        /\ \A i \in 1 .. k - m + 1 : SubSeq(whole, m, k)[i] = whole[m + i - 1]
    BY <2>1, <2>2, SubSeqProperties
  <2>4. \A p \in 1..Len(part) : SubSeq(whole, m, k)[p] = whole[from + p]
    BY <2>1, <2>3
  <2> QED BY <2>1, <2>3, <2>4 DEF m, k
<1>10. \A p \in 1..Len(part) : cut[p] = part[p]
  <2> SUFFICES ASSUME NEW p \in 1..Len(part) PROVE cut[p] = part[p]
    OBVIOUS
  <2>1. from + p \in 1..Len(J(n))
    BY <1>6
  <2> QED BY <1>5, <1>7, <1>9, <2>1
<1> HIDE DEF cut
<1>11. cut = part
  BY <1>1, <1>9, <1>10, SeqEqual
<1> QED BY <1>2, <1>11 DEF cut, from, part, J

LEMMA Division ==
  ASSUME NEW l \in Nat, NEW size \in Nat \ {0}
  PROVE  LET q == (l + size - 1) \div size
         IN q \in Nat /\ l <= q * size /\ \A b \in 1..q : (b - 1) * size < l
<1> DEFINE q == (l + size - 1) \div size
<1>1. q \in Int /\ size * q <= l + size - 1 /\ l + size - 1 < size * (q + 1)
  OBVIOUS
<1> HIDE DEF q
<1>2. q >= 0 /\ l <= q * size
  BY <1>1
<1>3. ASSUME NEW b \in 1..q PROVE (b - 1) * size < l
  <2>1. (b - 1) * size <= (q - 1) * size
    BY <1>1
  <2> QED BY <1>1, <2>1
<1> QED BY <1>1, <1>2, <1>3 DEF q

(* The batches that the chunks are cut into bring back the vectors of all of  *)
(* them, in their order.                                                      *)
LEMMA AllReceived ==
  ASSUME BatchSize \in Nat \ {0}, NEW A, NEW flat \in Seq(A)
  PROVE  Embeddings!Received(flat) = flat
<1> DEFINE l == Len(flat)
           q == Embeddings!Batches(flat)
           end(b) == IF b * BatchSize < l THEN b * BatchSize ELSE l
           parts == [b \in 1..q |-> Embeddings!Batch(flat, b)]
<1>1. l \in Nat /\ DOMAIN flat = 1..l /\ \A p \in 1..l : flat[p] \in A
  BY LenProperties
<1>2. q \in Nat /\ l <= q * BatchSize /\ \A b \in 1..q : (b - 1) * BatchSize < l
  BY <1>1, Division DEF Embeddings!Batches
<1> HIDE DEF l, q
<1>3. \A b \in 0..q : b * BatchSize \in Nat /\ end(b) \in 0..l
  BY <1>1, <1>2
<1>4. ASSUME NEW b \in 1..q
      PROVE  /\ end(b - 1) = (b - 1) * BatchSize /\ end(b - 1) <= end(b)
             /\ Embeddings!Batch(flat, b) = SubSeq(flat, end(b - 1) + 1, end(b))
  <2>1. (b - 1) * BatchSize < l /\ b * BatchSize = (b - 1) * BatchSize + BatchSize
    BY <1>2
  <2>2. b - 1 \in 0..q /\ b \in 0..q
    BY <1>2
  <2>3. (b - 1) * BatchSize \in Nat
    BY <1>3, <2>2
  <2>4. end(b - 1) = (b - 1) * BatchSize /\ end(b - 1) <= end(b)
    BY <1>1, <2>1, <2>3
  <2> QED BY <2>4 DEF Embeddings!Batch, l
<1>5. end(0) = 0 /\ end(q) = l
  BY <1>1, <1>2
<1> HIDE DEF end
<1>6. ASSUME NEW b \in 1..q
      PROVE  /\ b - 1 \in 0..q /\ b \in 0..q
             /\ end(b - 1) \in 0..l /\ end(b) \in 0..l /\ end(b - 1) <= end(b)
  <2>1. b - 1 \in 0..q /\ b \in 0..q
    BY <1>2
  <2> QED BY <1>3, <1>4, <2>1
<1>7. ASSUME NEW b \in 1..q PROVE Embeddings!Batch(flat, b) \in Seq(A)
  <2>1. end(b - 1) + 1 \in Int /\ end(b) \in Int
        /\ \A i \in end(b - 1) + 1..end(b) : i \in 1..l
    BY <1>1, <1>6
  <2>2. SubSeq(flat, end(b - 1) + 1, end(b)) \in Seq(A)
    BY <1>1, <2>1, SubSeqProperties
  <2> QED BY <1>4, <2>2
<1>8. /\ parts \in Seq(Seq(A)) /\ Len(parts) = q
      /\ \A b \in 1..q : parts[b] = Embeddings!Batch(flat, b)
  <2>1. parts \in [1..q -> Seq(A)]
    BY <1>7
  <2>2. \A b \in 1..q : parts[b] = Embeddings!Batch(flat, b)
    OBVIOUS
  <2> HIDE DEF parts
  <2>3. parts \in Seq(Seq(A))
    BY <1>2, <2>1, SeqDef
  <2> QED BY <1>2, <2>1, <2>2, <2>3
<1> HIDE DEF parts
<1>9. \A b \in 0..q : Joined(parts, b) = SubSeq(flat, 1, end(b))
  <2> DEFINE S == {b \in 0..q : Joined(parts, b) = SubSeq(flat, 1, end(b))}
  <2>1. 0 \in S
    <3>1. Joined(parts, 0) = <<>>
      BY <1>8, JoinedFacts
    <3>2. SubSeq(flat, 1, 0) = <<>>
      BY SubSeqEmpty
    <3>3. Joined(parts, 0) = SubSeq(flat, 1, end(0))
      BY <1>5, <3>1, <3>2
    <3>4. 0 \in 0..q
      BY <1>2
    <3> QED BY <3>3, <3>4
  <2>2. ASSUME NEW b \in 1..q, b - 1 \in S PROVE b \in S
    <3>1. Joined(parts, b) = Joined(parts, b - 1) \o parts[b]
      BY <1>8, JoinedFacts
    <3>2. /\ Joined(parts, b - 1) = SubSeq(flat, 1, end(b - 1))
          /\ parts[b] = SubSeq(flat, end(b - 1) + 1, end(b))
      BY <1>4, <1>8, <2>2
    <3> DEFINE k == end(b - 1)
               n == end(b)
    <3>3. k \in 1 - 1..l /\ n \in k..l /\ 1 \in 1..l + 1
      BY <1>1, <1>6
    <3> HIDE DEF k, n
    <3>4. SubSeq(flat, 1, k) \o SubSeq(flat, k + 1, n) = SubSeq(flat, 1, n)
      BY <3>3, ConcatAdjacentSubSeq DEF l
    <3>5. Joined(parts, b) = SubSeq(flat, 1, n)
      BY <3>1, <3>2, <3>4 DEF k, n
    <3> QED BY <1>6, <3>5 DEF n
  <2> HIDE DEF S
  <2>3. \A b \in 0..q : b \in S
    BY <1>2, <2>1, <2>2, UpTo
  <2> QED BY <2>3 DEF S
<1>10. Joined(parts, q) = flat
  <2>1. q \in 0..q /\ SubSeq(flat, 1, l) = flat
    BY <1>2, SubSeqFull DEF l
  <2> QED BY <1>5, <1>9, <2>1
<1>11. Embeddings!FlattenSeq(parts) = Joined(parts, q)
  BY <1>8, JoinedFacts
<1> QED BY <1>10, <1>11 DEF Embeddings!Received, parts, q

(* The cursor comes to every text's own chunks.                               *)
LEMMA OwnDealt ==
  ASSUME BatchSize \in Nat \ {0}, NEW A, NEW missed \in Seq(Seq(A)), NEW n \in 1..Len(missed)
  PROVE  Embeddings!Dealt(missed, n) = missed[n]
<1>1. Embeddings!FlattenSeq(missed) \in Seq(A)
  <2>1. Len(missed) \in 0..Len(missed)
    BY LenProperties
  <2> QED BY <2>1, JoinedFacts
<1>2. Embeddings!Received(Embeddings!FlattenSeq(missed)) = Embeddings!FlattenSeq(missed)
  BY <1>1, AllReceived
<1> QED BY <1>2, Slice DEF Embeddings!Dealt, Embeddings!Cursor, Joined

(* Entries hold their own text's vector, and a cache no text twice.           *)
Chunk    == Texts \X Nat
Entries  == {e \in [text : Texts, vector : Seq(Chunk), expired : BOOLEAN] :
               e.vector = Embeddings!Chunks(e.text)}
Once     == {c \in Seq(Entries) : \A i, j \in DOMAIN c : i # j => c[i].text # c[j].text}
Caches   == {c \in Once : Len(c) <= CacheSize}

LEMMA ChunksType ==
  ASSUME Embeddings!EmbeddingAssumption, NEW t \in Texts
  PROVE  Embeddings!Chunks(t) \in Seq(Chunk)
<1> DEFINE k == IF Length[t] < MaxChunks THEN Length[t] ELSE MaxChunks
<1>1. k \in Nat
  BY DEF Embeddings!EmbeddingAssumption
<1> HIDE DEF k
<1>2. [n \in 1..k |-> <<t, n>>] \in [1..k -> Chunk]
  BY <1>1 DEF Chunk
<1>3. [n \in 1..k |-> <<t, n>>] \in Seq(Chunk)
  BY <1>1, <1>2, SeqDef
<1> QED BY <1>3 DEF Embeddings!Chunks, k

LEMMA EntryType ==
  ASSUME Embeddings!EmbeddingAssumption, NEW t \in Texts
  PROVE  Embeddings!Entry(t, Embeddings!Chunks(t)) \in Entries
BY ChunksType DEF Embeddings!Entry, Entries

LEMMA WithoutFacts ==
  ASSUME NEW c \in Once, NEW t
  PROVE  LET w == Embeddings!Without(c, t)
         IN /\ w \in Once
            /\ \A i \in DOMAIN w : w[i].text # t
            /\ Len(w) <= Len(c)
            /\ t \in Embeddings!Held(c) => Len(w) = Len(c) - 1
<1> DEFINE l == Len(c)
<1>1. c \in Seq(Entries) /\ l \in Nat /\ DOMAIN c = 1..l /\ \A i \in 1..l : c[i] \in Entries
  BY LenProperties DEF Once
<1>2. CASE t \notin Embeddings!Held(c)
  <2>1. \A i \in DOMAIN c : c[i].text # t
    BY <1>2 DEF Embeddings!Held, Embeddings!Range
  <2>2. Embeddings!Without(c, t) = c
    BY <1>2 DEF Embeddings!Without
  <2>3. Len(c) <= Len(c)
    BY <1>1
  <2> QED BY <1>2, <2>1, <2>2, <2>3
<1>3. CASE t \in Embeddings!Held(c)
  <2> DEFINE k == CHOOSE k \in DOMAIN c : c[k].text = t
             a == SubSeq(c, 1, k - 1)
             b == SubSeq(c, k + 1, l)
             w == a \o b
  <2>1. k \in 1..l /\ c[k].text = t
    <3>1. \E i \in DOMAIN c : c[i].text = t
      BY <1>3 DEF Embeddings!Held, Embeddings!Range
    <3> QED BY <1>1, <3>1
  <2>2. Embeddings!Without(c, t) = w
    BY <1>3 DEF Embeddings!Without, Embeddings!RemoveAt
  <2> HIDE DEF k, l
  <2>3. a \in Seq(Entries) /\ Len(a) = k - 1 /\ \A i \in 1..k - 1 : a[i] = c[i]
    <3>1. 1 \in Int /\ k - 1 \in Int /\ \A i \in 1..k - 1 : c[i] \in Entries
      BY <1>1, <2>1
    <3>2. /\ a \in Seq(Entries)
          /\ Len(a) = IF 1 <= k - 1 THEN k - 1 - 1 + 1 ELSE 0
          /\ \A i \in 1..k - 1 - 1 + 1 : a[i] = c[1 + i - 1]
      BY <3>1, SubSeqProperties
    <3> HIDE DEF a
    <3>3. Len(a) = k - 1
      BY <2>1, <3>2
    <3>4. \A i \in 1..k - 1 : a[i] = c[i]
      BY <2>1, <3>2
    <3> QED BY <3>2, <3>3, <3>4
  <2>4. b \in Seq(Entries) /\ Len(b) = l - k /\ \A i \in 1..l - k : b[i] = c[k + i]
    <3>1. k + 1 \in Int /\ l \in Int /\ \A i \in k + 1..l : c[i] \in Entries
      BY <1>1, <2>1
    <3>2. /\ b \in Seq(Entries)
          /\ Len(b) = IF k + 1 <= l THEN l - (k + 1) + 1 ELSE 0
          /\ \A i \in 1..l - (k + 1) + 1 : b[i] = c[k + 1 + i - 1]
      BY <3>1, SubSeqProperties
    <3> HIDE DEF b
    <3>3. Len(b) = l - k
      BY <1>1, <2>1, <3>2
    <3>4. \A i \in 1..l - k : b[i] = c[k + i]
      BY <1>1, <2>1, <3>2
    <3> QED BY <3>2, <3>3, <3>4
  <2> HIDE DEF a, b
  <2>5. /\ w \in Seq(Entries) /\ Len(w) = l - 1
        /\ \A i \in 1..l - 1 : w[i] = IF i < k THEN c[i] ELSE c[i + 1]
    <3>1. /\ w \in Seq(Entries) /\ Len(w) = Len(a) + Len(b)
          /\ \A i \in 1..Len(a) + Len(b) : w[i] = IF i <= Len(a) THEN a[i] ELSE b[i - Len(a)]
      BY <2>3, <2>4, ConcatProperties
    <3> HIDE DEF w
    <3>2. Len(w) = l - 1
      BY <1>1, <2>1, <2>3, <2>4, <3>1
    <3>3. ASSUME NEW i \in 1..l - 1 PROVE w[i] = IF i < k THEN c[i] ELSE c[i + 1]
      <4>1. w[i] = IF i <= k - 1 THEN a[i] ELSE b[i - (k - 1)]
        BY <1>1, <2>1, <2>3, <2>4, <3>1
      <4>2. CASE i < k
        BY <2>1, <2>3, <4>1, <4>2
      <4>3. CASE ~(i < k)
        <5>1. i - (k - 1) \in 1..l - k /\ k + (i - (k - 1)) = i + 1 /\ ~(i <= k - 1)
          BY <1>1, <2>1, <4>3
        <5>2. b[i - (k - 1)] = c[k + (i - (k - 1))]
          BY <2>4, <5>1
        <5> QED BY <4>1, <4>3, <5>1, <5>2
      <4> QED BY <4>2, <4>3
    <3> QED BY <3>1, <3>2, <3>3
  <2> HIDE DEF w
  <2>6. DOMAIN w = 1..l - 1
    BY <2>5, LenProperties
  <2>7. \A i \in 1..l - 1 : w[i].text # t
    <3> SUFFICES ASSUME NEW i \in 1..l - 1 PROVE w[i].text # t
      OBVIOUS
    <3>1. PICK j \in 1..l : j # k /\ w[i] = c[j]
      <4>1. CASE i < k
        <5>1. i \in 1..l /\ i # k /\ w[i] = c[i]
          BY <1>1, <2>1, <2>5, <4>1
        <5> QED BY <5>1
      <4>2. CASE ~(i < k)
        <5>1. i + 1 \in 1..l /\ i + 1 # k /\ w[i] = c[i + 1]
          BY <1>1, <2>1, <2>5, <4>2
        <5> QED BY <5>1
      <4> QED BY <4>1, <4>2
    <3> QED BY <1>1, <2>1, <3>1 DEF Once
  <2>8. ASSUME NEW i \in 1..l - 1, NEW j \in 1..l - 1, i # j PROVE w[i].text # w[j].text
    <3> DEFINE p == IF i < k THEN i ELSE i + 1
               q == IF j < k THEN j ELSE j + 1
    <3>1. p \in 1..l /\ q \in 1..l /\ p # q
      BY <1>1, <2>1, <2>8
    <3>2. w[i] = c[p] /\ w[j] = c[q]
      BY <2>5
    <3> HIDE DEF p, q
    <3> QED BY <1>1, <3>1, <3>2 DEF Once
  <2>9. w \in Once
    BY <2>5, <2>6, <2>8 DEF Once
  <2> QED BY <1>1, <1>3, <2>2, <2>5, <2>6, <2>7, <2>9 DEF l
<1> QED BY <1>2, <1>3

LEMMA AppendApart ==
  ASSUME NEW w \in Once, NEW e \in Entries, \A i \in DOMAIN w : w[i].text # e.text
  PROVE  Append(w, e) \in Once /\ Len(Append(w, e)) = Len(w) + 1 /\ Len(w) \in Nat
<1> DEFINE l == Len(w)
           a == Append(w, e)
<1>1. /\ w \in Seq(Entries) /\ l \in Nat /\ DOMAIN w = 1..l
      /\ a \in Seq(Entries) /\ Len(a) = l + 1 /\ DOMAIN a = 1..l + 1 /\ a[l + 1] = e
      /\ \A i \in 1..l : a[i] = w[i]
  BY LenProperties, AppendProperties DEF Once
<1> HIDE DEF a, l
<1>2. ASSUME NEW i \in 1..l + 1, NEW j \in 1..l + 1, i # j PROVE a[i].text # a[j].text
  <2>1. CASE i = l + 1
    <3>1. j \in 1..l
      BY <1>1, <1>2, <2>1
    <3> QED BY <1>1, <2>1, <3>1
  <2>2. CASE j = l + 1
    <3>1. i \in 1..l
      BY <1>1, <1>2, <2>2
    <3> QED BY <1>1, <2>2, <3>1
  <2>3. CASE i # l + 1 /\ j # l + 1
    <3>1. i \in 1..l /\ j \in 1..l
      BY <1>1, <2>3
    <3> QED BY <1>1, <1>2, <3>1 DEF Once
  <2> QED BY <2>1, <2>2, <2>3
<1> QED BY <1>1, <1>2 DEF Once, a, l

LEMMA HitFacts ==
  ASSUME NEW c \in Caches, NEW t, NEW e \in Embeddings!Hits(c, t)
  PROVE  e \in Entries /\ e.text = t /\ t \in Embeddings!Held(c)
<1>1. c \in Seq(Entries)
  BY DEF Caches, Once
<1>2. \A i \in DOMAIN c : c[i] \in Entries
  BY <1>1, LenProperties
<1> QED BY <1>2 DEF Embeddings!Hits, Embeddings!Held, Embeddings!Range

LEMMA GetCaches ==
  ASSUME Embeddings!EmbeddingAssumption, NEW c \in Caches, NEW t \in Texts
  PROVE  Embeddings!Get(c, t) \in Caches
<1> DEFINE w == Embeddings!Without(c, t)
<1>1. c \in Once /\ Len(c) <= CacheSize /\ Len(c) \in Nat /\ CacheSize \in Nat
  BY LenProperties DEF Caches, Once, Embeddings!EmbeddingAssumption
<1>2. /\ w \in Once /\ \A i \in DOMAIN w : w[i].text # t
      /\ Len(w) <= Len(c) /\ (t \in Embeddings!Held(c) => Len(w) = Len(c) - 1)
  BY <1>1, WithoutFacts
<1>3. Len(w) \in Nat
  BY <1>2, LenProperties DEF Once
<1> HIDE DEF w
<1>4. CASE Embeddings!Hits(c, t) = {}
  <2>1. w \in Caches
    BY <1>1, <1>2, <1>3 DEF Caches
  <2> QED BY <1>4, <2>1 DEF Embeddings!Get, w
<1>5. CASE Embeddings!Hits(c, t) # {}
  <2> DEFINE e == CHOOSE entry \in Embeddings!Hits(c, t) : TRUE
  <2>1. e \in Embeddings!Hits(c, t)
    BY <1>5
  <2> HIDE DEF e
  <2>2. e \in Entries /\ e.text = t /\ Len(w) = Len(c) - 1
    BY <1>2, <2>1, HitFacts
  <2>3. Append(w, e) \in Once /\ Len(Append(w, e)) = Len(w) + 1
    BY <1>2, <2>2, AppendApart
  <2>4. Append(w, e) \in Caches
    BY <1>1, <2>2, <2>3 DEF Caches
  <2> QED BY <1>5, <2>4 DEF Embeddings!Get, w, e
<1> QED BY <1>4, <1>5

LEMMA PutCaches ==
  ASSUME Embeddings!EmbeddingAssumption, NEW c \in Caches, NEW t \in Texts
  PROVE  Embeddings!Put(c, t, Embeddings!Chunks(t)) \in Caches
<1> DEFINE w == Embeddings!Without(c, t)
           e == Embeddings!Entry(t, Embeddings!Chunks(t))
           a == Append(w, e)
<1>1. c \in Once /\ Len(c) <= CacheSize /\ Len(c) \in Nat /\ CacheSize \in Nat
  BY LenProperties DEF Caches, Once, Embeddings!EmbeddingAssumption
<1>2. w \in Once /\ (\A i \in DOMAIN w : w[i].text # t) /\ Len(w) <= Len(c)
  BY <1>1, WithoutFacts
<1>3. e \in Entries /\ e.text = t
  BY EntryType DEF Embeddings!Entry
<1> HIDE DEF w, e
<1>4. a \in Once /\ Len(a) = Len(w) + 1 /\ Len(w) \in Nat
  BY <1>2, <1>3, AppendApart
<1> HIDE DEF a
<1>5. CASE Len(a) > CacheSize
  <2> DEFINE s == Tail(a)
             l == Len(s)
  <2>1. a \in Seq(Entries) /\ Len(a) \in Nat /\ DOMAIN a = 1..Len(a) /\ a # <<>>
    <3>1. a \in Seq(Entries)
      BY <1>4 DEF Once
    <3>2. Len(a) # 0
      BY <1>4
    <3>3. a # <<>>
      BY <3>2, EmptySeq
    <3> QED BY <3>1, <3>3, LenProperties
  <2>2. s \in Seq(Entries) /\ l = Len(a) - 1 /\ \A i \in 1..l : s[i] = a[i + 1]
    BY <2>1, HeadTailProperties
  <2>3. l \in Nat /\ DOMAIN s = 1..l
    BY <2>2, LenProperties
  <2> HIDE DEF s, l
  <2>4. ASSUME NEW i \in 1..l, NEW j \in 1..l, i # j PROVE s[i].text # s[j].text
    <3>1. i + 1 \in 1..Len(a) /\ j + 1 \in 1..Len(a) /\ i + 1 # j + 1
      BY <2>1, <2>2, <2>3, <2>4
    <3>2. a[i + 1].text # a[j + 1].text
      BY <1>4, <2>1, <3>1 DEF Once
    <3> QED BY <2>2, <3>2
  <2>5. s \in Once
    BY <2>2, <2>3, <2>4 DEF Once
  <2>6. l <= CacheSize
    BY <1>1, <1>2, <1>4, <2>1, <2>2
  <2> QED BY <1>5, <2>5, <2>6 DEF Caches, Embeddings!Put, s, l, a, e, w
<1>6. CASE ~(Len(a) > CacheSize)
  <2>1. Len(a) \in Nat
    BY <1>4
  <2>2. a \in Caches
    BY <1>1, <1>4, <1>6, <2>1 DEF Caches
  <2> QED BY <1>6, <2>2 DEF Embeddings!Put, a, e, w
<1> QED BY <1>5, <1>6

(* The lookups, one after the other.                                          *)
IsLookup(f, c, s) ==
  f = [t \in SUBSET DOMAIN s |->
         IF t = {} THEN c ELSE Embeddings!Get(f[t \ {Top(t)}], s[Top(t)])]
LookupOf(c, s) == CHOOSE f : IsLookup(f, c, s)

LEMMA LookupFold ==
  \A texts, n : Embeddings!LookedUp(texts, n) =
    LookupOf(cache, SubSeq(texts, 1, n))[DOMAIN SubSeq(texts, 1, n)]
BY DEF Embeddings!LookedUp, Embeddings!FoldLeft, Embeddings!MapThenFoldSet, Embeddings!Max,
       LookupOf, IsLookup, Top

LEMMA LookupCaches ==
  ASSUME Embeddings!EmbeddingAssumption, NEW c \in Caches, NEW s \in Seq(Texts)
  PROVE  LookupOf(c, s)[DOMAIN s] \in Caches
<1> DEFINE n == Len(s)
           G == [p \in Caches \X (1..n) |-> Embeddings!Get(p[1], s[p[2]])]
           g == RunOf(c, G, 1..n)
           f == LookupOf(c, s)
<1>1. n \in Nat /\ DOMAIN s = 1..n /\ \A k \in 1..n : s[k] \in Texts
  BY LenProperties
<1> HIDE DEF n
<1>2. \A d \in Caches, k \in 1..n : Embeddings!Get(d, s[k]) \in Caches
  BY <1>1, GetCaches
<1>3. G \in [Caches \X (1..n) -> Caches]
  BY <1>2
<1>4. \A d \in Caches, k \in 1..n : G[<<d, k>>] = Embeddings!Get(d, s[k])
  OBVIOUS
<1> HIDE DEF G
<1>5. IsRun(g, c, G, 1..n) /\ \A t \in SUBSET (1..n) : g[t] \in Caches
  BY <1>1, <1>3, Steps
<1> HIDE DEF g
<1>6. \A t \in SUBSET (1..n) : t # {} =>
        Top(t) \in 1..n /\ t \ {Top(t)} \in SUBSET (1..n)
  BY <1>1, TopFacts
<1>7. IsLookup(g, c, s)
  <2>1. \A t \in SUBSET (1..n) : t # {} =>
          G[<<g[t \ {Top(t)}], Top(t)>>] = Embeddings!Get(g[t \ {Top(t)}], s[Top(t)])
    BY <1>4, <1>5, <1>6
  <2>2. [t \in SUBSET (1..n) |-> IF t = {} THEN c ELSE G[<<g[t \ {Top(t)}], Top(t)>>]]
          = [t \in SUBSET (1..n) |->
               IF t = {} THEN c ELSE Embeddings!Get(g[t \ {Top(t)}], s[Top(t)])]
    BY <2>1
  <2> QED BY <1>1, <1>5, <2>2 DEF IsLookup, IsRun
<1>8. IsLookup(f, c, s)
  BY <1>7 DEF LookupOf
<1> HIDE DEF f
<1>9. \A t \in SUBSET (1..n) :
        f[t] = IF t = {} THEN c ELSE Embeddings!Get(f[t \ {Top(t)}], s[Top(t)])
  BY <1>1, <1>8 DEF IsLookup
<1>10. f[{}] \in Caches
  <2>1. f[{}] = c
    BY <1>9
  <2> QED BY <2>1
<1>11. \A t \in SUBSET (1..n) : t # {} /\ f[t \ {Top(t)}] \in Caches => f[t] \in Caches
  BY <1>2, <1>6, <1>9
<1>12. \A t \in SUBSET (1..n) : f[t] \in Caches
  BY <1>1, <1>10, <1>11, RunIn
<1> QED BY <1>1, <1>12 DEF f

LEMMA LookedUpCaches ==
  ASSUME Embeddings!EmbeddingAssumption, cache \in Caches, NEW texts \in Seq(Texts),
         NEW n \in 0..Len(texts)
  PROVE  Embeddings!LookedUp(texts, n) \in Caches
<1>1. SubSeq(texts, 1, n) \in Seq(Texts)
  <2>1. n \in Int /\ \A i \in 1..n : texts[i] \in Texts
    BY LenProperties
  <2> QED BY <2>1, SubSeqProperties
<1> QED BY <1>1, LookupFold, LookupCaches

(* What is found, and what is dealt out, is the text's own.                   *)
LEMMA OwnFound ==
  ASSUME Embeddings!EmbeddingAssumption, cache \in Caches, NEW texts \in Seq(Texts),
         NEW n \in 1..Len(texts), Embeddings!Found(texts, n) # {}
  PROVE  (CHOOSE entry \in Embeddings!Found(texts, n) : TRUE).vector = Embeddings!Chunks(texts[n])
<1> DEFINE e == CHOOSE entry \in Embeddings!Found(texts, n) : TRUE
<1>1. n - 1 \in 0..Len(texts)
  BY LenProperties
<1>2. Embeddings!LookedUp(texts, n - 1) \in Caches
  BY <1>1, LookedUpCaches
<1>3. e \in Embeddings!Hits(Embeddings!LookedUp(texts, n - 1), texts[n])
  BY DEF Embeddings!Found
<1> HIDE DEF e
<1>4. e \in Entries /\ e.text = texts[n]
  BY <1>2, <1>3, HitFacts
<1>5. e.vector = Embeddings!Chunks(texts[n])
  BY <1>4 DEF Entries
<1> QED BY <1>5 DEF e

LEMMA OwnMissed ==
  ASSUME Embeddings!EmbeddingAssumption, cache \in Caches, NEW texts \in Seq(Texts),
         NEW n \in 1..Len(texts), Embeddings!Found(texts, n) = {}
  PROVE  Embeddings!Dealt(Embeddings!Missed(texts), n) = Embeddings!Chunks(texts[n])
<1> DEFINE l == Len(texts)
           missed == Embeddings!Missed(texts)
<1>1. l \in Nat /\ \A k \in 1..l : texts[k] \in Texts
  BY LenProperties
<1>2. \A k \in 1..l : missed[k] = IF Embeddings!Found(texts, k) = {}
                                  THEN Embeddings!Chunks(texts[k]) ELSE <<>>
  BY DEF Embeddings!Missed
<1>3. \A k \in 1..l : missed[k] \in Seq(Chunk)
  <2>1. <<>> \in Seq(Chunk)
    BY EmptySeq
  <2>2. \A k \in 1..l : Embeddings!Chunks(texts[k]) \in Seq(Chunk)
    BY <1>1, ChunksType
  <2> HIDE DEF missed
  <2> QED BY <1>2, <2>1, <2>2
<1>4. missed = [k \in 1..l |-> missed[k]]
  BY DEF Embeddings!Missed
<1> HIDE DEF missed
<1>5. missed \in [1..l -> Seq(Chunk)]
  BY <1>3, <1>4
<1> HIDE DEF l
<1>6. missed \in Seq(Seq(Chunk)) /\ Len(missed) = l
  BY <1>1, <1>5, SeqDef
<1>7. Embeddings!Dealt(missed, n) = missed[n]
  BY <1>6, OwnDealt DEF Embeddings!EmbeddingAssumption, l
<1> QED BY <1>2, <1>7 DEF missed, l

(* The vectors that come back are put into the cache, one after the other.    *)
Order(texts) == [n \in DOMAIN texts |-> n]
Kept(c, texts, n) ==
  IF Embeddings!Found(texts, n) = {}
  THEN Embeddings!Put(c, texts[n], Embeddings!Dealt(Embeddings!Missed(texts), n)) ELSE c
IsStored(f, texts) ==
  f = [t \in SUBSET DOMAIN Order(texts) |->
         IF t = {} THEN Embeddings!LookedUp(texts, Len(texts))
         ELSE Kept(f[t \ {Top(t)}], texts, Order(texts)[Top(t)])]
StoredOf(texts) == CHOOSE f : IsStored(f, texts)

LEMMA StoredFold ==
  \A texts : Embeddings!Stored(texts) = StoredOf(texts)[DOMAIN Order(texts)]
BY DEF Embeddings!Stored, Embeddings!FoldLeftDomain, Embeddings!FoldLeft,
       Embeddings!MapThenFoldSet, Embeddings!Max, StoredOf, IsStored, Kept, Order, Top

LEMMA StoredCaches ==
  ASSUME Embeddings!EmbeddingAssumption, cache \in Caches, NEW texts \in Seq(Texts)
  PROVE  Embeddings!Stored(texts) \in Caches
<1> DEFINE n == Len(texts)
           base == Embeddings!LookedUp(texts, n)
           G == [p \in Caches \X (1..n) |-> Kept(p[1], texts, p[2])]
           g == RunOf(base, G, 1..n)
           f == StoredOf(texts)
<1>1. n \in Nat /\ DOMAIN texts = 1..n /\ \A k \in 1..n : texts[k] \in Texts
  BY LenProperties
<1>2. DOMAIN Order(texts) = 1..n /\ \A k \in 1..n : Order(texts)[k] = k
  BY <1>1 DEF Order
<1>3. base \in Caches
  <2>1. n \in 0..Len(texts)
    BY <1>1
  <2> QED BY <2>1, LookedUpCaches
<1>4. \A d \in Caches, k \in 1..n : Kept(d, texts, k) \in Caches
  <2> SUFFICES ASSUME NEW d \in Caches, NEW k \in 1..n PROVE Kept(d, texts, k) \in Caches
    OBVIOUS
  <2>1. CASE Embeddings!Found(texts, k) = {}
    <3>1. Embeddings!Dealt(Embeddings!Missed(texts), k) = Embeddings!Chunks(texts[k])
      BY <2>1, OwnMissed
    <3>2. Embeddings!Put(d, texts[k], Embeddings!Chunks(texts[k])) \in Caches
      BY <1>1, PutCaches
    <3> QED BY <2>1, <3>1, <3>2 DEF Kept
  <2>2. CASE Embeddings!Found(texts, k) # {}
    BY <2>2 DEF Kept
  <2> QED BY <2>1, <2>2
<1> HIDE DEF n, base
<1>5. G \in [Caches \X (1..n) -> Caches]
  BY <1>4
<1>6. \A d \in Caches, k \in 1..n : G[<<d, k>>] = Kept(d, texts, k)
  OBVIOUS
<1> HIDE DEF G
<1>7. IsRun(g, base, G, 1..n) /\ \A t \in SUBSET (1..n) : g[t] \in Caches
  BY <1>1, <1>3, <1>5, Steps
<1> HIDE DEF g
<1>8. \A t \in SUBSET (1..n) : t # {} =>
        /\ Top(t) \in 1..n /\ t \ {Top(t)} \in SUBSET (1..n)
        /\ Order(texts)[Top(t)] = Top(t)
  BY <1>1, <1>2, TopFacts
<1>9. IsStored(g, texts)
  <2>1. \A t \in SUBSET (1..n) : t # {} =>
          G[<<g[t \ {Top(t)}], Top(t)>>] = Kept(g[t \ {Top(t)}], texts, Order(texts)[Top(t)])
    BY <1>6, <1>7, <1>8
  <2>2. [t \in SUBSET (1..n) |-> IF t = {} THEN base ELSE G[<<g[t \ {Top(t)}], Top(t)>>]]
          = [t \in SUBSET (1..n) |->
               IF t = {} THEN base
               ELSE Kept(g[t \ {Top(t)}], texts, Order(texts)[Top(t)])]
    BY <2>1
  <2> QED BY <1>2, <1>7, <2>2 DEF IsStored, IsRun, base, n
<1>10. IsStored(f, texts)
  BY <1>9 DEF StoredOf
<1> HIDE DEF f
<1>11. \A t \in SUBSET (1..n) :
         f[t] = IF t = {} THEN base ELSE Kept(f[t \ {Top(t)}], texts, Order(texts)[Top(t)])
  BY <1>2, <1>10 DEF IsStored, base, n
<1>12. f[{}] \in Caches
  <2>1. f[{}] = base
    BY <1>11
  <2> QED BY <1>3, <2>1
<1>13. \A t \in SUBSET (1..n) : t # {} /\ f[t \ {Top(t)}] \in Caches => f[t] \in Caches
  <2> SUFFICES ASSUME NEW t \in SUBSET (1..n), t # {}, f[t \ {Top(t)}] \in Caches
               PROVE  f[t] \in Caches
    OBVIOUS
  <2>1. Top(t) \in 1..n /\ Order(texts)[Top(t)] = Top(t)
    BY <1>8
  <2>2. f[t] = Kept(f[t \ {Top(t)}], texts, Top(t))
    BY <1>11, <2>1
  <2> QED BY <1>4, <2>1, <2>2
<1>14. \A t \in SUBSET (1..n) : f[t] \in Caches
  BY <1>1, <1>12, <1>13, RunIn
<1>15. Embeddings!Stored(texts) = f[1..n]
  BY <1>2, StoredFold DEF f
<1> QED BY <1>14, <1>15

EmbeddingInv == cache \in Caches /\ Embeddings!OwnVectors

LEMMA ExpiredCaches ==
  ASSUME NEW c \in Caches, NEW i \in 1..Len(c)
  PROVE  [c EXCEPT ![i].expired = TRUE] \in Caches
<1> DEFINE e == [c[i] EXCEPT !.expired = TRUE]
           d == [c EXCEPT ![i] = e]
<1>1. /\ c \in Seq(Entries) /\ Len(c) \in Nat /\ DOMAIN c = 1..Len(c)
      /\ \A j \in 1..Len(c) : c[j] \in Entries
  BY LenProperties DEF Caches, Once
<1>2. e \in Entries /\ e.text = c[i].text
  BY <1>1 DEF Entries
<1> HIDE DEF e
<1>3. /\ d \in Seq(Entries) /\ Len(d) = Len(c) /\ DOMAIN d = 1..Len(c)
      /\ \A j \in 1..Len(c) : d[j] = IF j = i THEN e ELSE c[j]
  <2>1. d \in Seq(Entries) /\ Len(d) = Len(c)
    BY <1>1, <1>2, ExceptSeq
  <2>2. DOMAIN d = 1..Len(c) /\ \A j \in 1..Len(c) : d[j] = IF j = i THEN e ELSE c[j]
    BY <1>1
  <2> QED BY <2>1, <2>2
<1> HIDE DEF d
<1>4. \A j \in 1..Len(c) : d[j].text = c[j].text
  BY <1>2, <1>3
<1>5. d \in Once
  BY <1>1, <1>3, <1>4 DEF Caches, Once
<1>6. d \in Caches
  BY <1>3, <1>5 DEF Caches
<1> QED BY <1>6 DEF d, e

LEMMA EmbeddingStep ==
  ASSUME Embeddings!EmbeddingAssumption, EmbeddingInv, [Embeddings!Next]_(Embeddings!vars)
  PROVE  EmbeddingInv'
<1>1. CASE UNCHANGED Embeddings!vars
  BY <1>1 DEF EmbeddingInv, Embeddings!OwnVectors, Embeddings!vars
<1>2. ASSUME NEW n \in 1..MaxTexts, NEW texts \in [1..n -> Texts],
             Embeddings!Embed(texts) \/ Embeddings!EmbedFails(texts)
      PROVE  EmbeddingInv'
  <2>1. texts \in Seq(Texts) /\ Len(texts) = n /\ n \in Nat /\ n \in 0..Len(texts)
    BY <1>2, SeqDef DEF Embeddings!EmbeddingAssumption
  <2>2. CASE Embeddings!Embed(texts)
    <3> DEFINE r == Embeddings!Results(texts)
    <3>1. cache' \in Caches
      BY <2>1, <2>2, StoredCaches DEF Embeddings!Embed, EmbeddingInv
    <3>2. answer'.texts = texts /\ answer'.result = r
      BY <2>2 DEF Embeddings!Embed
    <3>3. r \in [1..n -> {r[k] : k \in 1..n}]
      BY <2>1 DEF Embeddings!Results
    <3>4. \A k \in 1..n : r[k] = Embeddings!Chunks(texts[k])
      <4> SUFFICES ASSUME NEW k \in 1..n PROVE r[k] = Embeddings!Chunks(texts[k])
        OBVIOUS
      <4>1. r[k] = IF Embeddings!Found(texts, k) = {}
                   THEN Embeddings!Dealt(Embeddings!Missed(texts), k)
                   ELSE (CHOOSE entry \in Embeddings!Found(texts, k) : TRUE).vector
        BY <2>1 DEF Embeddings!Results
      <4> HIDE DEF r
      <4> QED BY <2>1, <4>1, OwnFound, OwnMissed DEF EmbeddingInv
    <3> HIDE DEF r
    <3>5. Len(r) = n
      BY <2>1, <3>3
    <3> QED BY <2>1, <3>1, <3>2, <3>4, <3>5 DEF EmbeddingInv, Embeddings!OwnVectors
  <2>3. CASE Embeddings!EmbedFails(texts)
    <3>1. cache' \in Caches
      BY <2>1, <2>3, LookedUpCaches DEF Embeddings!EmbedFails, EmbeddingInv
    <3>2. answer'.texts = <<>> /\ answer'.result = <<>>
      BY <2>3 DEF Embeddings!EmbedFails
    <3>3. Len(<<>>) = 0
      BY EmptySeq
    <3> QED BY <3>1, <3>2, <3>3 DEF EmbeddingInv, Embeddings!OwnVectors
  <2> QED BY <1>2, <2>2, <2>3
<1>3. ASSUME NEW i \in 1..Len(cache), Embeddings!Expire(i) PROVE EmbeddingInv'
  <2>1. cache' \in Caches
    BY <1>3, ExpiredCaches DEF Embeddings!Expire, EmbeddingInv
  <2> QED BY <1>3, <2>1 DEF Embeddings!Expire, EmbeddingInv, Embeddings!OwnVectors
<1> QED BY <1>1, <1>2, <1>3 DEF Embeddings!Next

LEMMA CachesSound ==
  ASSUME NEW c \in Caches
  PROVE  /\ Len(c) <= CacheSize
         /\ Embeddings!Cardinality(Embeddings!Held(c)) = Len(c)
         /\ \A entry \in Embeddings!Range(c) : entry.vector = Embeddings!Chunks(entry.text)
<1> DEFINE n == Len(c)
           held == Embeddings!Held(c)
           b == [i \in 1..n |-> c[i].text]
<1>1. n \in Nat /\ DOMAIN c = 1..n /\ \A i \in 1..n : c[i] \in Entries
  BY LenProperties DEF Caches, Once
<1> HIDE DEF n
<1>2. b \in Bijection(1..n, held)
  <2>1. held = {c[i].text : i \in 1..n}
    BY <1>1 DEF Embeddings!Held, Embeddings!Range
  <2>2. b \in [1..n -> held] /\ \A t \in held : \E i \in 1..n : b[i] = t
    BY <2>1
  <2>3. \A i, j \in 1..n : b[i] = b[j] => i = j
    BY <1>1 DEF Caches, Once
  <2> HIDE DEF held
  <2>4. IsInjective(b)
    BY <2>3 DEF IsInjective
  <2> QED BY <2>2, <2>4 DEF Bijection, Injection, Surjection
<1>3. Cardinality(held) = n
  BY <1>1, <1>2, FS_CountingElements DEF ExistsBijection
<1>4. Embeddings!Cardinality(held) = n
  BY <1>3 DEF Cardinality, Embeddings!Cardinality
<1>5. \A entry \in Embeddings!Range(c) : entry.vector = Embeddings!Chunks(entry.text)
  BY <1>1 DEF Embeddings!Range, Entries
<1> QED BY <1>4, <1>5 DEF Caches, n

(* Every text is answered with its own vector, and the cache stays within its *)
(* size and holds nothing else, whatever is asked for, found, evicted or has  *)
(* expired in between, and wherever the batches are cut.                      *)
THEOREM EmbeddingsAlwaysOwn ==
  ASSUME Embeddings!EmbeddingAssumption
  PROVE  Embeddings!Spec => []EmbeddingsOwn
<1>1. Embeddings!Init => EmbeddingInv
  <2> SUFFICES ASSUME Embeddings!Init PROVE EmbeddingInv
    OBVIOUS
  <2>1. cache = <<>> /\ answer.texts = <<>> /\ answer.result = <<>>
    BY DEF Embeddings!Init
  <2>2. <<>> \in Seq(Entries) /\ Len(<<>>) = 0 /\ DOMAIN <<>> = {}
    BY EmptySeq
  <2>3. cache \in Caches
    BY <2>1, <2>2 DEF Caches, Once, Embeddings!EmbeddingAssumption
  <2>4. Embeddings!OwnVectors
    BY <2>1, <2>2 DEF Embeddings!OwnVectors
  <2> QED BY <2>3, <2>4 DEF EmbeddingInv
<1>2. EmbeddingInv /\ [Embeddings!Next]_(Embeddings!vars) => EmbeddingInv'
  BY EmbeddingStep
<1>3. EmbeddingInv => EmbeddingsOwn
  BY CachesSound DEF EmbeddingInv, EmbeddingsOwn, Embeddings!CacheSound
<1> QED BY <1>1, <1>2, <1>3, PTL DEF Embeddings!Spec

--------------------------------------------------------------------------------
(* The profile that feedback builds up, by the agent and by the backend.      *)
(* A fold from the left over a sequence, as SequencesExt and Folds define it: *)
(* f gives every set of positions what the items there make of base, the last *)
(* position being the last.  kind is which of the two folds over feedback.    *)
Feed(p, f) == Merging!FoldLeft(Merging!RebuildNegative,
                Merging!FoldLeft(Merging!RebuildPositive, p, f.positive), f.negative)
IsFold(f, h, s) ==
  f = [t \in SUBSET s |-> IF t = {} THEN Merging!Empty ELSE Feed(f[t \ {Top(t)}], h[Top(t)])]
FoldOf(h, s) == CHOOSE f : IsFold(f, h, s)

LEMMA RebuildFolds == \A h : Merging!Rebuild(Merging!Empty, h) = FoldOf(h, DOMAIN h)[DOMAIN h]
BY DEF Merging!FoldLeft, Merging!MapThenFoldSet, FoldOf, IsFold, Feed, Top, Merging!Max,
       Merging!Rebuild

Parts(f, h, s) ==
  /\ f[{}] = Merging!Empty
  /\ \A t \in SUBSET s : t # {} => Top(t) \in t /\ f[t] = Feed(f[t \ {Top(t)}], h[Top(t)])

LEMMA FoldFacts ==
  ASSUME NEW f, NEW h, NEW n \in Nat, NEW s \in SUBSET (1..n), IsFold(f, h, s)
  PROVE  Parts(f, h, s)
<1>1. \A t \in SUBSET s : f[t] = IF t = {} THEN Merging!Empty
                                 ELSE Feed(f[t \ {Top(t)}], h[Top(t)])
  BY DEF IsFold
<1>2. \A t \in SUBSET s : t # {} => Top(t) \in t
  BY TopFacts
<1> QED BY <1>1, <1>2 DEF Parts

LEMMA FoldAgrees ==
  ASSUME NEW n \in Nat, NEW s \in SUBSET (1..n), NEW z \in SUBSET (1..n), s \subseteq z,
         NEW f, NEW h, IsFold(f, h, s), NEW g, NEW k, IsFold(g, k, z),
         Equal(h, k, s)
  PROVE  Equal(f, g, SUBSET s)
<1> DEFINE odd == {t \in SUBSET s : f[t] # g[t]}
<1> SUFFICES ASSUME odd # {} PROVE FALSE
  BY DEF Equal
<1>1. PICK t \in odd : \A u \in SUBSET t : u # t => u \notin odd
  <2> HIDE DEF odd
  <2>1. odd \subseteq SUBSET s
    BY DEF odd
  <2>2. IsFiniteSet(s)
    <3>1. IsFiniteSet(1..n)
      BY FS_Interval
    <3> QED BY <3>1, FS_Subset
  <2> QED BY <2>1, <2>2, Least
<1>2. Parts(f, h, s) /\ Parts(g, k, z)
  BY FoldFacts
<1>3. t \in SUBSET s /\ t \in SUBSET z /\ f[t] # g[t] /\ t # {}
  BY <1>2 DEF Parts
<1>4. Top(t) \in t /\ t \ {Top(t)} \in SUBSET t /\ t \ {Top(t)} # t
  BY <1>3, TopFacts
<1>5. f[t \ {Top(t)}] = g[t \ {Top(t)}]
  BY <1>1, <1>3, <1>4
<1>6. f[t] = Feed(f[t \ {Top(t)}], h[Top(t)])
  BY <1>2, <1>3 DEF Parts
<1>7. g[t] = Feed(g[t \ {Top(t)}], k[Top(t)])
  BY <1>2, <1>3 DEF Parts
<1>8. h[Top(t)] = k[Top(t)]
  BY <1>3, <1>4 DEF Equal
<1> QED BY <1>3, <1>5, <1>6, <1>7, <1>8

LEMMA FoldExists ==
  ASSUME NEW h, NEW n \in Nat, NEW s \in SUBSET (1..n)
  PROVE  IsFold(FoldOf(h, s), h, s)
<1> DEFINE odd == {t \in SUBSET s : \A f : ~IsFold(f, h, t)}
<1>1. ASSUME NEW t \in odd, \A u \in SUBSET t : u # t => u \notin odd PROVE FALSE
  <2>1. \A u \in SUBSET t : u # t => IsFold(FoldOf(h, u), h, u)
    <3>1. ASSUME NEW u \in SUBSET t, u # t PROVE \E f : IsFold(f, h, u)
      BY <1>1, <3>1
    <3> QED BY <3>1 DEF FoldOf
  <2> DEFINE v(u) == FoldOf(h, u)[u]
             f == [u \in SUBSET t |->
                     IF u = {} THEN Merging!Empty ELSE Feed(v(u \ {Top(u)}), h[Top(u)])]
  <2>2. ASSUME NEW u \in SUBSET t, u # t PROVE f[u] = v(u)
    <3>1. Parts(FoldOf(h, u), h, u)
      BY <2>1, <2>2, FoldFacts
    <3>2. CASE u = {}
      BY <3>1, <3>2 DEF Parts
    <3>3. CASE u # {}
      <4> DEFINE w == u \ {Top(u)}
      <4>1. Top(u) \in u /\ w \in SUBSET t /\ w # t /\ w \in SUBSET u
        BY <2>2, <3>3, TopFacts
      <4>2. v(u) = Feed(FoldOf(h, u)[w], h[Top(u)])
        BY <3>1, <3>3 DEF Parts
      <4>3. IsFold(FoldOf(h, w), h, w) /\ IsFold(FoldOf(h, u), h, u)
        BY <2>1, <2>2, <4>1
      <4>4. w \in SUBSET (1..n) /\ u \in SUBSET (1..n)
        BY <4>1
      <4>5. FoldOf(h, u)[w] = v(w)
        <5> HIDE DEF w
        <5>1. Equal(h, h, w)
          BY DEF Equal
        <5>2. Equal(FoldOf(h, w), FoldOf(h, u), SUBSET w)
          BY <4>1, <4>3, <4>4, <5>1, FoldAgrees
        <5> QED BY <5>2 DEF Equal
      <4>6. f[u] = Feed(v(w), h[Top(u)])
        BY <2>2, <3>3
      <4> QED BY <4>2, <4>5, <4>6
    <3> QED BY <3>2, <3>3
  <2>3. \A u \in SUBSET t : u # {} => f[u \ {Top(u)}] = v(u \ {Top(u)})
    <3>1. ASSUME NEW u \in SUBSET t, u # {}
          PROVE  u \ {Top(u)} \in SUBSET t /\ u \ {Top(u)} # t
      BY <3>1, TopFacts
    <3> HIDE DEF f, v
    <3> QED BY <2>2, <3>1
  <2>4. f = [u \in SUBSET t |-> IF u = {} THEN Merging!Empty ELSE Feed(f[u \ {Top(u)}], h[Top(u)])]
    <3>1. \A u \in SUBSET t :
            f[u] = IF u = {} THEN Merging!Empty ELSE Feed(v(u \ {Top(u)}), h[Top(u)])
      OBVIOUS
    <3>2. f = [u \in SUBSET t |-> f[u]]
      OBVIOUS
    <3> HIDE DEF f, v
    <3>3. \A u \in SUBSET t :
            f[u] = IF u = {} THEN Merging!Empty ELSE Feed(f[u \ {Top(u)}], h[Top(u)])
      BY <2>3, <3>1
    <3> QED BY <3>2, <3>3
  <2>5. IsFold(f, h, t)
    BY <2>4 DEF IsFold
  <2> QED BY <1>1, <2>5
<1>2. odd = {}
  <2>1. odd \subseteq SUBSET s
    OBVIOUS
  <2>2. IsFiniteSet(s)
    <3>1. IsFiniteSet(1..n)
      BY FS_Interval
    <3> QED BY <3>1, FS_Subset
  <2> HIDE DEF odd
  <2> QED BY <1>1, <2>1, <2>2, Least
<1>3. \E f : IsFold(f, h, s)
  BY <1>2
<1> QED BY <1>3 DEF FoldOf

(* The feedback that comes last is applied last.                              *)
LEMMA RebuildAppend ==
  ASSUME NEW A, NEW h \in Seq(A), NEW x \in A
  PROVE  Merging!Rebuild(Merging!Empty, Append(h, x)) = Feed(Merging!Rebuild(Merging!Empty, h), x)
<1> DEFINE n == Len(h)
           k == Append(h, x)
<1>1. n \in Nat /\ DOMAIN h = 1..n /\ DOMAIN k = 1..n + 1 /\ k[n + 1] = x
      /\ \A m \in 1..n : k[m] = h[m]
  BY LenProperties, AppendProperties
<1> HIDE DEF n, k
<1>2. Top(1..n + 1) = n + 1
  <2>1. Top(1..n + 1) \in 1..n + 1
    <3>1. n + 1 \in Nat /\ n + 1 \in 1..n + 1
      BY <1>1
    <3>2. 1..n + 1 \in SUBSET (1..n + 1) /\ 1..n + 1 # {}
      BY <3>1
    <3> QED BY <3>1, <3>2, TopFacts
  <2>2. \E y \in 1..n + 1 : \A m \in 1..n + 1 : y >= m
    <3>1. n + 1 \in 1..n + 1 /\ \A m \in 1..n + 1 : n + 1 >= m
      BY <1>1
    <3> QED BY <3>1
  <2>3. \A m \in 1..n + 1 : Top(1..n + 1) >= m
    BY <2>2, Zenon DEF Top
  <2>4. Top(1..n + 1) >= n + 1
    BY <1>1, <2>3
  <2> QED BY <1>1, <2>1, <2>4
<1>3. /\ 1..n \in SUBSET (1..n + 1) /\ 1..n + 1 \in SUBSET (1..n + 1) /\ 1..n + 1 # {}
      /\ (1..n + 1) \ {n + 1} = 1..n /\ n + 1 \in Nat
  <2> SUFFICES ASSUME n \in Nat
               PROVE  /\ \A m : m \in 1..n <=> m \in 1..n + 1 /\ m # n + 1
                      /\ n + 1 \in 1..n + 1 /\ n + 1 \in Nat
    BY <1>1
  <2> QED OBVIOUS
<1> DEFINE f == FoldOf(h, 1..n)
           g == FoldOf(k, 1..n + 1)
<1>4. IsFold(f, h, 1..n) /\ IsFold(g, k, 1..n + 1)
  BY <1>1, <1>3, FoldExists
<1> HIDE DEF f, g
<1>5. \A t \in SUBSET (1..n) : f[t] = g[t]
  <2> DEFINE m == n + 1
             s == 1..n
             z == 1..m
  <2>1. m \in Nat /\ s \in SUBSET (1..m) /\ z \in SUBSET (1..m) /\ s \subseteq z
    BY <1>1
  <2>2. IsFold(f, h, s) /\ IsFold(g, k, z) /\ Equal(h, k, s)
    BY <1>1, <1>4 DEF Equal
  <2> HIDE DEF m, s, z
  <2>3. Equal(f, g, SUBSET s)
    BY <2>1, <2>2, FoldAgrees
  <2> QED BY <2>3 DEF s, Equal
<1>6. Parts(g, k, 1..n + 1)
  BY <1>3, <1>4, FoldFacts
<1>7. g[1..n + 1] = Feed(g[1..n], x)
  BY <1>1, <1>2, <1>3, <1>6 DEF Parts
<1>8. f[1..n] = g[1..n]
  BY <1>5
<1>9. /\ Merging!Rebuild(Merging!Empty, h) = f[1..n]
      /\ Merging!Rebuild(Merging!Empty, k) = g[1..n + 1]
  BY <1>1, RebuildFolds DEF f, g
<1> QED BY <1>7, <1>8, <1>9 DEF k

--------------------------------------------------------------------------------
(* One step: two weights that differ by at most one still do when each        *)
(* program has kept 90 or 92 percent of its own, added the same and rounded,  *)
(* whichever way it takes a tie.                                              *)
IsWeight(x)       == x \in Int /\ x >= 0 /\ x <= 10000
IsSignal(d)       == d \in Int /\ d >= 0 /\ d <= 1200
Rounded(x, y)     == IsWeight(x) /\ IsWeight(y) /\ x - y <= 1 /\ y - x <= 1
Alike(w, v)       == DOMAIN w = DOMAIN v /\ \A t \in DOMAIN w : Rounded(w[t], v[t])
SameProfile(p, q) == Alike(p.topics, q.topics) /\ Alike(p.negative, q.negative)
Nearest(r, exact) == r \in Int /\ 100 * r >= exact - 50 /\ 100 * r <= exact + 50

LEMMA RetainNearest ==
  ASSUME NEW n, IsWeight(n), NEW percent \in {90, 92}, NEW d, IsSignal(d), NEW up
  PROVE  Nearest(Merging!Retain(n, percent, d, up), n * percent + d * 100)
<1> DEFINE exact == n * percent + d * 100
<1>1. exact \in Int
  BY SMT DEF IsWeight, IsSignal
<1> HIDE DEF exact
<1>2. ASSUME exact % 100 = 50
      PROVE  exact \div 100 \in Int /\ 100 * (exact \div 100) = exact - 50
  BY <1>1, <1>2, SMT
<1>3. /\ (exact + 50) \div 100 \in Int
      /\ 100 * ((exact + 50) \div 100) >= exact - 50
      /\ 100 * ((exact + 50) \div 100) <= exact + 50
  BY <1>1, SMT
<1>4. Merging!Retain(n, percent, d, up)
        = IF exact % 100 = 50 /\ <<n, d>> \notin up THEN exact \div 100 ELSE (exact + 50) \div 100
  BY DEF Merging!Retain, exact
<1>5. Nearest(Merging!Retain(n, percent, d, up), exact)
  <2>1. CASE exact % 100 = 50 /\ <<n, d>> \notin up
    BY <1>1, <1>2, <1>4, <2>1 DEF Nearest
  <2>2. CASE ~(exact % 100 = 50 /\ <<n, d>> \notin up)
    BY <1>1, <1>3, <1>4, <2>2 DEF Nearest
  <2> QED BY <2>1, <2>2
<1> QED BY <1>5 DEF exact

LEMMA ClampNear ==
  ASSUME NEW x \in Int, NEW y \in Int, x - y <= 1, y - x <= 1
  PROVE  Rounded(Merging!Clamp(x), Merging!Clamp(y))
BY DEF Rounded, IsWeight, Merging!Clamp, Merging!One

LEMMA RetainNear ==
  ASSUME NEW n, NEW m, Rounded(n, m), NEW percent \in {90, 92}, NEW d, IsSignal(d), NEW up, NEW down
  PROVE  Rounded(Merging!Clamp(Merging!Retain(n, percent, d, up)),
                 Merging!Clamp(Merging!Retain(m, percent, d, down)))
<1> DEFINE x == Merging!Retain(n, percent, d, up)
           y == Merging!Retain(m, percent, d, down)
<1>1. IsWeight(n) /\ IsWeight(m) /\ n - m <= 1 /\ m - n <= 1
  BY DEF Rounded
<1>2. Nearest(x, n * percent + d * 100) /\ Nearest(y, m * percent + d * 100)
  <2>1. Nearest(x, n * percent + d * 100)
    BY <1>1, RetainNearest
  <2>2. Nearest(y, m * percent + d * 100)
    BY <1>1, RetainNearest
  <2> QED BY <2>1, <2>2
<1> HIDE DEF x, y
<1>3. x \in Int /\ y \in Int /\ x - y <= 1 /\ y - x <= 1
  <2>1. CASE percent = 90
    BY <1>1, <1>2, <2>1, SMT DEF Nearest, IsWeight, IsSignal
  <2>2. CASE percent = 92
    BY <1>1, <1>2, <2>2, SMT DEF Nearest, IsWeight, IsSignal
  <2> QED BY <2>1, <2>2
<1>4. Rounded(Merging!Clamp(x), Merging!Clamp(y))
  BY <1>3, ClampNear
<1> QED BY <1>4 DEF x, y

LEMMA WeightNear ==
  ASSUME NEW w, NEW v, Alike(w, v), NEW t
  PROVE  Rounded(Merging!Weight(w, t), Merging!Weight(v, t))
<1>1. CASE t \in DOMAIN w
  BY <1>1 DEF Alike, Merging!Weight
<1>2. CASE t \notin DOMAIN w
  <2>1. Rounded(0, 0)
    BY DEF Rounded, IsWeight
  <2> QED BY <1>2, <2>1 DEF Alike, Merging!Weight
<1> QED BY <1>1, <1>2

LEMMA SetNear ==
  ASSUME NEW w, NEW v, Alike(w, v), NEW t, NEW x, NEW y, Rounded(x, y)
  PROVE  Alike(Merging!Set(w, t, x), Merging!Set(v, t, y))
<1> DEFINE a == Merging!Set(w, t, x)
           b == Merging!Set(v, t, y)
<1>1. /\ DOMAIN a = DOMAIN w \cup {t} /\ DOMAIN b = DOMAIN v \cup {t}
      /\ \A s \in DOMAIN a : a[s] = IF s = t THEN x ELSE w[s]
      /\ \A s \in DOMAIN b : b[s] = IF s = t THEN y ELSE v[s]
  BY DEF Merging!Set
<1> HIDE DEF a, b
<1>2. Alike(a, b)
  BY <1>1 DEF Alike
<1> QED BY <1>2 DEF a, b

LEMMA SignalRange ==
  ASSUME Merging!ProfileAssumption, NEW i \in Items, NEW default \in Int
  PROVE  IsSignal(Merging!Signal(i, default))
<1> DEFINE d == IF i.delta = None THEN default ELSE i.delta
           e == Merging!Abs(d)
           c == Merging!Clamp(e)
<1>1. d \in Int
  BY DEF Merging!ProfileAssumption
<1> HIDE DEF d
<1>2. e \in Int
  BY <1>1 DEF Merging!Abs
<1> HIDE DEF e
<1>3. IsWeight(c)
  BY <1>2 DEF IsWeight, Merging!Clamp, Merging!One
<1>4. Merging!Signal(i, default) = IF c > 1200 THEN 1200 ELSE c
  BY DEF Merging!Signal, d, e
<1> HIDE DEF c
<1>5. IsSignal(IF c > 1200 THEN 1200 ELSE c)
  BY <1>3 DEF IsWeight, IsSignal
<1> QED BY <1>4, <1>5

LEMMA ItemNear ==
  ASSUME Merging!ProfileAssumption, NEW i \in Items, NEW t, NEW p, NEW q, SameProfile(p, q),
         NEW up, NEW down
  PROVE  /\ SameProfile(Merging!Positive(p, t, i, up), Merging!Positive(q, t, i, down))
         /\ SameProfile(Merging!Negative(p, t, i, up), Merging!Negative(q, t, i, down))
<1>1. Alike(p.topics, q.topics) /\ Alike(p.negative, q.negative)
  BY DEF SameProfile
<1>2. SameProfile(Merging!Positive(p, t, i, up), Merging!Positive(q, t, i, down))
  <2> DEFINE d == Merging!Signal(i, 800)
             x == Merging!Clamp(Merging!Retain(Merging!Weight(p.topics, t), 92, d, up))
             y == Merging!Clamp(Merging!Retain(Merging!Weight(q.topics, t), 92, d, down))
  <2>1. IsSignal(d)
    BY SignalRange, 800 \in Int, 1000 \in Int
  <2>2. Rounded(x, y)
    <3> HIDE DEF d
    <3> QED BY <1>1, <2>1, WeightNear, RetainNear
  <2> HIDE DEF d, x, y
  <2>3. Alike(Merging!Set(p.topics, t, x), Merging!Set(q.topics, t, y))
    BY <1>1, <2>2, SetNear
  <2> QED BY <1>1, <2>3 DEF SameProfile, Merging!Positive, x, y, d
<1>3. SameProfile(Merging!Negative(p, t, i, up), Merging!Negative(q, t, i, down))
  <2> DEFINE d == Merging!Signal(i, 1000)
             x == Merging!Clamp(Merging!Retain(Merging!Weight(p.negative, t), 90, d, up))
             y == Merging!Clamp(Merging!Retain(Merging!Weight(q.negative, t), 90, d, down))
  <2>1. IsSignal(d)
    BY SignalRange, 800 \in Int, 1000 \in Int
  <2>2. Rounded(x, y)
    <3> HIDE DEF d
    <3> QED BY <1>1, <2>1, WeightNear, RetainNear
  <2> HIDE DEF d, x, y
  <2>3. Alike(Merging!Set(p.negative, t, x), Merging!Set(q.negative, t, y))
    BY <1>1, <2>2, SetNear
  <2>4. Alike(Merging!Decayed(p.topics, t, up), Merging!Decayed(q.topics, t, down))
    <3>1. DOMAIN p.topics = DOMAIN q.topics
      BY <1>1 DEF Alike, Merging!Near
    <3>2. CASE t \notin DOMAIN p.topics
      BY <1>1, <3>1, <3>2 DEF Merging!Decayed
    <3>3. CASE t \in DOMAIN p.topics
      <4> DEFINE k == Merging!Clamp(Merging!Retain(p.topics[t], 90, 0, up))
                 l == Merging!Clamp(Merging!Retain(q.topics[t], 90, 0, down))
      <4> IsSignal(0)
        BY DEF IsSignal
      <4>1. Rounded(p.topics[t], q.topics[t])
        BY <1>1, <3>1, <3>3, WeightNear DEF Merging!Weight
      <4>2. Rounded(k, l)
        BY <4>1, RetainNear
      <4> HIDE DEF k, l
      <4>3. Alike(Merging!Set(p.topics, t, k), Merging!Set(q.topics, t, l))
        BY <1>1, <4>2, SetNear
      <4> QED BY <3>1, <3>3, <4>3 DEF Merging!Decayed, k, l
    <3> QED BY <3>2, <3>3
  <2> QED BY <2>3, <2>4 DEF SameProfile, Merging!Negative, x, y, d
<1> QED BY <1>2, <1>3

--------------------------------------------------------------------------------
(* One feedback: for items that name their topic, the agent's two folds do    *)
(* what the backend's do.                                                     *)
AgentPositive(f, p, h) ==
  f = [s \in SUBSET DOMAIN h |->
         IF s = {} THEN p ELSE Merging!Merged(f[s \ {Top(s)}], h[Top(s)], Merging!Positive)]
AgentNegative(f, p, h) ==
  f = [s \in SUBSET DOMAIN h |->
         IF s = {} THEN p ELSE Merging!Merged(f[s \ {Top(s)}], h[Top(s)], Merging!Negative)]
BackendPositive(f, p, h) ==
  f = [s \in SUBSET DOMAIN h |->
         IF s = {} THEN p ELSE Merging!RebuildPositive(f[s \ {Top(s)}], h[Top(s)])]
BackendNegative(f, p, h) ==
  f = [s \in SUBSET DOMAIN h |->
         IF s = {} THEN p ELSE Merging!RebuildNegative(f[s \ {Top(s)}], h[Top(s)])]
Adds(p, h)     == (CHOOSE f : AgentPositive(f, p, h))[DOMAIN h]
Takes(p, h)    == (CHOOSE f : AgentNegative(f, p, h))[DOMAIN h]
AddsToo(p, h)  == (CHOOSE f : BackendPositive(f, p, h))[DOMAIN h]
TakesToo(p, h) == (CHOOSE f : BackendNegative(f, p, h))[DOMAIN h]

LEMMA MergeFolds ==
  \A p, f : Merging!MergeProfile(p, f) = Takes(Adds(p, f.positive), f.negative)
BY DEF Merging!FoldLeft, Merging!MapThenFoldSet, Top, Adds, AgentPositive, Takes, AgentNegative,
       Merging!Max, Merging!MergeProfile, Merging!Merged

LEMMA FeedFolds == \A p, f : Feed(p, f) = TakesToo(AddsToo(p, f.positive), f.negative)
BY DEF Merging!FoldLeft, Merging!MapThenFoldSet, Top, AddsToo, BackendPositive, TakesToo,
       BackendNegative, Merging!Max, Feed

(* A feedback says at most one thing of a kind, and the folds apply it once.  *)
Short    == {<<>>} \cup {<<i>> : i \in Items}
Alone(h) ==
  \A s \in SUBSET DOMAIN h : s # {} => Top(s) = 1 /\ s \ {Top(s)} = {} /\ s = DOMAIN h

LEMMA ShortFacts ==
  ASSUME NEW h \in Short
  PROVE  /\ Alone(h)
         /\ h = <<>> => DOMAIN h = {}
         /\ h # <<>> => DOMAIN h = {1} /\ h[1] \in Items
<1>1. CASE h = <<>>
  BY <1>1 DEF Alone
<1>2. ASSUME NEW i \in Items, h = <<i>> PROVE Alone(h) /\ DOMAIN h = {1} /\ h[1] \in Items
  <2>1. DOMAIN h = {1} /\ h[1] = i
    BY <1>2
  <2>2. ASSUME NEW s \in SUBSET DOMAIN h, s # {} PROVE Top(s) = 1 /\ s = {1}
    <3>1. s = {1}
      BY <2>1, <2>2
    <3>2. s \in SUBSET (1..1) /\ 1 \in Nat
      BY <3>1
    <3>3. Top(s) \in s
      BY <2>2, <3>2, TopFacts
    <3> QED BY <3>1, <3>3
  <2> QED BY <2>1, <2>2 DEF Alone
<1> QED BY <1>1, <1>2 DEF Short

LEMMA AgentOnce ==
  ASSUME NEW h \in Short, NEW p
  PROVE  /\ h = <<>> => Adds(p, h) = p /\ Takes(p, h) = p
         /\ h # <<>> => /\ Adds(p, h) = Merging!Merged(p, h[1], Merging!Positive)
                        /\ Takes(p, h) = Merging!Merged(p, h[1], Merging!Negative)
<1> DEFINE adds  == Merging!Merged(p, h[1], Merging!Positive)
           takes == Merging!Merged(p, h[1], Merging!Negative)
           a == [s \in SUBSET DOMAIN h |-> IF s = {} THEN p ELSE adds]
           b == [s \in SUBSET DOMAIN h |-> IF s = {} THEN p ELSE takes]
           f == CHOOSE g : AgentPositive(g, p, h)
           k == CHOOSE g : AgentNegative(g, p, h)
<1>1. Alone(h)
  BY ShortFacts
<1>2. AgentPositive(a, p, h)
  BY <1>1 DEF AgentPositive, Alone
<1>3. AgentNegative(b, p, h)
  BY <1>1 DEF AgentNegative, Alone
<1>4. AgentPositive(f, p, h) /\ AgentNegative(k, p, h)
  BY <1>2, <1>3
<1> HIDE DEF f, k
<1>5. /\ f[{}] = p /\ k[{}] = p
      /\ DOMAIN h # {} => f[DOMAIN h] = adds /\ k[DOMAIN h] = takes
  <2>1. f[{}] = p /\ k[{}] = p
    BY <1>4 DEF AgentPositive, AgentNegative
  <2>2. ASSUME DOMAIN h # {}
        PROVE  Top(DOMAIN h) = 1 /\ DOMAIN h \ {Top(DOMAIN h)} = {}
    BY <1>1, <2>2 DEF Alone
  <2>3. ASSUME DOMAIN h # {}
        PROVE  /\ f[DOMAIN h] = Merging!Merged(f[DOMAIN h \ {Top(DOMAIN h)}], h[Top(DOMAIN h)],
                                               Merging!Positive)
               /\ k[DOMAIN h] = Merging!Merged(k[DOMAIN h \ {Top(DOMAIN h)}], h[Top(DOMAIN h)],
                                               Merging!Negative)
    BY <1>4, <2>3 DEF AgentPositive, AgentNegative
  <2> QED BY <2>1, <2>2, <2>3
<1>6. Adds(p, h) = f[DOMAIN h] /\ Takes(p, h) = k[DOMAIN h]
  BY DEF Adds, Takes, f, k
<1> QED BY <1>5, <1>6, ShortFacts

LEMMA BackendOnce ==
  ASSUME NEW h \in Short, NEW p
  PROVE  /\ h = <<>> => AddsToo(p, h) = p /\ TakesToo(p, h) = p
         /\ h # <<>> => /\ AddsToo(p, h) = Merging!RebuildPositive(p, h[1])
                        /\ TakesToo(p, h) = Merging!RebuildNegative(p, h[1])
<1> DEFINE adds  == Merging!RebuildPositive(p, h[1])
           takes == Merging!RebuildNegative(p, h[1])
           a == [s \in SUBSET DOMAIN h |-> IF s = {} THEN p ELSE adds]
           b == [s \in SUBSET DOMAIN h |-> IF s = {} THEN p ELSE takes]
           f == CHOOSE g : BackendPositive(g, p, h)
           k == CHOOSE g : BackendNegative(g, p, h)
<1>1. Alone(h)
  BY ShortFacts
<1>2. BackendPositive(a, p, h)
  BY <1>1 DEF BackendPositive, Alone
<1>3. BackendNegative(b, p, h)
  BY <1>1 DEF BackendNegative, Alone
<1>4. BackendPositive(f, p, h) /\ BackendNegative(k, p, h)
  BY <1>2, <1>3
<1> HIDE DEF f, k
<1>5. /\ f[{}] = p /\ k[{}] = p
      /\ DOMAIN h # {} => f[DOMAIN h] = adds /\ k[DOMAIN h] = takes
  <2>1. f[{}] = p /\ k[{}] = p
    BY <1>4 DEF BackendPositive, BackendNegative
  <2>2. ASSUME DOMAIN h # {}
        PROVE  Top(DOMAIN h) = 1 /\ DOMAIN h \ {Top(DOMAIN h)} = {}
    BY <1>1, <2>2 DEF Alone
  <2>3. ASSUME DOMAIN h # {}
        PROVE  /\ f[DOMAIN h] = Merging!RebuildPositive(f[DOMAIN h \ {Top(DOMAIN h)}], h[Top(DOMAIN h)])
               /\ k[DOMAIN h] = Merging!RebuildNegative(k[DOMAIN h \ {Top(DOMAIN h)}], h[Top(DOMAIN h)])
    BY <1>4, <2>3 DEF BackendPositive, BackendNegative
  <2> QED BY <2>1, <2>2, <2>3
<1>6. AddsToo(p, h) = f[DOMAIN h] /\ TakesToo(p, h) = k[DOMAIN h]
  BY DEF AddsToo, TakesToo, f, k
<1> QED BY <1>5, <1>6, ShortFacts

LEMMA ShortNear ==
  ASSUME Merging!ProfileAssumption, NEW h \in Short, \A m \in DOMAIN h : Merging!Explicit(h[m]),
         NEW p, NEW q, SameProfile(p, q)
  PROVE  SameProfile(Adds(p, h), AddsToo(q, h)) /\ SameProfile(Takes(p, h), TakesToo(q, h))
<1>1. CASE h = <<>>
  BY <1>1, AgentOnce, BackendOnce
<1>2. CASE h # <<>>
  <2> DEFINE i == h[1]
  <2>1. i \in Items /\ Merging!Explicit(i)
    BY <1>2, ShortFacts
  <2>2. Merging!Resolve(p, i) = i.topic
    BY <2>1 DEF Merging!Resolve
  <2>3. /\ SameProfile(Merging!Positive(p, i.topic, i, AgentUp), Merging!Positive(q, i.topic, i, BackendUp))
        /\ SameProfile(Merging!Negative(p, i.topic, i, AgentUp), Merging!Negative(q, i.topic, i, BackendUp))
    <3> HIDE DEF i
    <3> QED BY <2>1, ItemNear
  <2>4. /\ SameProfile(Merging!Merged(p, i, Merging!Positive), Merging!RebuildPositive(q, i))
        /\ SameProfile(Merging!Merged(p, i, Merging!Negative), Merging!RebuildNegative(q, i))
    <3> DEFINE adds     == Merging!Merged(p, i, Merging!Positive)
               takes    == Merging!Merged(p, i, Merging!Negative)
               addsToo  == Merging!RebuildPositive(q, i)
               takesToo == Merging!RebuildNegative(q, i)
    <3>1. /\ adds     = IF i.topic = "" THEN p ELSE Merging!Positive(p, i.topic, i, AgentUp)
          /\ takes    = IF i.topic = "" THEN p ELSE Merging!Negative(p, i.topic, i, AgentUp)
          /\ addsToo  = IF i.topic = "" THEN q ELSE Merging!Positive(q, i.topic, i, BackendUp)
          /\ takesToo = IF i.topic = "" THEN q ELSE Merging!Negative(q, i.topic, i, BackendUp)
      BY <2>2 DEF Merging!Merged, Merging!RebuildPositive, Merging!RebuildNegative
    <3> HIDE DEF adds, takes, addsToo, takesToo
    <3>2. SameProfile(adds, addsToo) /\ SameProfile(takes, takesToo)
      <4> HIDE DEF i
      <4> QED BY <2>3, <3>1, Zenon
    <3> QED BY <3>2 DEF adds, takes, addsToo, takesToo
  <2> QED BY <1>2, <2>4, AgentOnce, BackendOnce
<1> QED BY <1>1, <1>2

AllExplicit(h) ==
  \A k \in DOMAIN h : \A i \in Merging!Range(h[k].positive \o h[k].negative) : Merging!Explicit(i)

LEMMA MergeNear ==
  ASSUME Merging!ProfileAssumption, NEW f \in Merging!Feedbacks, NEW p, NEW q, SameProfile(p, q),
         \A i \in Merging!Range(f.positive \o f.negative) : Merging!Explicit(i)
  PROVE  SameProfile(Merging!MergeProfile(p, f), Feed(q, f))
<1> DEFINE a == f.positive
           b == f.negative
<1>1. a \in Short /\ b \in Short
  BY DEF Merging!Feedbacks, Short
<1>2. a \in Seq(Items) /\ b \in Seq(Items)
  <2>1. <<>> \in Seq(Items) /\ \A i \in Items : <<i>> \in Seq(Items)
    BY EmptySeq
  <2> HIDE DEF a, b
  <2> QED BY <1>1, <2>1 DEF Short
<1> HIDE DEF a, b
<1>3. /\ Len(a) \in Nat /\ DOMAIN a = 1..Len(a) /\ Len(b) \in Nat /\ DOMAIN b = 1..Len(b)
      /\ DOMAIN (a \o b) = 1..Len(a) + Len(b)
      /\ \A m \in 1..Len(a) : (a \o b)[m] = a[m]
      /\ \A m \in 1..Len(b) : (a \o b)[Len(a) + m] = b[m]
  BY <1>2, LenProperties, ConcatProperties
<1>4. \A m \in DOMAIN (a \o b) : Merging!Explicit((a \o b)[m])
  BY DEF Merging!Range, a, b
<1>5. \A m \in DOMAIN a : Merging!Explicit(a[m])
  <2> SUFFICES ASSUME NEW m \in 1..Len(a) PROVE Merging!Explicit(a[m])
    BY <1>3
  <2>1. m \in DOMAIN (a \o b) /\ (a \o b)[m] = a[m]
    BY <1>3
  <2> QED BY <1>4, <2>1
<1>6. \A m \in DOMAIN b : Merging!Explicit(b[m])
  <2> SUFFICES ASSUME NEW m \in 1..Len(b) PROVE Merging!Explicit(b[m])
    BY <1>3
  <2>1. Len(a) + m \in DOMAIN (a \o b) /\ (a \o b)[Len(a) + m] = b[m]
    BY <1>3
  <2> QED BY <1>4, <2>1
<1>7. SameProfile(Adds(p, a), AddsToo(q, a))
  BY <1>1, <1>5, ShortNear
<1>8. SameProfile(Takes(Adds(p, a), b), TakesToo(AddsToo(q, a), b))
  BY <1>1, <1>6, <1>7, ShortNear
<1> QED BY <1>8, MergeFolds, FeedFolds DEF a, b

RebuildInv ==
  /\ history \in Seq(Merging!Feedbacks)
  /\ AllExplicit(history) => SameProfile(merged, Merging!Rebuild(Merging!Empty, history))

LEMMA MergingStep ==
  ASSUME Merging!ProfileAssumption, RebuildInv, [Merging!Next]_(Merging!vars) PROVE RebuildInv'
<1>1. CASE UNCHANGED Merging!vars
  <2>1. history' = history /\ merged' = merged
    BY <1>1 DEF Merging!vars
  <2>2. Merging!Rebuild(Merging!Empty, history') = Merging!Rebuild(Merging!Empty, history)
    BY <2>1
  <2> QED BY <2>1, <2>2 DEF RebuildInv, AllExplicit
<1>2. ASSUME NEW f \in Merging!Feedbacks, Merging!ProcessFeedback(f) PROVE RebuildInv'
  <2>1. merged' = Merging!MergeProfile(merged, f) /\ history' = Append(history, f)
    BY <1>2 DEF Merging!ProcessFeedback
  <2>2. /\ history' \in Seq(Merging!Feedbacks)
        /\ Len(history) \in Nat /\ DOMAIN history = 1..Len(history)
        /\ DOMAIN history' = 1..Len(history) + 1 /\ history'[Len(history) + 1] = f
        /\ \A m \in 1..Len(history) : history'[m] = history[m]
    BY <1>2, <2>1, LenProperties, AppendProperties DEF RebuildInv
  <2>3. ASSUME AllExplicit(history')
        PROVE  SameProfile(merged', Merging!Rebuild(Merging!Empty, history'))
    <3>1. \A i \in Merging!Range(f.positive \o f.negative) : Merging!Explicit(i)
      BY <2>2, <2>3 DEF AllExplicit
    <3>2. AllExplicit(history)
      BY <2>2, <2>3 DEF AllExplicit
    <3> DEFINE rebuilt == Merging!Rebuild(Merging!Empty, history)
    <3>3. SameProfile(merged, rebuilt)
      BY <3>2 DEF RebuildInv
    <3>4. Merging!Rebuild(Merging!Empty, Append(history, f)) = Feed(rebuilt, f)
      BY <1>2, RebuildAppend DEF RebuildInv
    <3> HIDE DEF rebuilt
    <3>5. SameProfile(Merging!MergeProfile(merged, f), Feed(rebuilt, f))
      BY <1>2, <3>1, <3>3, MergeNear
    <3> QED BY <2>1, <3>4, <3>5
  <2> QED BY <2>2, <2>3 DEF RebuildInv, AllExplicit
<1> QED BY <1>1, <1>2 DEF Merging!Next

(* The agent, feedback by feedback, and the backend, over the whole history,  *)
(* come to profiles whose weights differ by at most one ten-thousandth as     *)
(* long as every item names its topic, for any topics and items, a history of *)
(* any length, and whichever ties each of the two languages rounds up.        *)
THEOREM RebuildAlwaysAgrees ==
  ASSUME Merging!ProfileAssumption PROVE Merging!Spec => []RebuildAgrees
<1>1. Merging!Init => RebuildInv
  <2> SUFFICES ASSUME Merging!Init PROVE RebuildInv
    OBVIOUS
  <2>1. history = <<>> /\ merged = Merging!Empty
    BY DEF Merging!Init
  <2>2. history \in Seq(Merging!Feedbacks) /\ DOMAIN history = {} /\ {} \in SUBSET (1..0)
    BY <2>1, EmptySeq
  <2>3. IsFold(FoldOf(history, {}), history, {})
    BY <2>2, FoldExists
  <2>4. Parts(FoldOf(history, {}), history, {})
    BY <2>2, <2>3, FoldFacts
  <2>5. Merging!Rebuild(Merging!Empty, history) = Merging!Empty
    BY <2>2, <2>4, RebuildFolds DEF Parts
  <2>6. SameProfile(Merging!Empty, Merging!Empty)
    <3>1. DOMAIN Merging!Nothing = {}
      BY DEF Merging!Nothing
    <3> QED BY <3>1 DEF SameProfile, Alike, Merging!Empty
  <2> QED BY <2>1, <2>2, <2>5, <2>6 DEF RebuildInv
<1>2. RebuildInv /\ [Merging!Next]_(Merging!vars) => RebuildInv'
  BY MergingStep
<1>3. RebuildInv => RebuildAgrees
  <2>1. \A w, v : Alike(w, v) => Merging!Near(w, v)
    BY DEF Alike, Rounded, IsWeight, Merging!Near
  <2> QED BY <2>1 DEF RebuildInv, AllExplicit, SameProfile, RebuildAgrees, Merging!RebuildAgrees
<1> QED BY <1>1, <1>2, <1>3, PTL DEF Merging!Spec
================================================================================
