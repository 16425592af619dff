------------------------- MODULE McpConnections_proofs -------------------------
(******************************************************************************)
(* What holds of the connections of OfficialMcpTransport for any number of    *)
(* threads, tasks and child processes: no process is forgotten, and a server  *)
(* has one, apart from those that are being closed.                           *)
(******************************************************************************)
EXTENDS McpConnections, TLAPS

Coroutines == [kind : Kinds, pc : PCs, conn : Conns \cup {None}, cancelled : BOOLEAN]

(* The lock is held exactly by the task that opens a connection.              *)
Locked == \A k \in Tasks : lock = k <=> Opening(k)

(* Until it has registered its connection nobody else has registered one; and *)
(* then only this one can be registered.                                      *)
Registers(k) ==
  /\ task[k].pc = "open" => registered = None
  /\ task[k].pc \in {"discover", "abort"} => registered \in {task[k].conn, None}

(* A connection that is taken out of _connections while its tools are being   *)
(* discovered has a task that closes it, or was dropped by clear().           *)
Found(k) ==
  task[k].pc = "discover" /\ conn[task[k].conn] # "closed"
    => registered = task[k].conn \/ Retiring(task[k].conn) \/ task[k].conn \in forgotten

ConnInv == TypeOK /\ Locked /\ NoLeak /\ \A k \in Tasks : Registers(k) /\ Found(k)

(* What a step does to the record of one task.                                *)
Becomes(k, g) == task' = [task EXCEPT ![k] = g]

--------------------------------------------------------------------------------
(* Types.                                                                     *)
HasConn(g) == g.conn = None <=> g.pc \in {"none", "look", "lock", "pop", "clear"}

LEMMA InitType == ASSUME ConnectionsAssumption PROVE Init => TypeOK
<1> SUFFICES ASSUME Init PROVE TypeOK
  OBVIOUS
<1>1. Ended \in Coroutines /\ HasConn(Ended)
  BY DEF Ended, Coroutines, Kinds, PCs, HasConn
<1>2. New("startup", "look") \in Coroutines /\ HasConn(New("startup", "look"))
  BY DEF New, Ended, Coroutines, Kinds, PCs, HasConn
<1>3. \A k \in Tasks : task[k] \in {Ended, New("startup", "look")}
  BY DEF Init
<1>4. task \in [Tasks -> Coroutines] /\ \A k \in Tasks : HasConn(task[k])
  BY <1>1, <1>2, <1>3 DEF Init
<1>5. conn \in [Conns -> States] /\ forgotten \subseteq Conns /\ phase \in Phases
  BY DEF Init, States, Phases
<1> QED
  BY <1>4, <1>5 DEF Init, TypeOK, Coroutines, HasConn

(* Every record that a step may give a task.                                  *)
LEMMA RecordType ==
  ASSUME TypeOK, NEW k \in Tasks, NEW pc \in PCs, NEW c \in Conns \cup {None}
  PROVE  /\ task[k] \in Coroutines
         /\ [task[k] EXCEPT !.pc = pc] \in Coroutines
         /\ [task[k] EXCEPT !.pc = pc, !.conn = c] \in Coroutines
         /\ [task[k] EXCEPT !.cancelled = TRUE] \in Coroutines
         /\ Ended \in Coroutines
         /\ New("call", "look") \in Coroutines /\ New("shutdown", "pop") \in Coroutines
  BY DEF TypeOK, Coroutines, Ended, New, Kinds, PCs

LEMMA TaskType ==
  ASSUME TypeOK, NEW k \in Tasks, NEW g \in Coroutines, HasConn(g), Becomes(k, g)
  PROVE  /\ task' \in [Tasks -> Coroutines] /\ \A j \in Tasks : HasConn(task'[j])
         /\ task'[k] = g /\ \A j \in Tasks \ {k} : task'[j] = task[j]
  BY DEF TypeOK, Coroutines, HasConn, Becomes

(* The end of a task.                                                         *)
LEMMA EndType ==
  ASSUME ConnectionsAssumption, TypeOK, NEW k \in Tasks, NEW result, End(k, result)
  PROVE  /\ task' \in [Tasks -> Coroutines] /\ \A j \in Tasks : HasConn(task'[j])
         /\ task'[k] = Ended /\ \A j \in Tasks \ {k} : task'[j] = task[j]
         /\ waits' \in [Threads -> Tasks \cup {None}] /\ failed' \subseteq Threads
<1>1. Becomes(k, Ended) /\ Ended \in Coroutines /\ HasConn(Ended)
  BY DEF End, Becomes, Ended, Coroutines, Kinds, PCs, HasConn
<1>2. waits' \in [Threads -> Tasks \cup {None}] /\ failed' \subseteq Threads
  BY DEF End, TypeOK
<1> QED
  BY <1>1, <1>2, TaskType

(* A task moves on, with or without another connection.                       *)
LEMMA MoveType ==
  ASSUME TypeOK, NEW k \in Tasks, NEW pc \in PCs, NEW c \in Conns \cup {None},
         c = None <=> pc \in {"none", "look", "lock", "pop", "clear"},
         task' = [task EXCEPT ![k].pc = pc, ![k].conn = c]
  PROVE  /\ task' \in [Tasks -> Coroutines] /\ \A j \in Tasks : HasConn(task'[j])
         /\ task'[k].pc = pc /\ task'[k].conn = c /\ \A j \in Tasks \ {k} : task'[j] = task[j]
<1> DEFINE g == [task[k] EXCEPT !.pc = pc, !.conn = c]
<1>1. g \in Coroutines /\ g.pc = pc /\ g.conn = c
  BY RecordType DEF TypeOK, Coroutines
<1>2. Becomes(k, g)
  BY DEF Becomes
<1> HIDE DEF g
<1>3. HasConn(g)
  BY <1>1 DEF HasConn
<1> QED
  BY <1>1, <1>2, <1>3, TaskType

(* The same when it keeps the connection in hand.                             *)
LEMMA StayType ==
  ASSUME TypeOK, NEW k \in Tasks, NEW pc \in PCs, Move(k, pc),
         task[k].conn = None <=> pc \in {"none", "look", "lock", "pop", "clear"}
  PROVE  /\ task' \in [Tasks -> Coroutines] /\ \A j \in Tasks : HasConn(task'[j])
         /\ task'[k].pc = pc /\ task'[k].conn = task[k].conn
         /\ \A j \in Tasks \ {k} : task'[j] = task[j]
<1> DEFINE g == [task[k] EXCEPT !.pc = pc]
<1>1. task[k] \in Coroutines /\ g \in Coroutines
  BY RecordType, None \in Conns \cup {None}
<1>2. g.pc = pc /\ g.conn = task[k].conn
  BY <1>1 DEF Coroutines
<1>3. Becomes(k, g)
  BY DEF Move, Becomes
<1> HIDE DEF g
<1>4. HasConn(g)
  BY <1>2 DEF HasConn
<1> QED
  BY <1>1, <1>2, <1>3, <1>4, TaskType

--------------------------------------------------------------------------------
(* Steps that leave connections, lock and those who open or close alone.      *)
Busy == {"open", "discover", "abort", "close"}
Aside == \A j \in Tasks :
  \/ task'[j].pc = task[j].pc /\ task'[j].conn = task[j].conn
  \/ task[j].pc \notin Busy /\ task'[j].pc \notin Busy

LEMMA AsideKeeps ==
  ASSUME ConnInv, TypeOK', UNCHANGED Sessions, Aside  PROVE ConnInv'
<1>1. \A j \in Tasks : Opening(j)' <=> Opening(j)
  BY DEF Aside, Busy, Opening
<1>2. \A j \in Tasks, c \in Conns : Holds(j, c) => Holds(j, c)'
  BY DEF Aside, Busy, Holds, Opening
<1>3. \A c \in Conns : Retiring(c) => Retiring(c)'
  BY DEF Aside, Busy, Retiring
<1>4. Locked' /\ NoLeak'
  BY <1>1, <1>2 DEF ConnInv, Locked, NoLeak, Sessions
<1>5. ASSUME NEW k \in Tasks  PROVE Registers(k)' /\ Found(k)'
  <2>1. Registers(k) /\ Found(k)
    BY DEF ConnInv
  <2>2. CASE task[k].pc \notin Busy /\ task'[k].pc \notin Busy
    BY <2>2 DEF Busy, Registers, Found
  <2>3. CASE task'[k].pc = task[k].pc /\ task'[k].conn = task[k].conn
    <3>1. Registers(k)'
      BY <2>1, <2>3 DEF Registers, Sessions
    <3>2. task[k].pc = "discover" => task[k].conn \in Conns
      BY DEF ConnInv, TypeOK
    <3>3. Found(k)'
      BY <1>3, <2>1, <2>3, <3>2 DEF Found, Sessions
    <3> QED
      BY <3>1, <3>3
  <2> QED
    BY <2>2, <2>3 DEF Aside
<1> QED
  BY <1>4, <1>5 DEF ConnInv

--------------------------------------------------------------------------------
(* A step of task k, in types.                                                *)
Typed(k) ==
  /\ task' \in [Tasks -> Coroutines] /\ \A j \in Tasks : HasConn(task'[j])
  /\ \A j \in Tasks \ {k} : task'[j] = task[j]
  /\ waits' \in [Threads -> Tasks \cup {None}] /\ failed' \subseteq Threads

LEMMA RestType ==
  ASSUME TypeOK, NEW k \in Tasks, Typed(k),
         registered' \in Conns \cup {None}, lock' \in Tasks \cup {None},
         conn' \in [Conns -> States], forgotten' \subseteq Conns,
         phase' \in Phases, mood' \in {"healthy", "faulty"}
  PROVE  TypeOK'
  BY DEF TypeOK, Typed, Coroutines, HasConn

(* A task that has no connection to lose, and gets none to lose.              *)
LEMMA AsideTask ==
  ASSUME ConnInv, NEW k \in Tasks, Typed(k), UNCHANGED <<Sessions, mood>>,
         phase' \in Phases,
         \/ task[k].pc \notin Busy /\ task'[k].pc \notin Busy
         \/ task'[k].pc = task[k].pc /\ task'[k].conn = task[k].conn
  PROVE  ConnInv'
<1>1. TypeOK
  BY DEF ConnInv
<1>2. TypeOK'
  BY <1>1, RestType DEF TypeOK, Sessions
<1>3. Aside
  BY DEF Typed, Aside
<1> QED
  BY <1>2, <1>3, AsideKeeps

LEMMA EndTyped ==
  ASSUME ConnectionsAssumption, TypeOK, NEW k \in Tasks, NEW result, End(k, result)
  PROVE  Typed(k) /\ task'[k].pc = "none"
<1>1. Typed(k) /\ task'[k] = Ended
  BY EndType DEF Typed
<1>2. Ended.pc = "none"
  BY DEF Ended
<1> QED
  BY <1>1, <1>2

LEMMA MoveTyped ==
  ASSUME TypeOK, NEW k \in Tasks, NEW pc \in PCs, NEW c \in Conns \cup {None},
         c = None <=> pc \in {"none", "look", "lock", "pop", "clear"},
         task' = [task EXCEPT ![k].pc = pc, ![k].conn = c], UNCHANGED Futures
  PROVE  Typed(k) /\ task'[k].pc = pc /\ task'[k].conn = c
<1>1. /\ task' \in [Tasks -> Coroutines] /\ \A j \in Tasks : HasConn(task'[j])
      /\ task'[k].pc = pc /\ task'[k].conn = c /\ \A j \in Tasks \ {k} : task'[j] = task[j]
  BY MoveType
<1>2. waits' \in [Threads -> Tasks \cup {None}] /\ failed' \subseteq Threads
  BY DEF TypeOK, Futures
<1> QED
  BY <1>1, <1>2 DEF Typed

LEMMA StayTyped ==
  ASSUME TypeOK, NEW k \in Tasks, NEW pc \in PCs, Move(k, pc), UNCHANGED Futures,
         task[k].conn = None <=> pc \in {"none", "look", "lock", "pop", "clear"}
  PROVE  Typed(k) /\ task'[k].pc = pc /\ task'[k].conn = task[k].conn
  BY StayType DEF Typed, Futures, TypeOK

LEMMA EndKeeps ==
  ASSUME ConnectionsAssumption, ConnInv, NEW k \in Tasks, NEW result, End(k, result),
         task[k].pc \notin Busy, UNCHANGED <<Sessions, Environs>>
  PROVE  ConnInv'
<1>1. TypeOK
  BY DEF ConnInv
<1>2. Typed(k) /\ task'[k].pc = "none"
  BY <1>1, EndTyped
<1> QED
  BY <1>1, <1>2, AsideTask DEF Busy, Environs, TypeOK

LEMMA GotKeeps ==
  ASSUME ConnectionsAssumption, ConnInv, NEW k \in Tasks, NEW c \in Conns, Got(k, c),
         task[k].pc \notin Busy, UNCHANGED <<Sessions, Environs>>
  PROVE  ConnInv'
<1>1. CASE task[k].kind = "startup"
  BY <1>1, EndKeeps DEF Got
<1>2. CASE task[k].kind # "startup"
  <2>1. task' = [task EXCEPT ![k].pc = "use", ![k].conn = c] /\ UNCHANGED Futures
    BY <1>2 DEF Got
  <2>2. "use" \in PCs /\ c # None /\ TypeOK
    BY DEF PCs, ConnectionsAssumption, ConnInv
  <2>3. Typed(k) /\ task'[k].pc = "use"
    BY <2>1, <2>2, MoveTyped
  <2> QED
    BY <2>2, <2>3, AsideTask DEF Busy, Environs, TypeOK
<1> QED
  BY <1>1, <1>2

LEMMA LookKeeps ==
  ASSUME ConnectionsAssumption, ConnInv, NEW k \in Tasks, Look(k)  PROVE ConnInv'
<1>1. TypeOK /\ task[k].pc = "look" /\ UNCHANGED <<Sessions, Environs>>
  BY DEF ConnInv, Look, At
<1>2. CASE registered # None /\ Got(k, registered)
  <2>1. registered \in Conns
    BY <1>1, <1>2 DEF TypeOK
  <2> QED
    BY <1>1, <1>2, <2>1, GotKeeps DEF Busy
<1>3. CASE registered = None /\ Move(k, "lock") /\ UNCHANGED Futures
  <2>1. task[k].conn = None /\ "lock" \in PCs
    BY <1>1 DEF TypeOK, PCs
  <2>2. Typed(k) /\ task'[k].pc = "lock"
    BY <1>1, <1>3, <2>1, StayTyped
  <2> QED
    BY <1>1, <2>2, AsideTask DEF Busy, Environs, TypeOK
<1> QED
  BY <1>2, <1>3 DEF Look

(* A coroutine is given to the loop.                                          *)
LEMMA NewKeeps ==
  ASSUME ConnInv, NEW k \in Free, NEW g \in {New("call", "look"), New("shutdown", "pop")},
         task' = [task EXCEPT ![k] = g], UNCHANGED <<Sessions, mood>>,
         phase' \in Phases,
         waits' \in [Threads -> Tasks \cup {None}], failed' \subseteq Threads
  PROVE  ConnInv'
<1>1. TypeOK /\ k \in Tasks /\ task[k].pc = "none"
  BY DEF ConnInv, Free
<1>2. "look" \in PCs /\ None \in Conns \cup {None}
  BY DEF PCs
<1>3. g \in Coroutines /\ g.pc \in {"look", "pop"} /\ g.conn = None
  BY <1>1, <1>2, RecordType DEF New, Ended
<1>4. HasConn(g) /\ Becomes(k, g)
  BY <1>3 DEF HasConn, Becomes
<1>5. Typed(k) /\ task'[k] = g
  BY <1>1, <1>3, <1>4, TaskType DEF Typed
<1> QED
  BY <1>1, <1>3, <1>5, AsideTask DEF Busy

(* task.cancel() by a thread that has stopped to wait, or by start().         *)
LEMMA MarkKeeps ==
  ASSUME ConnInv, NEW k \in Tasks, task' = [task EXCEPT ![k].cancelled = TRUE],
         UNCHANGED <<Sessions, mood>>,
         phase' \in Phases,
         waits' \in [Threads -> Tasks \cup {None}], failed' \subseteq Threads
  PROVE  ConnInv'
<1> DEFINE g == [task[k] EXCEPT !.cancelled = TRUE]
<1>1. TypeOK /\ "look" \in PCs /\ None \in Conns \cup {None}
  BY DEF ConnInv, PCs
<1>2. task[k] \in Coroutines /\ g \in Coroutines
  BY <1>1, RecordType
<1>3. g.pc = task[k].pc /\ g.conn = task[k].conn
  BY <1>2 DEF Coroutines
<1>4. Becomes(k, g)
  BY DEF Becomes
<1> HIDE DEF g
<1>5. HasConn(g)
  BY <1>1, <1>3 DEF HasConn, TypeOK
<1>6. Typed(k) /\ task'[k] = g
  BY <1>1, <1>2, <1>4, <1>5, TaskType DEF Typed
<1> QED
  BY <1>1, <1>3, <1>6, AsideTask

LEMMA ThreadKeeps ==
  ASSUME ConnectionsAssumption, ConnInv, NEW t \in Threads, Call(t) \/ Timeout(t)
  PROVE  ConnInv'
<1>1. TypeOK
  BY DEF ConnInv
<1>2. CASE Call(t)
  <2>1. PICK k \in Free : /\ task' = [task EXCEPT ![k] = New("call", "look")]
                          /\ waits' = [waits EXCEPT ![t] = k]
    BY <1>2 DEF Call
  <2>2. k \in Tasks
    BY DEF Free
  <2>3. waits' \in [Threads -> Tasks \cup {None}] /\ failed' \subseteq Threads
    BY <1>1, <1>2, <2>1, <2>2 DEF TypeOK, Call
  <2>4. UNCHANGED <<Sessions, Environs>>
    BY <1>2 DEF Call
  <2> QED
    BY <1>1, <2>1, <2>3, <2>4, NewKeeps DEF TypeOK, Environs
<1>3. CASE Timeout(t)
  <2>1. waits[t] \in Tasks
    BY <1>1, <1>3 DEF TypeOK, Timeout
  <2>2. waits' \in [Threads -> Tasks \cup {None}] /\ failed' \subseteq Threads
    BY <1>1, <1>3 DEF TypeOK, Timeout
  <2>3. UNCHANGED <<Sessions, Environs>> /\ task' = [task EXCEPT ![waits[t]].cancelled = TRUE]
    BY <1>3 DEF Timeout
  <2> QED
    BY <1>1, <2>1, <2>2, <2>3, MarkKeeps DEF TypeOK, Environs
<1> QED
  BY <1>2, <1>3

(* The service as a whole, and the environment.                               *)
LEMMA ServiceKeeps ==
  ASSUME ConnInv, Serve \/ Close \/ Stop \/ Change \/ (\E k \in Tasks : GiveUp(k)) \/ UNCHANGED vars
  PROVE  ConnInv'
<1>1. TypeOK
  BY DEF ConnInv
<1>2. CASE Close
  <2>1. PICK k \in Free : task' = [task EXCEPT ![k] = New("shutdown", "pop")]
    BY <1>2 DEF Close
  <2>2. phase' = "closing" /\ UNCHANGED <<Futures, Sessions, mood>>
    BY <1>2 DEF Close
  <2> QED
    BY <1>1, <2>1, <2>2, NewKeeps DEF TypeOK, Futures, Phases
<1>3. ASSUME NEW k \in Tasks, GiveUp(k)  PROVE ConnInv'
  <2>1. /\ task' = [task EXCEPT ![k].cancelled = TRUE]
        /\ phase' \in Phases /\ UNCHANGED <<Futures, Sessions, mood>>
    BY <1>1, <1>3 DEF GiveUp, TypeOK, Phases
  <2> QED
    BY <1>1, <2>1, MarkKeeps DEF TypeOK, Futures
<1>4. CASE Serve \/ Stop \/ Change \/ UNCHANGED vars
  <2>1. task' = task /\ UNCHANGED <<Futures, Sessions>>
    BY <1>4 DEF Serve, Stop, Change, vars, Futures, Sessions
  <2>2. phase' \in Phases /\ mood' \in {"healthy", "faulty"}
    BY <1>1, <1>4 DEF TypeOK, Serve, Stop, Change, vars, Phases
  <2>3. TypeOK'
    BY <1>1, <2>1, <2>2 DEF TypeOK, Futures, Sessions
  <2>4. Aside
    BY <2>1 DEF Aside
  <2> QED
    BY <2>1, <2>3, <2>4, AsideKeeps
<1> QED
  BY <1>2, <1>3, <1>4

--------------------------------------------------------------------------------
(* Steps of those who open and close connections.                             *)

(* There is one opener at most.                                               *)
LEMMA OneOpener ==
  ASSUME ConnInv, NEW k \in Tasks, Opening(k)
  PROVE  lock = k /\ \A j \in Tasks \ {k} : ~Opening(j)
  BY DEF ConnInv, Locked

(* What is left to show of a step of task k: of k itself, and of connections. *)
LEMMA OthersKeep ==
  ASSUME ConnInv, NEW k \in Tasks, Typed(k),
         \A j \in Tasks \ {k} : ~Opening(j)
  PROVE  \A j \in Tasks \ {k} : ~Opening(j)' /\ Registers(j)' /\ Found(j)'
  BY DEF Typed, Opening, Registers, Found

LEMMA AcquireKeeps ==
  ASSUME ConnectionsAssumption, ConnInv, NEW k \in Tasks, Acquire(k)  PROVE ConnInv'
<1>1. TypeOK /\ task[k].pc = "lock" /\ lock = None /\ UNCHANGED Environs
  BY DEF ConnInv, Acquire, At
<1>2. CASE registered # None /\ Got(k, registered) /\ UNCHANGED Sessions
  <2>1. registered \in Conns
    BY <1>1, <1>2 DEF TypeOK
  <2> QED
    BY <1>1, <1>2, <2>1, GotKeeps DEF Busy
<1>3. ASSUME registered = None, NEW c \in Unused, lock' = k, UNCHANGED <<registered, Futures>>,
             task' = [task EXCEPT ![k].pc = "open", ![k].conn = c],
             conn' = [conn EXCEPT ![c] = "opening"], forgotten' = forgotten \ {c}
      PROVE  ConnInv'
  <2>1. c \in Conns /\ c # None /\ "open" \in PCs
    BY DEF Unused, ConnectionsAssumption, PCs
  <2>2. Typed(k) /\ task'[k].pc = "open" /\ task'[k].conn = c
    <3>1. UNCHANGED Futures /\ task' = [task EXCEPT ![k].pc = "open", ![k].conn = c]
      BY <1>3
    <3>2. c \in Conns \cup {None} /\ (c = None <=> "open" \in {"none", "look", "lock", "pop", "clear"})
      BY <2>1
    <3> QED
      BY <1>1, <2>1, <3>1, <3>2, MoveTyped
  <2>3. conn' \in [Conns -> States] /\ \A d \in Conns \ {c} : conn'[d] = conn[d]
    BY <1>1, <1>3, <2>1 DEF TypeOK, States
  <2>4. TypeOK'
    BY <1>1, <1>3, <2>2, <2>3, RestType DEF TypeOK, Environs
  <2>5. \A j \in Tasks : ~Opening(j)
    BY <1>1 DEF ConnInv, Locked, ConnectionsAssumption
  <2>6. \A j \in Tasks \ {k} : ~Opening(j)' /\ Registers(j)' /\ Found(j)'
    BY <2>2, <2>5, OthersKeep
  <2>7. Opening(k)' /\ Registers(k)' /\ Found(k)' /\ Holds(k, c)'
    BY <1>3, <2>2 DEF Opening, Registers, Found, Holds
  <2>8. Locked'
    BY <1>3, <2>6, <2>7 DEF Locked
  <2>9. NoLeak'
    <3>1. ASSUME NEW d \in Conns \ {c}, NEW j \in Tasks, Holds(j, d)  PROVE Holds(j, d)'
      <4>1. j # k
        BY <1>1, <3>1 DEF Holds, Opening
      <4> QED
        BY <2>2, <3>1, <4>1 DEF Typed, Holds, Opening
    <3>2. \A d \in Conns \ {c} : conn[d] # "closed"
            => registered = d \/ d \in forgotten \/ \E j \in Tasks : Holds(j, d)
      BY DEF ConnInv, NoLeak
    <3> QED
      BY <1>3, <2>3, <2>7, <3>1, <3>2 DEF NoLeak
  <2> QED
    BY <2>4, <2>6, <2>7, <2>8, <2>9 DEF ConnInv
<1> QED
  BY <1>2, <1>3 DEF Acquire

LEMMA OpenedKeeps ==
  ASSUME ConnectionsAssumption, ConnInv, NEW k \in Tasks, Opened(k)  PROVE ConnInv'
<1> DEFINE c == task[k].conn
<1>1. TypeOK /\ task[k].pc = "open" /\ UNCHANGED <<lock, forgotten, Futures, Environs>>
  BY DEF ConnInv, Opened, At
<1>2. c \in Conns /\ c # None
  BY <1>1 DEF TypeOK, ConnectionsAssumption
<1>3. conn' = [conn EXCEPT ![c] = "open"] /\ registered' = c /\ Move(k, "discover")
  BY DEF Opened
<1>4. Typed(k) /\ task'[k].pc = "discover" /\ task'[k].conn = c
  BY <1>1, <1>2, <1>3, StayTyped, "discover" \in PCs DEF PCs
<1>5. conn' \in [Conns -> States] /\ \A d \in Conns \ {c} : conn'[d] = conn[d]
  BY <1>1, <1>2, <1>3 DEF TypeOK, States
<1>6. TypeOK'
  BY <1>1, <1>2, <1>3, <1>4, <1>5, RestType DEF TypeOK, Environs
<1>7. Opening(k) /\ lock = k /\ registered = None
  BY <1>1, OneOpener DEF Opening, ConnInv, Registers
<1>8. \A j \in Tasks \ {k} : ~Opening(j)' /\ Registers(j)' /\ Found(j)'
  BY <1>4, <1>7, OneOpener, OthersKeep
<1>9. Opening(k)' /\ Registers(k)' /\ Found(k)'
  BY <1>3, <1>4 DEF Opening, Registers, Found
<1>10. Locked'
  BY <1>1, <1>7, <1>8, <1>9 DEF Locked
<1>11. NoLeak'
  <2>1. ASSUME NEW d \in Conns \ {c}, NEW j \in Tasks, Holds(j, d)  PROVE Holds(j, d)'
    <3>1. j # k
      BY <2>1 DEF Holds
    <3> QED
      BY <1>4, <2>1, <3>1 DEF Typed, Holds, Opening
  <2>2. \A d \in Conns \ {c} : conn[d] # "closed" => d \in forgotten \/ \E j \in Tasks : Holds(j, d)
    BY <1>7 DEF ConnInv, NoLeak, ConnectionsAssumption
  <2> QED
    BY <1>1, <1>3, <1>5, <2>1, <2>2 DEF NoLeak
<1> QED
  BY <1>6, <1>8, <1>9, <1>10, <1>11 DEF ConnInv

(* From the failure of an opening to the closing of what was opened.          *)
LEMMA ToAbortKeeps ==
  ASSUME ConnInv, NEW k \in Tasks, task[k].pc \in {"open", "discover"}, Move(k, "abort"),
         UNCHANGED <<Futures, Sessions, Environs>>
  PROVE  ConnInv'
<1>1. TypeOK
  BY DEF ConnInv
<1>2. Typed(k) /\ task'[k].pc = "abort" /\ task'[k].conn = task[k].conn
  BY <1>1, StayTyped, "abort" \in PCs DEF PCs, TypeOK
<1>3. TypeOK'
  BY <1>1, <1>2, RestType DEF TypeOK, Sessions, Environs
<1>4. Opening(k) /\ lock = k
  BY OneOpener DEF Opening
<1>5. \A j \in Tasks \ {k} : ~Opening(j)' /\ Registers(j)' /\ Found(j)'
  BY <1>2, <1>4, OneOpener, OthersKeep
<1>6. Opening(k)' /\ Registers(k)' /\ Found(k)'
  BY <1>2 DEF ConnInv, Opening, Registers, Found, Sessions
<1>7. Locked'
  BY <1>4, <1>5, <1>6 DEF Locked, Sessions
<1>8. \A d \in Conns, j \in Tasks : Holds(j, d) => Holds(j, d)'
  BY <1>2 DEF Typed, Holds, Opening
<1>9. NoLeak'
  BY <1>8 DEF ConnInv, NoLeak, Sessions
<1> QED
  BY <1>3, <1>5, <1>6, <1>7, <1>9 DEF ConnInv

LEMMA DiscoveredKeeps ==
  ASSUME ConnectionsAssumption, ConnInv, NEW k \in Tasks, Discovered(k)  PROVE ConnInv'
<1> DEFINE c == task[k].conn
<1>1. /\ TypeOK /\ task[k].pc = "discover" /\ conn[c] = "open" /\ lock' = None
      /\ UNCHANGED <<registered, conn, forgotten, Environs>>
  BY DEF ConnInv, Discovered, At
<1>2. c \in Conns
  BY <1>1 DEF TypeOK
<1>3. Typed(k) /\ task'[k].pc \in {"none", "use"}
  <2>1. CASE task[k].kind = "startup"
    <3>1. End(k, "ok")
      BY <2>1 DEF Discovered
    <3> QED
      BY <1>1, <3>1, EndTyped
  <2>2. CASE task[k].kind # "startup"
    <3>1. Move(k, "use") /\ UNCHANGED Futures
      BY <2>2 DEF Discovered
    <3>2. "use" \in PCs /\ (c = None <=> "use" \in {"none", "look", "lock", "pop", "clear"})
      BY <1>2 DEF PCs, ConnectionsAssumption
    <3> QED
      BY <1>1, <3>1, <3>2, StayTyped
  <2> QED
    BY <2>1, <2>2
<1>4. TypeOK'
  BY <1>1, <1>3, RestType DEF TypeOK, Environs
<1>5. \A j \in Tasks \ {k} : ~Opening(j)
  BY <1>1, OneOpener DEF Opening
<1>6. \A j \in Tasks \ {k} : ~Opening(j)' /\ Registers(j)' /\ Found(j)'
  BY <1>3, <1>5, OthersKeep
<1>7. ~Opening(k)' /\ Registers(k)' /\ Found(k)'
  BY <1>3 DEF Opening, Registers, Found
<1>8. Locked'
  BY <1>1, <1>6, <1>7 DEF Locked, ConnectionsAssumption
<1>9. NoLeak'
  <2>1. ASSUME NEW d \in Conns, NEW j \in Tasks \ {k}, Holds(j, d)  PROVE Holds(j, d)'
    BY <1>3, <2>1 DEF Typed, Holds, Opening
  <2>2. registered = c \/ c \in forgotten \/ \E j \in Tasks \ {k} : Holds(j, c)
    <3>1. registered = c \/ Retiring(c) \/ c \in forgotten
      BY <1>1 DEF ConnInv, Found
    <3> QED
      BY <1>1, <3>1 DEF Retiring, Holds
  <2>3. \A d \in Conns \ {c} : conn[d] # "closed"
            => registered = d \/ d \in forgotten \/ \E j \in Tasks \ {k} : Holds(j, d)
    BY DEF ConnInv, NoLeak, Holds
  <2> QED
    BY <1>1, <2>1, <2>2, <2>3 DEF NoLeak
<1> QED
  BY <1>4, <1>6, <1>7, <1>8, <1>9 DEF ConnInv

LEMMA AbortKeeps ==
  ASSUME ConnectionsAssumption, ConnInv, NEW k \in Tasks, Abort(k)  PROVE ConnInv'
<1> DEFINE c == task[k].conn
<1>1. /\ TypeOK /\ task[k].pc = "abort" /\ conn' = [conn EXCEPT ![c] = "closed"]
      /\ lock' = None /\ End(k, "failed") /\ UNCHANGED <<registered, forgotten, Environs>>
  BY DEF ConnInv, Abort, At
<1>2. Typed(k) /\ task'[k].pc = "none"
  BY <1>1, EndTyped
<1>3. /\ conn' \in [Conns -> States] /\ \A d \in Conns \ {c} : conn'[d] = conn[d]
      /\ c \in Conns => conn'[c] = "closed"
  BY <1>1 DEF TypeOK, States
<1>4. TypeOK'
  BY <1>1, <1>2, <1>3, RestType DEF TypeOK, Environs
<1>5. \A j \in Tasks \ {k} : ~Opening(j)
  BY <1>1, OneOpener DEF Opening
<1>6. \A j \in Tasks \ {k} : ~Opening(j)' /\ Registers(j)' /\ Found(j)'
  BY <1>2, <1>5, OthersKeep
<1>7. ~Opening(k)' /\ Registers(k)' /\ Found(k)'
  BY <1>2 DEF Opening, Registers, Found
<1>8. Locked'
  BY <1>1, <1>6, <1>7 DEF Locked, ConnectionsAssumption
<1>9. NoLeak'
  <2>1. ASSUME NEW d \in Conns, NEW j \in Tasks \ {k}, Holds(j, d)  PROVE Holds(j, d)'
    BY <1>2, <2>1 DEF Typed, Holds, Opening
  <2>2. \A d \in Conns \ {c} : conn[d] # "closed"
            => registered = d \/ d \in forgotten \/ \E j \in Tasks \ {k} : Holds(j, d)
    BY DEF ConnInv, NoLeak, Holds
  <2> QED
    BY <1>1, <1>3, <2>1, <2>2 DEF NoLeak
<1> QED
  BY <1>4, <1>6, <1>7, <1>8, <1>9 DEF ConnInv

(* A connection is taken out of _connections by the task that will close it.  *)
LEMMA TakeOutKeeps ==
  ASSUME ConnectionsAssumption, ConnInv, NEW k \in Tasks, task[k].pc \in {"use", "pop"},
         registered # None, registered' = None,
         task' = [task EXCEPT ![k].pc = "close", ![k].conn = registered],
         UNCHANGED <<lock, conn, forgotten>>, UNCHANGED Futures, UNCHANGED Environs
  PROVE  ConnInv'
<1>1. TypeOK /\ registered \in Conns
  BY DEF ConnInv, TypeOK
<1>2. Typed(k) /\ task'[k].pc = "close" /\ task'[k].conn = registered
  <2>1. /\ "close" \in PCs /\ registered \in Conns \cup {None}
        /\ registered = None <=> "close" \in {"none", "look", "lock", "pop", "clear"}
    BY <1>1 DEF PCs
  <2> QED
    BY <1>1, <2>1, MoveTyped
<1>3. TypeOK'
  BY <1>1, <1>2, RestType DEF TypeOK, Environs
<1>4. \A j \in Tasks : Opening(j)' <=> Opening(j)
  BY <1>2 DEF Typed, Opening
<1>5. Locked'
  BY <1>4 DEF ConnInv, Locked
<1>6. NoLeak'
  <2>1. ASSUME NEW d \in Conns, NEW j \in Tasks, Holds(j, d)  PROVE Holds(j, d)'
    BY <1>2, <2>1 DEF Typed, Holds, Opening
  <2>2. \A d \in Conns : conn[d] # "closed"
          => registered = d \/ d \in forgotten \/ \E j \in Tasks : Holds(j, d)
    BY DEF ConnInv, NoLeak
  <2>3. ASSUME NEW d \in Conns, conn[d] # "closed"
        PROVE  d \in forgotten \/ \E j \in Tasks : Holds(j, d)'
    <3>1. CASE registered = d
      BY <1>2, <3>1 DEF Holds
    <3>2. CASE registered # d
      BY <2>1, <2>2, <2>3, <3>2
    <3> QED
      BY <3>1, <3>2
  <2> QED
    BY <2>3 DEF NoLeak
<1>7. ASSUME NEW j \in Tasks  PROVE Registers(j)' /\ Found(j)'
  <2>1. Registers(j)'
    BY DEF Registers
  <2>2. CASE task[j].pc = "discover" /\ conn[task[j].conn] # "closed"
    <3>1. registered = task[j].conn \/ Retiring(task[j].conn) \/ task[j].conn \in forgotten
      BY <2>2 DEF ConnInv, Found
    <3>2. task'[j] = task[j]
      BY <1>2, <2>2 DEF Typed
    <3>3. \/ \E i \in Tasks : task'[i].conn = task[j].conn /\ task'[i].pc = "close"
          \/ task[j].conn \in forgotten
      <4>1. CASE registered = task[j].conn
        BY <1>2, <4>1
      <4>2. CASE Retiring(task[j].conn)
        BY <1>2, <4>2 DEF Typed, Retiring
      <4> QED
        BY <3>1, <4>1, <4>2
    <3>4. (task[j].conn \in forgotten \/ Retiring(task[j].conn))'
      <4>1. forgotten' = forgotten
        OBVIOUS
      <4> QED
        BY <3>2, <3>3, <4>1 DEF Retiring
    <3> QED
      BY <2>1, <3>4 DEF Found
  <2>3. CASE ~(task[j].pc = "discover" /\ conn[task[j].conn] # "closed")
    BY <1>2, <2>1, <2>3 DEF Typed, Found
  <2> QED
    BY <2>2, <2>3
<1> QED
  BY <1>3, <1>5, <1>6, <1>7 DEF ConnInv

LEMMA FailKeeps ==
  ASSUME ConnectionsAssumption, ConnInv, NEW k \in Tasks, Fail(k) \/ Pop(k)  PROVE ConnInv'
<1>1. /\ TypeOK /\ task[k].pc \in {"use", "pop"} /\ registered' = None
      /\ UNCHANGED <<lock, conn, forgotten>> /\ UNCHANGED Environs
  BY DEF ConnInv, Fail, Pop, At
<1>2. CASE registered = None
  <2>1. UNCHANGED <<Sessions, Environs>>
    BY <1>1, <1>2 DEF Sessions
  <2>2. CASE Fail(k)
    <3>1. End(k, "failed")
      BY <1>2, <2>2 DEF Fail
    <3> QED
      BY <1>1, <2>1, <3>1, EndKeeps DEF Busy
  <2>3. CASE Pop(k)
    <3>1. task[k].pc = "pop" /\ Move(k, "clear") /\ UNCHANGED Futures
      BY <1>2, <2>3 DEF Pop, At
    <3>2. task[k].conn = None /\ "clear" \in PCs
      BY <1>1, <3>1 DEF TypeOK, PCs
    <3>3. Typed(k) /\ task'[k].pc = "clear"
      BY <1>1, <3>1, <3>2, StayTyped
    <3> QED
      BY <1>1, <2>1, <3>1, <3>3, AsideTask DEF Busy, Environs, TypeOK
  <2> QED
    BY <2>2, <2>3
<1>3. CASE registered # None
  <2>1. task' = [task EXCEPT ![k].pc = "close", ![k].conn = registered] /\ UNCHANGED Futures
    BY <1>3 DEF Fail, Pop
  <2> QED
    BY <1>1, <1>3, <2>1, TakeOutKeeps
<1> QED
  BY <1>2, <1>3

LEMMA ClosedKeeps ==
  ASSUME ConnectionsAssumption, ConnInv, NEW k \in Tasks, Closed(k)  PROVE ConnInv'
<1> DEFINE c == task[k].conn
<1>1. /\ TypeOK /\ task[k].pc = "close" /\ conn' = [conn EXCEPT ![c] = "closed"]
      /\ UNCHANGED <<registered, lock, forgotten, Environs>>
  BY DEF ConnInv, Closed, At
<1>2. Typed(k) /\ task'[k].pc \in {"none", "clear"}
  <2>1. CASE End(k, "failed")
    BY <1>1, <2>1, EndTyped
  <2>2. CASE task' = [task EXCEPT ![k].pc = "clear", ![k].conn = None] /\ UNCHANGED Futures
    <3>1. "clear" \in PCs /\ None \in Conns \cup {None}
      BY DEF PCs
    <3> QED
      BY <1>1, <2>2, <3>1, MoveTyped
  <2> QED
    BY <2>1, <2>2 DEF Closed
<1>3. /\ conn' \in [Conns -> States] /\ \A d \in Conns \ {c} : conn'[d] = conn[d]
      /\ c \in Conns => conn'[c] = "closed"
  BY <1>1 DEF TypeOK, States
<1>4. TypeOK'
  BY <1>1, <1>2, <1>3, RestType DEF TypeOK, Environs
<1>5. \A j \in Tasks : Opening(j)' <=> Opening(j)
  BY <1>1, <1>2 DEF Typed, Opening
<1>6. Locked'
  BY <1>1, <1>5 DEF ConnInv, Locked
<1>7. NoLeak'
  <2>1. ASSUME NEW d \in Conns, NEW j \in Tasks \ {k}, Holds(j, d)  PROVE Holds(j, d)'
    BY <1>2, <2>1 DEF Typed, Holds, Opening
  <2>2. \A d \in Conns \ {c} : conn[d] # "closed"
            => registered = d \/ d \in forgotten \/ \E j \in Tasks \ {k} : Holds(j, d)
    BY DEF ConnInv, NoLeak, Holds
  <2> QED
    BY <1>1, <1>3, <2>1, <2>2 DEF NoLeak
<1>8. ASSUME NEW j \in Tasks  PROVE Registers(j)' /\ Found(j)'
  <2>1. CASE j = k
    BY <1>2, <2>1 DEF Registers, Found
  <2>2. CASE j # k
    <3>1. task'[j] = task[j] /\ Registers(j)'
      BY <1>1, <1>2, <2>2 DEF Typed, ConnInv, Registers
    <3>2. ASSUME task[j].pc = "discover", conn'[task[j].conn] # "closed"
          PROVE  registered = task[j].conn
                 \/ (\E i \in Tasks : task'[i].conn = task[j].conn /\ task'[i].pc = "close")
                 \/ task[j].conn \in forgotten
      <4>1. task[j].conn \in Conns \ {c}
        BY <1>1, <1>3, <3>2 DEF TypeOK
      <4>2. registered = task[j].conn \/ Retiring(task[j].conn) \/ task[j].conn \in forgotten
        BY <1>3, <3>2, <4>1 DEF ConnInv, Found
      <4> QED
        BY <1>2, <4>1, <4>2 DEF Typed, Retiring
    <3> QED
      BY <1>1, <3>1, <3>2 DEF Found, Retiring
  <2> QED
    BY <2>1, <2>2
<1> QED
  BY <1>4, <1>6, <1>7, <1>8 DEF ConnInv

(* What clear() drops is forgotten.                                           *)
LEMMA ClearKeeps ==
  ASSUME ConnectionsAssumption, ConnInv, NEW k \in Tasks, Clear(k)  PROVE ConnInv'
<1>1. /\ TypeOK /\ task[k].pc = "clear" /\ registered' = None
      /\ forgotten' = forgotten \cup ({registered} \ {None})
      /\ End(k, "ok") /\ UNCHANGED <<lock, conn, Environs>>
  BY DEF ConnInv, Clear, At
<1>2. Typed(k) /\ task'[k].pc = "none"
  BY <1>1, EndTyped
<1>3. TypeOK'
  BY <1>1, <1>2, RestType DEF TypeOK, Environs
<1>4. \A j \in Tasks : Opening(j)' <=> Opening(j)
  BY <1>1, <1>2 DEF Typed, Opening
<1>5. Locked'
  BY <1>1, <1>4 DEF ConnInv, Locked
<1>6. NoLeak'
  <2>1. ASSUME NEW d \in Conns, NEW j \in Tasks, Holds(j, d)  PROVE Holds(j, d)'
    BY <1>1, <1>2, <2>1 DEF Typed, Holds, Opening
  <2>2. \A d \in Conns : conn[d] # "closed"
          => d \in forgotten' \/ \E j \in Tasks : Holds(j, d)
    BY <1>1 DEF ConnInv, NoLeak, ConnectionsAssumption
  <2> QED
    BY <1>1, <2>1, <2>2 DEF NoLeak
<1>7. ASSUME NEW j \in Tasks  PROVE Registers(j)' /\ Found(j)'
  <2>1. Registers(j)'
    BY <1>1 DEF Registers
  <2>2. CASE j = k
    BY <1>2, <2>1, <2>2 DEF Found
  <2>3. CASE j # k
    <3>1. task'[j] = task[j]
      BY <1>2, <2>3 DEF Typed
    <3>2. ASSUME task[j].pc = "discover", conn[task[j].conn] # "closed"
          PROVE  \/ task[j].conn \in forgotten'
                 \/ \E i \in Tasks : task'[i].conn = task[j].conn /\ task'[i].pc = "close"
      <4>1. task[j].conn \in Conns /\ task[j].conn # None
        BY <1>1, <3>2 DEF TypeOK, ConnectionsAssumption
      <4>2. registered = task[j].conn \/ Retiring(task[j].conn) \/ task[j].conn \in forgotten
        BY <3>2 DEF ConnInv, Found
      <4>3. ASSUME NEW i \in Tasks, task[i].pc = "close"  PROVE task'[i] = task[i]
        BY <1>1, <1>2, <4>3 DEF Typed
      <4> QED
        BY <1>1, <4>1, <4>2, <4>3 DEF Retiring
    <3> QED
      BY <1>1, <2>1, <3>1, <3>2 DEF Found, Retiring
  <2> QED
    BY <2>2, <2>3
<1> QED
  BY <1>3, <1>5, <1>6, <1>7 DEF ConnInv

(* Another loop: what the first one has not closed is forgotten.              *)
LEMMA RestartKeeps ==
  ASSUME ConnectionsAssumption, ConnInv, Restart  PROVE ConnInv'
<1>1. TypeOK /\ lock' = None /\ UNCHANGED <<registered, mood>>
  BY DEF ConnInv, Restart
<1>2. Ended \in Coroutines /\ HasConn(Ended) /\ Ended.pc = "none"
  BY DEF Ended, Coroutines, Kinds, PCs, HasConn
<1>3. /\ New("startup", "look") \in Coroutines /\ HasConn(New("startup", "look"))
      /\ New("startup", "look").pc = "look"
  BY DEF New, Ended, Coroutines, Kinds, PCs, HasConn
<1>4. \A k \in Tasks : task'[k] \in {Ended, New("startup", "look")}
  BY DEF Restart
<1>5. task' \in [Tasks -> Coroutines] /\ \A k \in Tasks : HasConn(task'[k])
  BY <1>2, <1>3, <1>4 DEF Restart
<1>6. \A k \in Tasks : task'[k].pc \in {"none", "look"}
  BY <1>2, <1>3, <1>4
<1>7. /\ conn' \in [Conns -> States]
      /\ \A c \in Conns : conn'[c] # "closed" => c \in forgotten'
  BY <1>1 DEF Restart, TypeOK, States
<1>8. /\ waits' \in [Threads -> Tasks \cup {None}] /\ failed' \subseteq Threads
      /\ forgotten' \subseteq Conns /\ phase' \in Phases
  BY <1>1 DEF Restart, TypeOK, Phases
<1>9. TypeOK'
  BY <1>1, <1>5, <1>7, <1>8 DEF TypeOK, Coroutines, HasConn
<1>10. Locked' /\ NoLeak' /\ \A k \in Tasks : Registers(k)' /\ Found(k)'
  BY <1>1, <1>6, <1>7 DEF Locked, NoLeak, Opening, Registers, Found, ConnectionsAssumption
<1> QED
  BY <1>9, <1>10 DEF ConnInv

LEMMA DieKeeps ==
  ASSUME ConnInv, NEW c \in Conns, Die(c)  PROVE ConnInv'
<1>1. /\ TypeOK /\ conn[c] = "open" /\ conn' = [conn EXCEPT ![c] = "dead"]
      /\ task' = task /\ UNCHANGED Futures /\ UNCHANGED <<registered, lock, forgotten>> /\ UNCHANGED Environs
  BY DEF ConnInv, Die
<1>2. /\ conn' \in [Conns -> States]
      /\ \A d \in Conns : conn'[d] # "closed" <=> conn[d] # "closed"
  BY <1>1 DEF TypeOK, States
<1>3. TypeOK'
  BY <1>1, <1>2 DEF TypeOK, Futures, Environs
<1>4. Locked' /\ NoLeak'
  BY <1>1, <1>2 DEF ConnInv, Locked, NoLeak, Opening, Holds
<1>5. ASSUME NEW k \in Tasks  PROVE Registers(k)' /\ Found(k)'
  <2>1. Registers(k)'
    BY <1>1 DEF ConnInv, Registers
  <2>2. task[k].pc = "discover" => task[k].conn \in Conns
    BY <1>1 DEF TypeOK
  <2>3. Found(k)'
    BY <1>1, <1>2, <2>2 DEF ConnInv, Found, Retiring
  <2> QED
    BY <2>1, <2>3
<1> QED
  BY <1>3, <1>4, <1>5 DEF ConnInv

LEMMA StepKeeps ==
  ASSUME ConnectionsAssumption, ConnInv, NEW k \in Tasks, Step(k)  PROVE ConnInv'
<1>1. CASE Respond(k)
  BY <1>1, EndKeeps DEF Respond, At, Busy
<1>2. CASE OpenFails(k) \/ DiscoverFails(k)
  <2>1. /\ task[k].pc \in {"open", "discover"} /\ Move(k, "abort")
        /\ UNCHANGED <<Futures, Sessions, Environs>>
    BY <1>2 DEF OpenFails, DiscoverFails, At
  <2> QED
    BY <2>1, ToAbortKeeps
<1>3. CASE Cancelled(k)
  <2>1. CASE task[k].pc \in {"look", "lock", "use"} /\ End(k, "failed")
    BY <1>3, <2>1, EndKeeps DEF Cancelled, Busy
  <2>2. CASE task[k].pc \in {"open", "discover"} /\ Move(k, "abort") /\ UNCHANGED Futures
    BY <1>3, <2>2, ToAbortKeeps DEF Cancelled
  <2> QED
    BY <1>3, <2>1, <2>2 DEF Cancelled, At
<1> QED
  BY <1>1, <1>2, <1>3, LookKeeps, AcquireKeeps, OpenedKeeps, DiscoveredKeeps, AbortKeeps,
     FailKeeps, ClosedKeeps, ClearKeeps DEF Step

LEMMA NextKeeps ==
  ASSUME ConnectionsAssumption, ConnInv, [Next]_vars  PROVE ConnInv'
<1>1. ASSUME NEW k \in Tasks, Step(k)  PROVE ConnInv'
  BY <1>1, StepKeeps
<1>2. ASSUME NEW t \in Threads, Call(t) \/ Timeout(t)  PROVE ConnInv'
  BY <1>2, ThreadKeeps
<1>3. ASSUME NEW c \in Conns, Die(c)  PROVE ConnInv'
  BY <1>3, DieKeeps
<1> QED
  BY <1>1, <1>2, <1>3, ServiceKeeps, RestartKeeps DEF Next

--------------------------------------------------------------------------------
(* The invariant holds of every behaviour: the lock is the opener's, nothing  *)
(* is registered beside what it opens, and what is not closed has someone who *)
(* knows of it (_connect, _drop_connection), or was forgotten (_close_all).   *)
THEOREM ConnectionsCorrect == ASSUME ConnectionsAssumption PROVE Spec => []ConnInv
<1>1. Init => ConnInv
  <2> SUFFICES ASSUME Init  PROVE ConnInv
    OBVIOUS
  <2>1. TypeOK
    BY InitType
  <2>2. \A k \in Tasks : task[k].pc \in {"none", "look"}
    BY DEF Init, Ended, New
  <2>3. Locked /\ NoLeak /\ \A k \in Tasks : Registers(k) /\ Found(k)
    BY <2>2 DEF Init, Locked, NoLeak, Opening, Registers, Found, ConnectionsAssumption
  <2> QED
    BY <2>1, <2>3 DEF ConnInv
<1>2. ConnInv /\ [Next]_vars => ConnInv'
  BY NextKeeps
<1> QED
  BY <1>1, <1>2, PTL DEF Spec

(* Types, and which awaits have a connection in hand.                         *)
THEOREM TypeCorrect == ASSUME ConnectionsAssumption PROVE Spec => []TypeOK
<1>1. ConnInv => TypeOK
  BY DEF ConnInv
<1> QED
  BY <1>1, ConnectionsCorrect, PTL

(* However calls fail, are cancelled or come in, no child process is lost but *)
(* those that clear() drops while the service closes, and those of a loop     *)
(* that was stopped and started again.                                        *)
THEOREM NoLeakAlways == ASSUME ConnectionsAssumption PROVE Spec => []NoLeak
<1>1. ConnInv => NoLeak
  BY DEF ConnInv
<1> QED
  BY <1>1, ConnectionsCorrect, PTL

(* However many tasks find no connection, a server has one, apart from those  *)
(* that are being closed, or that close() or a restart have forgotten.        *)
THEOREM OneConnectionAlways == ASSUME ConnectionsAssumption PROVE Spec => []OneConnection
<1>1. ConnInv => OneConnection
  <2> SUFFICES ASSUME ConnInv, NEW c \in Conns, NEW d \in Conns,
                      conn[c] # "closed", conn[d] # "closed", c # d
               PROVE  \E e \in {c, d} : Retiring(e) \/ e \in forgotten
    BY DEF OneConnection
  <2>1. \A e \in {c, d} : registered = e \/ Retiring(e) \/ e \in forgotten
                         \/ \E k \in Tasks : task[k].conn = e /\ Opening(k)
    BY DEF ConnInv, NoLeak, Holds, Retiring
  <2>2. \A j, k \in Tasks : Opening(j) /\ Opening(k) => j = k
    BY DEF ConnInv, Locked
  <2>3. ASSUME NEW e \in {c, d}, NEW k \in Tasks, Opening(k), task[k].conn # e
        PROVE  registered # e
    <3>1. registered = None \/ registered = task[k].conn
      BY <2>3 DEF ConnInv, Registers, Opening
    <3> QED
      BY <2>3, <3>1 DEF ConnectionsAssumption
  <2> QED
    BY <2>1, <2>2, <2>3
<1> QED
  BY <1>1, ConnectionsCorrect, PTL
================================================================================
