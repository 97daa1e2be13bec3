------------------------ MODULE RouteOwnershipProofs ------------------------
(***************************************************************************)
(* Proofs about RouteOwnership: for any devices, routes, pools, sockets    *)
(* and requests, no two devices share a dispatcher pool, a public route's  *)
(* pool is used by its owner only, and a request is served by the device   *)
(* that owned its route when it was looked up; one control socket drives a *)
(* split session, whose data sockets are counted; and a device that        *)
(* connects workers only has them counted, and keeps its route meanwhile.  *)
(***************************************************************************)
EXTENDS RouteOwnership, FiniteSetTheorems, TLAPS

-----------------------------------------------------------------------------
(* Types                                                                   *)

LEMMA ModRange ==
  ASSUME NEW W \in Nat \ {0}, NEW i \in Int
  PROVE  i % W \in 0 .. W - 1
OBVIOUS

\* What the handlers write into the records of the actors is well typed.
LEMMA WorkerUpdates ==
  ASSUME NEW x \in WorkerState
  PROVE  /\ NoWorker \in WorkerState
         /\ \A p \in Pools : [pc |-> "owned", pool |-> p] \in WorkerState
         /\ [x EXCEPT !.pc = "open"] \in WorkerState
BY DEF WorkerState, NoWorker

LEMMA RequestUpdates ==
  ASSUME NEW x \in RequestState
  PROVE  /\ NoRequest \in RequestState
         /\ \A d \in Devices : [x EXCEPT !.pc = "served", !.server = d] \in RequestState
BY DEF RequestState, NoRequest

LEMMA CounterType ==
  ASSUME active_workers \in [Pools -> CounterState], NEW p, NEW n \in Int,
         Add(p, n) \/ Sub(p, n)
  PROVE  active_workers' \in [Pools -> CounterState]
<1>1. CASE p \notin Pools
  BY <1>1 DEF Add, Sub
<1>2. CASE p \in Pools
  <2>1. active_workers[p] \in Int
    BY <1>2 DEF CounterState
  <2>2. active_workers[p] + n \in Int /\ active_workers[p] - n \in Int
    BY <2>1
  <2>3. /\ (active_workers[p] + n) % Word \in 0 .. Word - 1
        /\ (active_workers[p] - n) % Word \in 0 .. Word - 1
    BY <2>2, ModRange, OwnershipAssumption
  <2>4. QED
    BY <2>3 DEF Add, Sub, CounterState
<1>3. QED
  BY <1>1, <1>2

LEMMA RegisterType ==
  ASSUME TypeOK, NEW k \in Keys, NEW d \in Devices, NEW p \in Pools, RegisterOwned(k, d, p)
  PROVE  /\ owner' \in [Keys -> Devices \cup {None}]
         /\ current' \in [Keys -> Pools \cup {None}]
         /\ fresh' \subseteq Pools
<1>1. CASE owner[k] = d
  BY <1>1 DEF TypeOK, RegisterOwned, registryVars
<1>2. CASE owner[k] # d
  <2>1. /\ owner' = [owner EXCEPT ![k] = d]
        /\ current' = [current EXCEPT ![k] = p]
        /\ fresh' = fresh \ {p}
    BY <1>2 DEF RegisterOwned
  <2>2. QED
    BY <2>1 DEF TypeOK
<1>3. QED
  BY <1>1, <1>2

LEMMA TypeInit == Init => TypeOK
<1>1. SUFFICES ASSUME Init PROVE TypeOK
  OBVIOUS
<1>2. active_workers \in [Pools -> CounterState]
  BY <1>1, OwnershipAssumption DEF Init, CounterState
<1>3. /\ NoControl \in ControlState /\ NoWorker \in WorkerState
      /\ NoConn \in ConnState /\ NoRequest \in RequestState
  BY DEF NoControl, ControlState, NoWorker, WorkerState, NoConn, ConnState,
         NoRequest, RequestState
<1>4. QED
  BY <1>1, <1>2, <1>3 DEF Init, TypeOK

LEMMA ConnUpdates ==
  ASSUME NEW x \in ConnState
  PROVE  /\ NoConn \in ConnState
         /\ \A q \in {"found", "counted", "adding", "open", "leaving", "left", "dropping"} :
              /\ [x EXCEPT !.pc = q] \in ConnState
              /\ \A S \in SUBSET Pools : [pc |-> q, todo |-> S] \in ConnState
         /\ \A p : [x EXCEPT !.todo = @ \ {p}] \in ConnState
         /\ x.todo \subseteq Pools
BY DEF ConnState, NoConn

LEMMA ControlUpdates ==
  ASSUME NEW x \in ControlState
  PROVE  /\ NoControl \in ControlState
         /\ x.session \in Sessions \cup {None} /\ x.gen \in Nat
         /\ x.pool \in Pools \cup {None} /\ x.key \in Keys \cup {None} /\ x.n \in Int
         /\ [x EXCEPT !.pc = "loop"] \in ControlState
         /\ [x EXCEPT !.pc = "loop", !.pool = None, !.n = 0] \in ControlState
         /\ [x EXCEPT !.pc = "loop", !.key = None, !.pool = None, !.n = 0] \in ControlState
         /\ \A s \in Sessions, g \in Nat :
              [NoControl EXCEPT !.pc = "greeting", !.session = s, !.gen = g] \in ControlState
         /\ \A k \in Keys, p \in Pools \cup {None} :
              [x EXCEPT !.pc = "owned", !.key = k, !.pool = p] \in ControlState
         /\ \A n \in Int : [x EXCEPT !.pc = "loaded", !.n = n] \in ControlState
         /\ \A p \in Pools \cup {None}, n \in Int :
              [x EXCEPT !.pc = "removed", !.pool = p, !.n = n] \in ControlState
<1>1. NoControl \in ControlState
  BY DEF ControlState, NoControl
<1>2. /\ x.session \in Sessions \cup {None} /\ x.gen \in Nat
      /\ x.pool \in Pools \cup {None} /\ x.key \in Keys \cup {None} /\ x.n \in Int
  BY DEF ControlState
<1>3. ASSUME NEW y \in ControlState
      PROVE  /\ \A q \in {"greeting", "loop", "owned", "loaded", "removed"} :
                  [y EXCEPT !.pc = q] \in ControlState
             /\ \A s \in Sessions : [y EXCEPT !.session = s] \in ControlState
             /\ \A g \in Nat : [y EXCEPT !.gen = g] \in ControlState
             /\ \A k \in Keys \cup {None} : [y EXCEPT !.key = k] \in ControlState
             /\ \A p \in Pools \cup {None} : [y EXCEPT !.pool = p] \in ControlState
             /\ \A n \in Int : [y EXCEPT !.n = n] \in ControlState
             /\ [y EXCEPT !.n = 0] \in ControlState
  BY DEF ControlState
<1>4. [x EXCEPT !.pc = "loop"] \in ControlState
  BY <1>3
<1>5. [x EXCEPT !.pc = "loop", !.pool = None, !.n = 0] \in ControlState
  <2>1. PICK y \in ControlState : y = [x EXCEPT !.pc = "loop", !.pool = None]
    BY <1>3, <1>4
  <2>2. [y EXCEPT !.n = 0] = [x EXCEPT !.pc = "loop", !.pool = None, !.n = 0]
    BY <2>1
  <2>3. [y EXCEPT !.n = 0] \in ControlState
    BY <1>3
  <2>4. QED
    BY <2>2, <2>3
<1>6. [x EXCEPT !.pc = "loop", !.key = None, !.pool = None, !.n = 0] \in ControlState
  <2>1. PICK z \in ControlState : z = [x EXCEPT !.pc = "loop", !.key = None]
    BY <1>3, <1>4
  <2>2. PICK y \in ControlState : y = [z EXCEPT !.pool = None]
    BY <1>3
  <2>3. [y EXCEPT !.n = 0] = [x EXCEPT !.pc = "loop", !.key = None, !.pool = None, !.n = 0]
    BY <2>1, <2>2
  <2>4. [y EXCEPT !.n = 0] \in ControlState
    BY <1>3
  <2>5. QED
    BY <2>3, <2>4
<1>7. \A s \in Sessions, g \in Nat :
        [NoControl EXCEPT !.pc = "greeting", !.session = s, !.gen = g] \in ControlState
  BY <1>1, <1>3
<1>8. \A k \in Keys, p \in Pools \cup {None} :
        [x EXCEPT !.pc = "owned", !.key = k, !.pool = p] \in ControlState
  BY <1>3
<1>9. \A n \in Int : [x EXCEPT !.pc = "loaded", !.n = n] \in ControlState
  BY <1>3
<1>10. \A p \in Pools \cup {None}, n \in Int :
        [x EXCEPT !.pc = "removed", !.pool = p, !.n = n] \in ControlState
  BY <1>3
<1>11. QED
  BY <1>1, <1>2, <1>4, <1>5, <1>6, <1>7, <1>8, <1>9, <1>10

\* Steps that touch one kind of actor leave the types of the others alone.
LEMMA TypeRequest ==
  ASSUME TypeOK, RequestStep
  PROVE  TypeOK'
<1>1. ASSUME request' \in [Requests -> RequestState],
             UNCHANGED <<registryVars, active_workers, worker, sessionVars, routes,
                         active_data, control, conn>>
      PROVE  TypeOK'
  BY <1>1 DEF TypeOK, registryVars, sessionVars
<1>2. ASSUME NEW q \in Requests, Lookup(q)
      PROVE  TypeOK'
  <2>1. PICK k \in Keys : request' = [request EXCEPT ![q] =
            [pc |-> "queued", key |-> k, pool |-> current[k], owner |-> owner[k],
             server |-> None]]
    BY <1>2 DEF Lookup
  <2>2. [pc |-> "queued", key |-> k, pool |-> current[k], owner |-> owner[k],
         server |-> None] \in RequestState
    BY DEF TypeOK, RequestState
  <2>3. request' \in [Requests -> RequestState]
    BY <2>1, <2>2 DEF TypeOK
  <2>4. QED
    BY <1>1, <1>2, <2>3 DEF Lookup
<1>3. ASSUME NEW q \in Requests, NEW d \in Devices, Serve(q, d)
      PROVE  TypeOK'
  <2>1. [request[q] EXCEPT !.pc = "served", !.server = d] \in RequestState
    BY RequestUpdates DEF TypeOK
  <2>2. request' \in [Requests -> RequestState]
    BY <1>3, <2>1 DEF Serve, TypeOK
  <2>3. QED
    BY <1>1, <1>3, <2>2 DEF Serve
<1>4. ASSUME NEW q \in Requests, ServeByWorker(q) \/ ServeByConn(q)
      PROVE  TypeOK'
  BY <1>3, <1>4, OwnershipAssumption DEF ServeByWorker, ServeByConn
<1>5. ASSUME NEW q \in Requests, Forget(q)
      PROVE  TypeOK'
  <2>1. NoRequest \in RequestState
    BY RequestUpdates DEF TypeOK
  <2>2. request' \in [Requests -> RequestState]
    BY <1>5, <2>1 DEF Forget, TypeOK
  <2>3. QED
    BY <1>1, <1>5, <2>2 DEF Forget
<1>6. QED
  BY <1>2, <1>4, <1>5 DEF RequestStep

LEMMA TypeWorker ==
  ASSUME TypeOK, WorkerStep
  PROVE  TypeOK'
<1> USE DEF workerFrame, sessionVars, registryVars
<1>0. ASSUME NEW w \in Workers
      PROVE  /\ \A p \in Pools : [pc |-> "owned", pool |-> p] \in WorkerState
             /\ [worker[w] EXCEPT !.pc = "open"] \in WorkerState
             /\ NoWorker \in WorkerState
  BY WorkerUpdates DEF TypeOK
<1>1. ASSUME NEW w \in Workers, WorkerRegister(w)
      PROVE  TypeOK'
  <2>1. PICK p \in Pools : /\ RegisterOwned(WorkerKey[w], WorkerDevice[w], p)
                           /\ worker' = [worker EXCEPT ![w] = [pc |-> "owned", pool |-> p]]
    BY <1>1 DEF WorkerRegister
  <2>2. /\ owner' \in [Keys -> Devices \cup {None}]
        /\ current' \in [Keys -> Pools \cup {None}]
        /\ fresh' \subseteq Pools
    BY <2>1, RegisterType, OwnershipAssumption
  <2>3. worker' \in [Workers -> WorkerState]
    BY <1>0, <2>1 DEF TypeOK
  <2>4. QED
    BY <1>1, <2>2, <2>3 DEF WorkerRegister, TypeOK
<1>2. ASSUME NEW w \in Workers, WorkerGuard(w) \/ WorkerGone(w)
      PROVE  TypeOK'
  <2>1. active_workers' \in [Pools -> CounterState]
    BY <1>2, CounterType DEF WorkerGuard, WorkerGone, TypeOK
  <2>2. worker' \in [Workers -> WorkerState]
    BY <1>0, <1>2 DEF WorkerGuard, WorkerGone, TypeOK
  <2>3. QED
    BY <1>2, <2>1, <2>2 DEF WorkerGuard, WorkerGone, TypeOK
<1>3. ASSUME NEW w \in Workers, WorkerRefused(w)
      PROVE  TypeOK'
  <2>1. worker' \in [Workers -> WorkerState]
    BY <1>0, <1>3 DEF WorkerRefused, TypeOK
  <2>2. QED
    BY <1>3, <2>1 DEF WorkerRefused, TypeOK
<1>4. QED
  BY <1>1, <1>2, <1>3 DEF WorkerStep

LEMMA TypeConn ==
  ASSUME TypeOK, ConnStep
  PROVE  TypeOK'
<1> USE DEF connFrame, sessionVars, registryVars
<1>0. ASSUME NEW d \in Conns
      PROVE  /\ NoConn \in ConnState
             /\ ConnSession[d] \in Sessions
             /\ \A q \in {"found", "counted", "adding", "open", "leaving", "left", "dropping"} :
                  /\ [conn[d] EXCEPT !.pc = q] \in ConnState
                  /\ \A S \in SUBSET Pools : [pc |-> q, todo |-> S] \in ConnState
             /\ \A p : [conn[d] EXCEPT !.todo = @ \ {p}] \in ConnState
             /\ conn[d].todo \subseteq Pools
  BY ConnUpdates, OwnershipAssumption DEF TypeOK
<1>1. ASSUME NEW d \in Conns,
             FindSession(d) \/ ConnRefused(d) \/ OpenConn(d) \/ ConnLost(d) \/ ConnGone(d)
      PROVE  TypeOK'
  <2>1. conn' \in [Conns -> ConnState]
    BY <1>0, <1>1 DEF FindSession, ConnRefused, OpenConn, ConnLost, ConnGone, TypeOK
  <2>2. QED
    BY <1>1, <2>1 DEF FindSession, ConnRefused, OpenConn, ConnLost, ConnGone, TypeOK
<1>2. ASSUME NEW d \in Conns, CountConn(d) \/ UncountConn(d)
      PROVE  TypeOK'
  <2>1. conn' \in [Conns -> ConnState]
    BY <1>0, <1>2 DEF CountConn, UncountConn, TypeOK
  <2>2. active_data' \in [Sessions -> Int]
    <3>1. CASE CountConn(d)
      BY <3>1 DEF CountConn, TypeOK
    <3>2. CASE UncountConn(d)
      <4>1. active_data' = [active_data EXCEPT ![ConnSession[d]] = @ - 1]
        BY <3>2 DEF UncountConn
      <4>2. active_data \in [Sessions -> Int] /\ ConnSession[d] \in Sessions
        BY <1>0 DEF TypeOK
      <4>3. QED
        BY <4>1, <4>2
    <3>3. QED
      BY <1>2, <3>1, <3>2
  <2>3. QED
    BY <1>2, <2>1, <2>2 DEF CountConn, UncountConn, TypeOK
<1>3. ASSUME NEW d \in Conns, SnapshotForAdd(d) \/ SnapshotForDrop(d)
      PROVE  TypeOK'
  <2>1. Snapshot(ConnSession[d]) \subseteq Pools
    <3>1. ConnSession[d] \in Sessions
      BY <1>0
    <3>2. routes \in [Sessions -> [Keys -> Pools \cup {None}]]
      BY DEF TypeOK
    <3>3. \A k \in Keys : routes[ConnSession[d]][k] \in Pools \cup {None}
      BY <3>1, <3>2
    <3>4. QED
      BY <3>3 DEF Snapshot
  <2>2. conn' \in [Conns -> ConnState]
    <3>1. PICK q \in {"adding", "dropping"} :
            conn' = [conn EXCEPT ![d] = [pc |-> q, todo |-> Snapshot(ConnSession[d])]]
      BY <1>3 DEF SnapshotForAdd, SnapshotForDrop
    <3>2. [pc |-> q, todo |-> Snapshot(ConnSession[d])] \in ConnState
      BY <1>0, <2>1
    <3>3. QED
      BY <3>1, <3>2 DEF TypeOK
  <2>3. QED
    BY <1>3, <2>2 DEF SnapshotForAdd, SnapshotForDrop, TypeOK
<1>4. ASSUME NEW d \in Conns, AddToPool(d) \/ DropFromPool(d)
      PROVE  TypeOK'
  <2>1. PICK p \in conn[d].todo : /\ Add(p, 1) \/ Sub(p, 1)
                                  /\ conn' = [conn EXCEPT ![d].todo = @ \ {p}]
    BY <1>4 DEF AddToPool, DropFromPool
  <2>2. active_workers' \in [Pools -> CounterState]
    BY <2>1, CounterType DEF TypeOK
  <2>3. conn' \in [Conns -> ConnState]
    BY <1>0, <2>1 DEF TypeOK
  <2>4. QED
    BY <1>4, <2>2, <2>3 DEF AddToPool, DropFromPool, TypeOK
<1>5. QED
  BY <1>1, <1>2, <1>3, <1>4 DEF ConnStep

LEMMA TypeSession ==
  ASSUME TypeOK, SessionStep
  PROVE  TypeOK'
<1> USE DEF controlFrame, sessionVars, registryVars
<1>0. ASSUME NEW c \in Controls
      PROVE  /\ NoControl \in ControlState
             /\ [control[c] EXCEPT !.pc = "loop"] \in ControlState
             /\ control[c].session \in Sessions \cup {None} /\ control[c].gen \in Nat
             /\ \A s \in Sessions, g \in Nat :
                  [NoControl EXCEPT !.pc = "greeting", !.session = s, !.gen = g] \in ControlState
  BY ControlUpdates DEF TypeOK
<1>s. ASSUME NEW s, Shutdown(s)
      PROVE  conn' \in [Conns -> ConnState]
  <2>1. \A d \in Conns : [conn[d] EXCEPT !.pc = "leaving"] \in ConnState
    BY ConnUpdates DEF TypeOK
  <2>2. QED
    BY <1>s, <2>1 DEF Shutdown, TypeOK
<1>1. ASSUME NEW c \in Controls, NEW s \in Sessions, Create(c, s) \/ Reattach(c, s)
      PROVE  TypeOK'
  <2>1. control' \in [Controls -> ControlState]
    <3>1. PICK g \in Nat : control' = [control EXCEPT ![c] =
            [NoControl EXCEPT !.pc = "greeting", !.session = s, !.gen = g]]
      <4>1. 1 \in Nat /\ generation[s] + 1 \in Nat
        BY DEF TypeOK
      <4>2. QED
        BY <1>1, <4>1 DEF Create, Reattach
    <3>2. [NoControl EXCEPT !.pc = "greeting", !.session = s, !.gen = g] \in ControlState
      BY <1>0
    <3>3. QED
      BY <3>1, <3>2 DEF TypeOK
  <2>2. attached' \in [Sessions -> BOOLEAN] /\ generation' \in [Sessions -> Nat]
    <3>1. CASE Create(c, s)
      BY <3>1 DEF Create, TypeOK
    <3>2. CASE Reattach(c, s)
      BY <3>2 DEF Reattach, TypeOK
    <3>3. QED
      BY <1>1, <3>1, <3>2
  <2>3. registered' \subseteq Sessions /\ created' \subseteq Sessions
    BY <1>1 DEF Create, Reattach, TypeOK
  <2>4. QED
    BY <1>1, <2>1, <2>2, <2>3 DEF Create, Reattach, TypeOK
<1>2. ASSUME NEW c \in Controls, Greeted(c)
      PROVE  TypeOK'
  <2>1. control' \in [Controls -> ControlState]
    BY <1>0, <1>2 DEF Greeted, TypeOK
  <2>2. QED
    BY <1>2, <2>1 DEF Greeted, TypeOK
<1>3. ASSUME NEW c \in Controls, CreateFailed(c)
      PROVE  TypeOK'
  <2>1. control' \in [Controls -> ControlState]
    BY <1>0, <1>3 DEF CreateFailed, TypeOK
  <2>2. conn' \in [Conns -> ConnState]
    BY <1>3, <1>s DEF CreateFailed
  <2>3. QED
    BY <1>3, <2>1, <2>2 DEF CreateFailed, TypeOK
<1>4. ASSUME NEW c \in Controls, ControlLost(c)
      PROVE  TypeOK'
  <2>1. control' \in [Controls -> ControlState]
    BY <1>0, <1>4 DEF ControlLost, TypeOK
  <2>2. control[c].gen \in Nat
    BY <1>0
  <2>3. attached' \in [Sessions -> BOOLEAN] /\ timers' \in [Sessions -> SUBSET Nat]
    <3>1. CASE UNCHANGED <<attached, timers>>
      BY <3>1 DEF TypeOK
    <3>2. CASE /\ attached' = [attached EXCEPT ![control[c].session] = FALSE]
               /\ timers' = [timers EXCEPT ![control[c].session] = @ \cup {control[c].gen}]
      BY <2>2, <3>2 DEF TypeOK
    <3>3. QED
      BY <1>4, <3>1, <3>2 DEF ControlLost
  <2>4. QED
    BY <1>4, <2>1, <2>2, <2>3 DEF ControlLost, TypeOK
<1>5. ASSUME NEW s \in Sessions, Cleanup(s)
      PROVE  TypeOK'
  <2>1. timers' \in [Sessions -> SUBSET Nat] /\ registered' \subseteq Sessions
    BY <1>5 DEF Cleanup, TypeOK
  <2>2. conn' \in [Conns -> ConnState]
    BY <1>5, <1>s DEF Cleanup, TypeOK
  <2>3. QED
    BY <1>5, <2>1, <2>2 DEF Cleanup, TypeOK
<1>6. QED
  BY <1>1, <1>2, <1>3, <1>4, <1>5 DEF SessionStep

LEMMA TypeRoute ==
  ASSUME TypeOK, DrivesSession, RouteStep
  PROVE  TypeOK'
<1> USE DEF routeFrame, sessionVars, registryVars
<1>0. ASSUME NEW c \in Controls
      PROVE  /\ control[c].pool \in Pools \cup {None} /\ control[c].key \in Keys \cup {None}
             /\ control[c].n \in Int
             /\ [control[c] EXCEPT !.pc = "loop", !.pool = None, !.n = 0] \in ControlState
             /\ [control[c] EXCEPT !.pc = "loop", !.key = None, !.pool = None, !.n = 0]
                   \in ControlState
             /\ \A k \in Keys, p \in Pools \cup {None} :
                  [control[c] EXCEPT !.pc = "owned", !.key = k, !.pool = p] \in ControlState
             /\ \A n \in Int : [control[c] EXCEPT !.pc = "loaded", !.n = n] \in ControlState
             /\ \A p \in Pools \cup {None}, n \in Int :
                  [control[c] EXCEPT !.pc = "removed", !.pool = p, !.n = n] \in ControlState
  BY ControlUpdates DEF TypeOK
<1>1. ASSUME NEW c \in Controls, NEW k \in Keys, RegisterRoute(c, k)
      PROVE  TypeOK'
  <2>1. control[c].session \in Sessions
    BY <1>1 DEF RegisterRoute, DrivesSession
  <2>2. PICK p \in Pools :
          /\ RegisterOwned(k, SessionDevice[control[c].session], p)
          /\ control' = [control EXCEPT ![c] =
                           [@ EXCEPT !.pc = "owned", !.key = k, !.pool = p]]
    BY <1>1 DEF RegisterRoute
  <2>3. /\ owner' \in [Keys -> Devices \cup {None}]
        /\ current' \in [Keys -> Pools \cup {None}]
        /\ fresh' \subseteq Pools
    BY <2>1, <2>2, RegisterType, OwnershipAssumption
  <2>4. control' \in [Controls -> ControlState]
    BY <1>0, <2>2 DEF TypeOK
  <2>5. QED
    BY <1>1, <2>3, <2>4 DEF RegisterRoute, TypeOK
<1>2. ASSUME NEW c \in Controls, LoadConnections(c)
      PROVE  TypeOK'
  <2>1. active_data[control[c].session] \in Int
    BY <1>2 DEF LoadConnections, DrivesSession, TypeOK
  <2>2. control' \in [Controls -> ControlState]
    BY <1>0, <1>2, <2>1 DEF LoadConnections, TypeOK
  <2>3. QED
    BY <1>2, <2>2 DEF LoadConnections, TypeOK
<1>3. ASSUME NEW c \in Controls, InsertRoute(c)
      PROVE  TypeOK'
  <2>1. active_workers' \in [Pools -> CounterState]
    BY <1>0, <1>3, CounterType DEF InsertRoute, TypeOK
  <2>2. control' \in [Controls -> ControlState]
    BY <1>0, <1>3 DEF InsertRoute, TypeOK
  <2>3. routes' \in [Sessions -> [Keys -> Pools \cup {None}]]
    BY <1>0, <1>3 DEF InsertRoute, TypeOK
  <2>4. QED
    BY <1>3, <2>1, <2>2, <2>3 DEF InsertRoute, TypeOK
<1>4. ASSUME NEW c \in Controls, NEW k \in Keys, RemoveRoute(c, k)
      PROVE  TypeOK'
  <2>1. control[c].session \in Sessions
    BY <1>4 DEF RemoveRoute, DrivesSession
  <2>2. /\ routes[control[c].session][k] \in Pools \cup {None}
        /\ active_data[control[c].session] \in Int
    BY <2>1 DEF TypeOK
  <2>3. control' \in [Controls -> ControlState]
    BY <1>0, <1>4, <2>2 DEF RemoveRoute, TypeOK
  <2>4. routes' \in [Sessions -> [Keys -> Pools \cup {None}]]
    BY <1>4, <2>1 DEF RemoveRoute, TypeOK
  <2>5. QED
    BY <1>4, <2>3, <2>4 DEF RemoveRoute, TypeOK
<1>5. ASSUME NEW c \in Controls, DiscountRoute(c)
      PROVE  TypeOK'
  <2>1. active_workers' \in [Pools -> CounterState]
    BY <1>0, <1>5, CounterType DEF DiscountRoute, TypeOK
  <2>2. control' \in [Controls -> ControlState]
    BY <1>0, <1>5 DEF DiscountRoute, TypeOK
  <2>3. QED
    BY <1>5, <2>1, <2>2 DEF DiscountRoute, TypeOK
<1>6. QED
  BY <1>1, <1>2, <1>3, <1>4, <1>5 DEF RouteStep
-----------------------------------------------------------------------------
(* Isolation                                                               *)

\* A step that leaves the registry and the requests alone and gives no device a pool
\* it did not use keeps the isolation.
LEMMA FewerUses ==
  ASSUME TypeOK, IsolationInv, UNCHANGED registryVars, request' = request, DrivesSession',
         \A d \in Devices, p \in Pools : Uses(d, p)' => Uses(d, p)
  PROVE  IsolationInv'
<1>1. PoolIsolation' /\ ServedByOwner'
  BY DEF IsolationInv, PoolIsolation, ServedByOwner, registryVars
<1>2. FreshUnused'
  BY DEF IsolationInv, FreshUnused, registryVars, TypeOK
<1>3. PoolPerRoute'
  BY DEF IsolationInv, PoolPerRoute, registryVars
<1>4. RequestKeepsOwner'
  BY DEF IsolationInv, RequestKeepsOwner, registryVars
<1>5. QED
  BY <1>1, <1>2, <1>3, <1>4 DEF IsolationInv

\* A registration gives the registered pool to the registering device only: to the owner
\* the pool it owns, to a new owner a pool nobody uses.
LEMMA OwnerUses ==
  ASSUME TypeOK, IsolationInv, request' = request, DrivesSession',
         NEW k \in Keys, NEW d \in Devices, NEW p \in Pools, RegisterOwned(k, d, p),
         \A e \in Devices, r \in Pools : Uses(e, r)' => Uses(e, r) \/ (e = d /\ r = p)
  PROVE  IsolationInv'
<1>n. None \notin Pools /\ None \notin Devices
  BY OwnershipAssumption
<1>1. CASE owner[k] = d
  <2>1. p = current[k] /\ UNCHANGED registryVars
    BY <1>1 DEF RegisterOwned
  <2>2. p \in Pools \ fresh /\ \A l \in Keys : current[l] = p => l = k
    BY <1>n, <1>1, <2>1 DEF IsolationInv, PoolPerRoute
  <2>3. \A e \in Devices : Uses(e, p) => e = d
    BY <1>1, <2>1 DEF IsolationInv, PoolIsolation
  <2>4. PoolIsolation'
    BY <1>1, <2>1, <2>2, <2>3 DEF IsolationInv, PoolIsolation, registryVars
  <2>5. FreshUnused'
    BY <2>1, <2>2 DEF IsolationInv, FreshUnused, registryVars, TypeOK
  <2>6. PoolPerRoute' /\ ServedByOwner'
    BY <2>1 DEF IsolationInv, PoolPerRoute, ServedByOwner, registryVars
  <2>7. RequestKeepsOwner'
    BY <1>1, <2>1 DEF IsolationInv, RequestKeepsOwner, registryVars
  <2>8. QED
    BY <2>4, <2>5, <2>6, <2>7 DEF IsolationInv
<1>2. CASE owner[k] # d
  <2>1. /\ owner' = [owner EXCEPT ![k] = d]
        /\ current' = [current EXCEPT ![k] = p]
        /\ p \in fresh /\ fresh' = fresh \ {p}
    BY <1>2 DEF RegisterOwned
  <2>2. \A l \in Keys : /\ l = k => owner'[l] = d /\ current'[l] = p
                        /\ l # k => /\ owner'[l] = owner[l] /\ current'[l] = current[l]
                                    /\ current[l] # p
    BY <1>n, <2>1 DEF TypeOK, IsolationInv, PoolPerRoute
  <2>3. \A e \in Devices : ~ Uses(e, p)
    BY <2>1 DEF IsolationInv, FreshUnused
  <2>4. PoolIsolation'
    <3>1. SUFFICES ASSUME NEW e \in Devices, NEW r \in Pools, Uses(e, r)'
                   PROVE  /\ \A f \in Devices : Uses(f, r)' => f = e
                          /\ \A l \in Keys : current'[l] = r => owner'[l] = e
      BY DEF PoolIsolation
    <3>2. CASE r = p
      BY <2>2, <2>3, <3>1, <3>2
    <3>3. CASE r # p
      BY <2>2, <3>1, <3>3 DEF IsolationInv, PoolIsolation
    <3>4. QED
      BY <3>2, <3>3
  <2>5. FreshUnused'
    BY <2>1 DEF IsolationInv, FreshUnused, TypeOK
  <2>6. PoolPerRoute' /\ ServedByOwner'
    <3>1. \A l \in Keys : IF owner'[l] = None THEN current'[l] = None
                                              ELSE current'[l] \in Pools \ fresh'
      BY <1>n, <2>1, <2>2 DEF IsolationInv, PoolPerRoute
    <3>2. \A l, m \in Keys : current'[l] = current'[m] /\ current'[l] # None => l = m
      BY <2>2 DEF IsolationInv, PoolPerRoute
    <3>3. QED
      BY <3>1, <3>2 DEF IsolationInv, PoolPerRoute, ServedByOwner
  <2>7. RequestKeepsOwner'
    <3>1. SUFFICES ASSUME NEW q \in Requests, request[q].pc # "none"
                   PROVE  /\ request[q].pool \in Pools \ fresh'
                          /\ \A e \in Devices : Uses(e, request[q].pool)' => e = request[q].owner
                          /\ \A l \in Keys : current'[l] = request[q].pool
                                              => owner'[l] = request[q].owner
      BY DEF RequestKeepsOwner
    <3>2. request[q].pool \in Pools \ fresh /\ request[q].pool # p
      BY <2>1, <3>1 DEF IsolationInv, RequestKeepsOwner
    <3>3. QED
      BY <2>1, <2>2, <3>1, <3>2 DEF IsolationInv, RequestKeepsOwner
  <2>8. QED
    BY <2>4, <2>5, <2>6, <2>7 DEF IsolationInv
<1>3. QED
  BY <1>1, <1>2

\* Where the steps of each kind take the pools they use from.
LEMMA IsolationRequest ==
  ASSUME TypeOK, IsolationInv, RequestStep
  PROVE  IsolationInv'
<1>n. None \notin Pools /\ None \notin Devices
  BY OwnershipAssumption
<1>1. ASSUME request' \in [Requests -> RequestState],
             UNCHANGED <<registryVars, active_workers, worker, sessionVars, routes,
                         active_data, control, conn>>,
             ServedByOwner', RequestKeepsOwner'
      PROVE  IsolationInv'
  <2>1. \A d \in Devices : \A p : Uses(d, p)' <=> Uses(d, p)
    BY <1>1 DEF Uses
  <2>2. PoolIsolation' /\ FreshUnused'
    BY <1>1, <2>1 DEF IsolationInv, PoolIsolation, FreshUnused, registryVars, TypeOK
  <2>3. PoolPerRoute' /\ DrivesSession'
    BY <1>1 DEF IsolationInv, PoolPerRoute, DrivesSession, registryVars
  <2>4. QED
    BY <1>1, <2>2, <2>3 DEF IsolationInv
<1>2. ASSUME NEW q \in Requests, Lookup(q)
      PROVE  IsolationInv'
  <2>1. PICK k \in Keys :
          /\ owner[k] # None
          /\ request' = [request EXCEPT ![q] =
               [pc |-> "queued", key |-> k, pool |-> current[k], owner |-> owner[k],
                server |-> None]]
    BY <1>2 DEF Lookup
  <2>2. request' \in [Requests -> RequestState]
    <3>1. [pc |-> "queued", key |-> k, pool |-> current[k], owner |-> owner[k],
           server |-> None] \in RequestState
      BY DEF TypeOK, RequestState
    <3>2. QED
      BY <2>1, <3>1 DEF TypeOK
  <2>3. /\ request'[q].pc = "queued"
        /\ request'[q].pool = current[k] /\ request'[q].owner = owner[k]
        /\ \A r \in Requests : r # q => request'[r] = request[r]
    BY <2>1 DEF TypeOK
  <2>4. /\ current[k] \in Pools \ fresh
        /\ \A l \in Keys : current[l] = current[k] => l = k
    BY <1>n, <2>1 DEF IsolationInv, PoolPerRoute
  <2>5. \A d \in Devices : Uses(d, current[k]) => d = owner[k]
    BY <2>4 DEF IsolationInv, PoolIsolation
  <2>6. \A d \in Devices : \A p : Uses(d, p)' <=> Uses(d, p)
    BY <1>2 DEF Lookup, Uses
  <2>7. ServedByOwner'
    BY <2>3 DEF IsolationInv, ServedByOwner
  <2>8. RequestKeepsOwner'
    <3>1. SUFFICES ASSUME NEW r \in Requests, request'[r].pc # "none"
                   PROVE  /\ request'[r].pool \in Pools \ fresh
                          /\ \A d \in Devices : Uses(d, request'[r].pool) => d = request'[r].owner
                          /\ \A l \in Keys : current[l] = request'[r].pool
                                              => owner[l] = request'[r].owner
      BY <1>2, <2>6 DEF RequestKeepsOwner, Lookup, registryVars
    <3>2. CASE r = q
      BY <2>3, <2>4, <2>5, <3>2
    <3>3. CASE r # q
      BY <2>3, <3>1, <3>3 DEF IsolationInv, RequestKeepsOwner
    <3>4. QED
      BY <3>2, <3>3
  <2>9. QED
    BY <1>1, <1>2, <2>2, <2>7, <2>8 DEF Lookup
<1>3. ASSUME NEW q \in Requests, NEW d \in Devices, Serve(q, d),
             request[q].pc = "queued", Uses(d, request[q].pool)
      PROVE  IsolationInv'
  <2>1. request' \in [Requests -> RequestState]
    <3>1. [request[q] EXCEPT !.pc = "served", !.server = d] \in RequestState
      BY RequestUpdates DEF TypeOK
    <3>2. QED
      BY <1>3, <3>1 DEF Serve, TypeOK
  <2>2. /\ request'[q].pool = request[q].pool /\ request'[q].owner = request[q].owner
        /\ request'[q].server = d
        /\ \A r \in Requests : r # q => request'[r] = request[r]
    BY <1>3 DEF Serve, TypeOK, RequestState
  <2>3. d = request[q].owner
    BY <1>3 DEF IsolationInv, RequestKeepsOwner
  <2>4. ServedByOwner'
    BY <2>2, <2>3 DEF IsolationInv, ServedByOwner
  <2>5. \A e \in Devices : \A p : Uses(e, p)' <=> Uses(e, p)
    BY <1>3 DEF Serve, Uses
  <2>6. RequestKeepsOwner'
    <3>1. SUFFICES ASSUME NEW r \in Requests, request'[r].pc # "none"
                   PROVE  /\ request'[r].pool \in Pools \ fresh
                          /\ \A e \in Devices : Uses(e, request'[r].pool) => e = request'[r].owner
                          /\ \A l \in Keys : current[l] = request'[r].pool
                                              => owner[l] = request'[r].owner
      BY <1>3, <2>5 DEF RequestKeepsOwner, Serve, registryVars
    <3>2. request[r].pc # "none" /\ request'[r].pool = request[r].pool
                                /\ request'[r].owner = request[r].owner
      BY <1>3, <2>2, <3>1
    <3>3. QED
      BY <3>2 DEF IsolationInv, RequestKeepsOwner
  <2>7. QED
    BY <1>1, <1>3, <2>1, <2>4, <2>6 DEF Serve
<1>4. ASSUME NEW q \in Requests, ServeByWorker(q)
      PROVE  IsolationInv'
  <2>1. PICK w \in Workers : worker[w].pool = request[q].pool /\ Serve(q, WorkerDevice[w])
    BY <1>4 DEF ServeByWorker
  <2>2. WorkerDevice[w] \in Devices /\ Uses(WorkerDevice[w], request[q].pool)
    BY <2>1, OwnershipAssumption DEF Uses
  <2>3. QED
    BY <1>3, <1>4, <2>1, <2>2 DEF ServeByWorker
<1>5. ASSUME NEW q \in Requests, ServeByConn(q)
      PROVE  IsolationInv'
  <2>1. PICK x \in Conns :
          /\ \E k \in Keys : routes[ConnSession[x]][k] = request[q].pool
          /\ Serve(q, SessionDevice[ConnSession[x]])
    BY <1>5 DEF ServeByConn
  <2>2. ConnSession[x] \in Sessions /\ SessionDevice[ConnSession[x]] \in Devices
    BY OwnershipAssumption
  <2>3. Uses(SessionDevice[ConnSession[x]], request[q].pool)
    BY <2>1, <2>2 DEF Uses
  <2>4. QED
    BY <1>3, <1>5, <2>1, <2>2, <2>3 DEF ServeByConn
<1>6. ASSUME NEW q \in Requests, Forget(q)
      PROVE  IsolationInv'
  <2>1. request' \in [Requests -> RequestState]
    BY <1>6, RequestUpdates DEF Forget, TypeOK
  <2>2. /\ request'[q].pc = "none"
        /\ \A r \in Requests : r # q => request'[r] = request[r]
    BY <1>6 DEF Forget, NoRequest, TypeOK
  <2>3. \A e \in Devices : \A p : Uses(e, p)' <=> Uses(e, p)
    BY <1>6 DEF Forget, Uses
  <2>4. ServedByOwner'
    BY <2>2 DEF IsolationInv, ServedByOwner
  <2>5. RequestKeepsOwner'
    <3>1. SUFFICES ASSUME NEW r \in Requests, request'[r].pc # "none"
                   PROVE  /\ request'[r].pool \in Pools \ fresh
                          /\ \A e \in Devices : Uses(e, request'[r].pool) => e = request'[r].owner
                          /\ \A l \in Keys : current[l] = request'[r].pool
                                              => owner[l] = request'[r].owner
      BY <1>6, <2>3 DEF RequestKeepsOwner, Forget, registryVars
    <3>2. QED
      BY <2>2, <3>1 DEF IsolationInv, RequestKeepsOwner
  <2>6. QED
    BY <1>1, <1>6, <2>1, <2>4, <2>5 DEF Forget
<1>7. QED
  BY <1>2, <1>4, <1>5, <1>6 DEF RequestStep

LEMMA IsolationWorker ==
  ASSUME TypeOK, IsolationInv, WorkerStep
  PROVE  IsolationInv'
<1>n. None \notin Pools
  BY OwnershipAssumption
<1>d. ASSUME UNCHANGED workerFrame
      PROVE  /\ DrivesSession' /\ request' = request
             /\ \A e \in Devices, r \in Pools : Uses(e, r)' =>
                  Uses(e, r) \/ \E v \in Workers : WorkerDevice[v] = e /\ worker'[v].pool = r
  BY <1>d DEF workerFrame, sessionVars, IsolationInv, DrivesSession, Uses
<1>1. ASSUME NEW w \in Workers, WorkerRegister(w)
      PROVE  IsolationInv'
  <2>1. PICK p \in Pools : /\ RegisterOwned(WorkerKey[w], WorkerDevice[w], p)
                           /\ worker' = [worker EXCEPT ![w] = [pc |-> "owned", pool |-> p]]
    BY <1>1 DEF WorkerRegister
  <2>2. /\ worker'[w].pool = p
        /\ \A v \in Workers : v # w => worker'[v] = worker[v]
    BY <2>1 DEF TypeOK
  <2>3. \A e \in Devices, r \in Pools :
          Uses(e, r)' => Uses(e, r) \/ (e = WorkerDevice[w] /\ r = p)
    BY <1>1, <1>d, <2>2 DEF WorkerRegister, Uses
  <2>4. WorkerKey[w] \in Keys /\ WorkerDevice[w] \in Devices
    BY OwnershipAssumption
  <2>5. QED
    BY <1>1, <1>d, <2>1, <2>3, <2>4, OwnerUses DEF WorkerRegister
<1>2. ASSUME NEW w \in Workers, WorkerGuard(w) \/ WorkerRefused(w) \/ WorkerGone(w)
      PROVE  IsolationInv'
  <2>1. \A v \in Workers : worker'[v].pool = worker[v].pool \/ worker'[v].pool = None
    <3>1. worker \in [Workers -> WorkerState] /\ worker[w] \in WorkerState
      BY DEF TypeOK
    <3>2. CASE worker' = [worker EXCEPT ![w].pc = "open"]
      BY <3>1, <3>2 DEF WorkerState
    <3>3. CASE worker' = [worker EXCEPT ![w] = NoWorker]
      BY <3>1, <3>3 DEF NoWorker
    <3>4. QED
      BY <1>2, <3>2, <3>3 DEF WorkerGuard, WorkerRefused, WorkerGone
  <2>2. UNCHANGED workerFrame /\ UNCHANGED registryVars
    BY <1>2 DEF WorkerGuard, WorkerRefused, WorkerGone
  <2>3. \A e \in Devices, r \in Pools : Uses(e, r)' => Uses(e, r)
    BY <1>d, <1>n, <2>1, <2>2 DEF Uses
  <2>4. QED
    BY <1>d, <2>2, <2>3, FewerUses
<1>3. QED
  BY <1>1, <1>2 DEF WorkerStep

\* A control socket that keeps its pool and session or drops its pool, and a connection
\* that counts in fewer pools, use nothing new.
LEMMA HoldsLess ==
  ASSUME worker' = worker, routes' = routes,
         \A c \in Controls :
           control'[c].pool = None \/ (/\ control'[c].pool = control[c].pool
                                      /\ control'[c].session = control[c].session),
         \A x \in Conns : conn'[x].todo \subseteq conn[x].todo
  PROVE  \A e \in Devices, r \in Pools : Uses(e, r)' => Uses(e, r)
BY OwnershipAssumption DEF Uses

LEMMA IsolationSession ==
  ASSUME TypeOK, IsolationInv, SessionStep
  PROVE  IsolationInv'
<1>f. ASSUME UNCHANGED <<registryVars, worker, routes, request>>, DrivesSession',
             \A c \in Controls :
               control'[c].pool = None \/ (/\ control'[c].pool = control[c].pool
                                          /\ control'[c].session = control[c].session),
             \A x \in Conns : conn'[x].todo \subseteq conn[x].todo
      PROVE  IsolationInv'
  BY <1>f, HoldsLess, FewerUses
<1>s. ASSUME NEW s, Shutdown(s)
      PROVE  \A x \in Conns : conn'[x].todo \subseteq conn[x].todo
  BY <1>s DEF Shutdown, TypeOK, ConnState
<1>t. control \in [Controls -> ControlState] /\ DrivesSession
  BY DEF TypeOK, IsolationInv
<1>l. ASSUME NEW c \in Controls, control' = [control EXCEPT ![c] = NoControl]
      PROVE  /\ DrivesSession'
             /\ \A e \in Controls :
                  control'[e].pool = None \/ (/\ control'[e].pool = control[e].pool
                                             /\ control'[e].session = control[e].session)
  BY <1>t, <1>l DEF NoControl, DrivesSession
<1>1. ASSUME NEW c \in Controls, NEW s \in Sessions, Create(c, s) \/ Reattach(c, s)
      PROVE  IsolationInv'
  <2>1. PICK g : control' = [control EXCEPT ![c] =
          [NoControl EXCEPT !.pc = "greeting", !.session = s, !.gen = g]]
    BY <1>1 DEF Create, Reattach
  <2>2. /\ control'[c].pool = None /\ control'[c].session = s
        /\ \A e \in Controls : e # c => control'[e] = control[e]
    BY <1>t, <2>1 DEF NoControl
  <2>3. DrivesSession'
    BY <1>t, <2>2 DEF DrivesSession
  <2>4. QED
    BY <1>1, <1>f, <2>2, <2>3 DEF Create, Reattach, controlFrame
<1>2. ASSUME NEW c \in Controls, Greeted(c)
      PROVE  IsolationInv'
  <2>1. /\ control'[c].pool = control[c].pool /\ control'[c].session = control[c].session
        /\ \A e \in Controls : e # c => control'[e] = control[e]
    BY <1>2, <1>t DEF Greeted, ControlState
  <2>2. DrivesSession'
    BY <1>2, <1>t, <2>1 DEF Greeted, DrivesSession
  <2>3. QED
    BY <1>2, <1>f, <2>1, <2>2 DEF Greeted, controlFrame
<1>3. ASSUME NEW c \in Controls, CreateFailed(c)
      PROVE  IsolationInv'
  BY <1>3, <1>f, <1>l, <1>s DEF CreateFailed
<1>4. ASSUME NEW c \in Controls, ControlLost(c)
      PROVE  IsolationInv'
  BY <1>4, <1>f, <1>l DEF ControlLost, controlFrame
<1>5. ASSUME NEW s \in Sessions, Cleanup(s)
      PROVE  IsolationInv'
  <2>1. control' = control /\ UNCHANGED <<registryVars, worker, routes, request>>
    BY <1>5 DEF Cleanup
  <2>2. \A x \in Conns : conn'[x].todo \subseteq conn[x].todo
    BY <1>5, <1>s DEF Cleanup
  <2>3. DrivesSession'
    BY <1>t, <2>1 DEF DrivesSession
  <2>4. QED
    BY <1>f, <2>1, <2>2, <2>3
<1>6. QED
  BY <1>1, <1>2, <1>3, <1>4, <1>5 DEF SessionStep

LEMMA IsolationConn ==
  ASSUME TypeOK, IsolationInv, ConnStep
  PROVE  IsolationInv'
<1>u. UNCHANGED <<registryVars, worker, routes, control, request>>
  BY DEF ConnStep, FindSession, ConnRefused, CountConn, SnapshotForAdd, AddToPool, OpenConn,
         ConnLost, UncountConn, SnapshotForDrop, DropFromPool, ConnGone, connFrame
<1>d. DrivesSession'
  BY <1>u DEF IsolationInv, DrivesSession
<1>f. ASSUME \A x \in Conns : conn'[x].todo \subseteq conn[x].todo
      PROVE  IsolationInv'
  BY <1>d, <1>f, <1>u, HoldsLess, FewerUses
<1>t. conn \in [Conns -> ConnState]
  BY DEF TypeOK
<1>1. ASSUME NEW d \in Conns, NEW q, conn' = [conn EXCEPT ![d].pc = q]
      PROVE  IsolationInv'
  BY <1>1, <1>f, <1>t DEF ConnState
<1>2. ASSUME NEW d \in Conns, conn' = [conn EXCEPT ![d] = NoConn]
      PROVE  IsolationInv'
  BY <1>2, <1>f, <1>t DEF NoConn
<1>3. ASSUME NEW d \in Conns, NEW p, conn' = [conn EXCEPT ![d].todo = @ \ {p}]
      PROVE  IsolationInv'
  BY <1>3, <1>f, <1>t DEF ConnState
<1>4. ASSUME NEW d \in Conns, NEW q,
             conn' = [conn EXCEPT ![d] = [pc |-> q, todo |-> Snapshot(ConnSession[d])]]
      PROVE  IsolationInv'
  \* A snapshot holds pools its session's device uses through the routes.
  <2>1. /\ conn'[d].todo = Snapshot(ConnSession[d])
        /\ \A x \in Conns : x # d => conn'[x] = conn[x]
    BY <1>4, <1>t
  <2>2. ConnSession[d] \in Sessions
    BY OwnershipAssumption
  <2>3. \A e \in Devices, r \in Pools : Uses(e, r)' => Uses(e, r)
    <3>1. SUFFICES ASSUME NEW e \in Devices, NEW r \in Pools, NEW x \in Conns,
                          SessionDevice[ConnSession[x]] = e, r \in conn'[x].todo
                   PROVE  Uses(e, r)
      BY <1>u DEF Uses
    <3>2. CASE x = d
      <4>1. PICK k \in Keys : routes[ConnSession[d]][k] = r
        BY <2>1, <3>1, <3>2 DEF Snapshot
      <4>2. QED
        BY <2>2, <3>1, <3>2, <4>1 DEF Uses
    <3>3. CASE x # d
      BY <2>1, <3>1, <3>3 DEF Uses
    <3>4. QED
      BY <3>2, <3>3
  <2>4. QED
    BY <1>d, <1>u, <2>3, FewerUses
<1>5. ASSUME NEW d \in Conns,
             FindSession(d) \/ ConnRefused(d) \/ OpenConn(d) \/ ConnLost(d) \/ ConnGone(d)
      PROVE  IsolationInv'
  BY <1>1, <1>2, <1>5 DEF FindSession, ConnRefused, OpenConn, ConnLost, ConnGone
<1>6. ASSUME NEW d \in Conns, CountConn(d) \/ UncountConn(d)
      PROVE  IsolationInv'
  BY <1>1, <1>2, <1>6 DEF CountConn, UncountConn
<1>7. ASSUME NEW d \in Conns, SnapshotForAdd(d) \/ SnapshotForDrop(d)
      PROVE  IsolationInv'
  BY <1>4, <1>7 DEF SnapshotForAdd, SnapshotForDrop
<1>8. ASSUME NEW d \in Conns, AddToPool(d) \/ DropFromPool(d)
      PROVE  IsolationInv'
  BY <1>3, <1>8 DEF AddToPool, DropFromPool
<1>9. QED
  BY <1>5, <1>6, <1>7, <1>8 DEF ConnStep

LEMMA IsolationRoute ==
  ASSUME TypeOK, IsolationInv, RouteStep
  PROVE  IsolationInv'
<1>n. None \notin Pools /\ SessionDevice \in [Sessions -> Devices]
  BY OwnershipAssumption
<1>t. control \in [Controls -> ControlState] /\ DrivesSession
      /\ routes \in [Sessions -> [Keys -> Pools \cup {None}]]
  BY DEF TypeOK, IsolationInv
<1>u. UNCHANGED <<worker, conn, request>>
  BY DEF RouteStep, RegisterRoute, RemoveRoute, LoadConnections, InsertRoute, DiscountRoute,
         routeFrame
<1>s. ASSUME \A c \in Controls : /\ control'[c].session = control[c].session
                                 /\ control[c].pc = "none" => control'[c] = control[c]
      PROVE  DrivesSession'
  BY <1>s, <1>t DEF DrivesSession
<1>1. ASSUME NEW c \in Controls, NEW k \in Keys, RegisterRoute(c, k)
      PROVE  IsolationInv'
  <2>1. PICK p \in Pools :
          /\ RegisterOwned(k, SessionDevice[control[c].session], p)
          /\ control' = [control EXCEPT ![c] =
                           [@ EXCEPT !.pc = "owned", !.key = k, !.pool = p]]
    BY <1>1 DEF RegisterRoute
  <2>2. /\ control'[c].session = control[c].session /\ control'[c].pool = p
        /\ \A e \in Controls : e # c => control'[e] = control[e]
    BY <1>t, <2>1 DEF ControlState
  <2>3. control[c].pc # "none" /\ control[c].session \in Sessions
    BY <1>1, <1>t DEF RegisterRoute, DrivesSession
  <2>4. DrivesSession'
    BY <1>s, <2>2, <2>3
  <2>5. \A e \in Devices, r \in Pools :
          Uses(e, r)' => Uses(e, r) \/ (e = SessionDevice[control[c].session] /\ r = p)
    BY <1>1, <1>u, <2>2 DEF RegisterRoute, Uses
  <2>6. SessionDevice[control[c].session] \in Devices
    BY <1>n, <2>3
  <2>7. QED
    BY <1>u, <2>1, <2>4, <2>5, <2>6, OwnerUses
<1>2. ASSUME NEW c \in Controls, LoadConnections(c)
      PROVE  IsolationInv'
  <2>1. /\ control'[c].session = control[c].session /\ control'[c].pool = control[c].pool
        /\ control[c].pc # "none"
        /\ \A e \in Controls : e # c => control'[e] = control[e]
    BY <1>2, <1>t DEF LoadConnections, ControlState
  <2>2. DrivesSession'
    BY <1>s, <2>1
  <2>3. QED
    BY <1>2, <1>u, <2>1, <2>2, HoldsLess, FewerUses DEF LoadConnections
<1>3. ASSUME NEW c \in Controls, InsertRoute(c)
      PROVE  IsolationInv'
  <2>1. /\ control'[c].session = control[c].session /\ control'[c].pool = None
        /\ control[c].pc # "none"
        /\ \A e \in Controls : e # c => control'[e] = control[e]
    BY <1>3, <1>t DEF InsertRoute, ControlState
  <2>2. DrivesSession'
    BY <1>s, <2>1
  <2>3. control[c].session \in Sessions
    BY <1>t, <2>1 DEF DrivesSession
  <2>4. \A s \in Sessions, k \in Keys :
          \/ routes'[s][k] = routes[s][k]
          \/ s = control[c].session /\ routes'[s][k] = control[c].pool
    BY <1>3, <1>t DEF InsertRoute
  <2>5. \A e \in Devices, r \in Pools : Uses(e, r)' => Uses(e, r)
    BY <1>n, <1>u, <2>1, <2>3, <2>4 DEF Uses
  <2>6. QED
    BY <1>3, <1>u, <2>2, <2>5, FewerUses DEF InsertRoute
<1>4. ASSUME NEW c \in Controls, NEW k \in Keys, RemoveRoute(c, k)
      PROVE  IsolationInv'
  <2>1. /\ control'[c].session = control[c].session
        /\ control'[c].pool = routes[control[c].session][k]
        /\ control[c].pc # "none"
        /\ \A e \in Controls : e # c => control'[e] = control[e]
    BY <1>4, <1>t DEF RemoveRoute, ControlState
  <2>2. DrivesSession'
    BY <1>s, <2>1
  <2>3. control[c].session \in Sessions
    BY <1>t, <2>1 DEF DrivesSession
  <2>4. \A s \in Sessions, l \in Keys : routes'[s][l] = routes[s][l] \/ routes'[s][l] = None
    BY <1>4, <1>t DEF RemoveRoute
  <2>5. \A e \in Devices, r \in Pools : Uses(e, r)' => Uses(e, r)
    BY <1>n, <1>u, <2>1, <2>3, <2>4 DEF Uses
  <2>6. QED
    BY <1>4, <1>u, <2>2, <2>5, FewerUses DEF RemoveRoute
<1>5. ASSUME NEW c \in Controls, DiscountRoute(c)
      PROVE  IsolationInv'
  <2>1. /\ control'[c].session = control[c].session /\ control'[c].pool = None
        /\ control[c].pc # "none"
        /\ \A e \in Controls : e # c => control'[e] = control[e]
    BY <1>5, <1>t DEF DiscountRoute, ControlState
  <2>2. DrivesSession'
    BY <1>s, <2>1
  <2>3. QED
    BY <1>5, <1>u, <2>1, <2>2, HoldsLess, FewerUses DEF DiscountRoute
<1>6. QED
  BY <1>1, <1>2, <1>3, <1>4, <1>5 DEF RouteStep

-----------------------------------------------------------------------------
LEMMA IsolationInit == Init => IsolationInv
<1>1. SUFFICES ASSUME Init PROVE IsolationInv
  OBVIOUS
<1>2. \A d \in Devices, p \in Pools : ~ Uses(d, p)
  BY <1>1, OwnershipAssumption DEF Init, Uses, NoWorker, NoControl, NoConn
<1>3. PoolIsolation /\ FreshUnused
  BY <1>1, <1>2 DEF Init, PoolIsolation, FreshUnused
<1>4. PoolPerRoute /\ DrivesSession /\ RequestKeepsOwner /\ ServedByOwner
  BY <1>1 DEF Init, PoolPerRoute, DrivesSession, RequestKeepsOwner, ServedByOwner, NoControl,
              NoRequest
<1>5. QED
  BY <1>3, <1>4 DEF IsolationInv

LEMMA Stutter ==
  ASSUME TypeOK, IsolationInv, UNCHANGED vars
  PROVE  TypeOK' /\ IsolationInv'
<1>1. TypeOK'
  BY DEF TypeOK, vars, registryVars, sessionVars
<1>2. \A d \in Devices, p \in Pools : Uses(d, p)' => Uses(d, p)
  BY DEF Uses, vars
<1>3. DrivesSession'
  BY DEF IsolationInv, DrivesSession, vars
<1>4. QED
  BY <1>1, <1>2, <1>3, FewerUses DEF vars

LEMMA IsolationStep == TypeOK /\ IsolationInv /\ [Next]_vars => TypeOK' /\ IsolationInv'
<1>1. SUFFICES ASSUME TypeOK, IsolationInv, [Next]_vars
               PROVE  TypeOK' /\ IsolationInv'
  OBVIOUS
<1>2. DrivesSession
  BY <1>1 DEF IsolationInv
<1>3. CASE RequestStep
  BY <1>1, <1>3, TypeRequest, IsolationRequest
<1>4. CASE WorkerStep
  BY <1>1, <1>4, TypeWorker, IsolationWorker
<1>5. CASE SessionStep
  BY <1>1, <1>5, TypeSession, IsolationSession
<1>6. CASE RouteStep
  BY <1>1, <1>2, <1>6, TypeRoute, IsolationRoute
<1>7. CASE ConnStep
  BY <1>1, <1>7, TypeConn, IsolationConn
<1>8. CASE UNCHANGED vars
  BY <1>1, <1>8, Stutter
<1>9. QED
  BY <1>1, <1>3, <1>4, <1>5, <1>6, <1>7, <1>8 DEF Next

LEMMA IsolationHolds == Spec => [](TypeOK /\ IsolationInv)
BY TypeInit, IsolationInit, IsolationStep, PTL DEF Spec

\* For any devices, routes, sessions, sockets and requests: every variable keeps its
\* type: routes name pools, sockets the pool and session they were let into, and a request
\* the device it was addressed to (register_worker, register_control, dispatch).
THEOREM WellTyped == Spec => []TypeOK
BY IsolationHolds, PTL

\* Two devices never use one pool, a route's pool is used by its owner only, and a request
\* is served by the owner its lookup found (register_owned, lookup).
THEOREM Isolation == Spec => [](PoolIsolation /\ ServedByOwner)
<1>1. IsolationInv => PoolIsolation /\ ServedByOwner
  BY DEF IsolationInv
<1>2. QED
  BY <1>1, IsolationHolds, PTL

-----------------------------------------------------------------------------
(* One control socket per session                                          *)

\* A step under which the control sockets keep their sessions changes nothing here.
LEMMA SameDrivers ==
  ASSUME ControlInv, AttachExclusive, UNCHANGED sessionVars,
         \A c \in Controls :
           /\ control'[c].session = control[c].session /\ control'[c].gen = control[c].gen
           /\ control'[c].pc = "none" <=> control[c].pc = "none"
           /\ control[c].pc = "none" => control'[c] = control[c]
  PROVE  ControlInv' /\ AttachExclusive'
BY DEF ControlInv, AttachExclusive, sessionVars

LEMMA ControlRoute ==
  ASSUME TypeOK, ControlInv, AttachExclusive, RouteStep
  PROVE  ControlInv' /\ AttachExclusive'
<1>1. UNCHANGED sessionVars
  BY DEF RouteStep, RegisterRoute, RemoveRoute, LoadConnections, InsertRoute, DiscountRoute,
         routeFrame
<1>t. control \in [Controls -> ControlState]
  BY DEF TypeOK
<1>2. PICK c \in Controls : \/ \E k \in Keys : RegisterRoute(c, k) \/ RemoveRoute(c, k)
                            \/ LoadConnections(c) \/ InsertRoute(c) \/ DiscountRoute(c)
  BY DEF RouteStep
<1>3. /\ control'[c].session = control[c].session /\ control'[c].gen = control[c].gen
      /\ control'[c].pc # "none" /\ control[c].pc # "none"
      /\ \A e \in Controls : e # c => control'[e] = control[e]
  <2>1. CASE \E k \in Keys : RegisterRoute(c, k)
    BY <1>t, <2>1 DEF RegisterRoute, ControlState
  <2>2. CASE \E k \in Keys : RemoveRoute(c, k)
    BY <1>t, <2>2 DEF RemoveRoute, ControlState
  <2>3. CASE LoadConnections(c)
    BY <1>t, <2>3 DEF LoadConnections, ControlState
  <2>4. CASE InsertRoute(c)
    BY <1>t, <2>4 DEF InsertRoute, ControlState
  <2>5. CASE DiscountRoute(c)
    BY <1>t, <2>5 DEF DiscountRoute, ControlState
  <2>6. QED
    BY <1>2, <2>1, <2>2, <2>3, <2>4, <2>5
<1>4. QED
  BY <1>1, <1>3, SameDrivers

\* A session nobody drives: not one that was never created, nor one that is detached.
LEMMA Undriven ==
  ASSUME TypeOK, ControlInv, AttachExclusive, NEW s \in Sessions,
         s \notin registered \/ ~ attached[s]
  PROVE  \A c \in Controls : control[c].session # s
<1>1. SUFFICES ASSUME NEW c \in Controls, control[c].session = s PROVE FALSE
  OBVIOUS
<1>2. control[c].pc # "none"
  BY <1>1, OwnershipAssumption DEF ControlInv, NoControl
<1>3. QED
  BY <1>1, <1>2 DEF ControlInv, AttachExclusive

LEMMA ControlSession ==
  ASSUME TypeOK, ControlInv, AttachExclusive, SessionStep
  PROVE  ControlInv' /\ AttachExclusive'
<1>t. /\ control \in [Controls -> ControlState]
      /\ registered \subseteq Sessions
      /\ attached \in [Sessions -> BOOLEAN] /\ generation \in [Sessions -> Nat]
      /\ None \notin Sessions
  BY OwnershipAssumption DEF TypeOK
\* A control socket c takes session s, which nobody drives, with its next generation.
<1>n. ASSUME NEW c \in Controls, NEW s \in Sessions, NEW g \in Nat,
             control[c].pc = "none", \A e \in Controls : control[e].session # s,
             control' = [control EXCEPT ![c] = [NoControl EXCEPT !.pc = "greeting",
                                                  !.session = s, !.gen = g]],
             generation' = [generation EXCEPT ![s] = g],
             attached' = [attached EXCEPT ![s] = TRUE],
             registered' = registered \cup {s}, created' = created \cup {s}
      PROVE  ControlInv' /\ AttachExclusive'
  <2>1. /\ control'[c].pc = "greeting" /\ control'[c].session = s /\ control'[c].gen = g
        /\ \A e \in Controls : e # c => control'[e] = control[e]
    BY <1>n, <1>t DEF NoControl
  <2>2. /\ generation'[s] = g /\ attached'[s]
        /\ \A r \in Sessions : r # s => /\ generation'[r] = generation[r]
                                       /\ attached'[r] = attached[r]
    BY <1>n, <1>t
  <2>3. control[c].session = None
    BY <1>n DEF ControlInv, NoControl
  <2>4. ControlInv'
    BY <1>n, <1>t, <2>1, <2>2 DEF ControlInv
  <2>5. AttachExclusive'
    <3>1. \A e, f \in Controls :
            control'[e].session = control'[f].session /\ control'[e].pc # "none" => e = f
      BY <1>n, <2>1 DEF AttachExclusive
    <3>2. \A r \in registered' : attached'[r] <=> \E e \in Controls : control'[e].session = r
      BY <1>n, <1>t, <2>1, <2>2, <2>3 DEF AttachExclusive
    <3>3. QED
      BY <3>1, <3>2 DEF AttachExclusive
  <2>6. QED
    BY <2>4, <2>5
\* A control socket c lets go of its session, which is removed or detached.
<1>l. ASSUME NEW c \in Controls, control[c].pc # "none",
             control' = [control EXCEPT ![c] = NoControl],
             UNCHANGED <<generation, created>>,
             \/ registered' = registered \ {control[c].session} /\ attached' = attached
             \/ registered' = registered
                /\ attached' = [attached EXCEPT ![control[c].session] = FALSE]
      PROVE  ControlInv' /\ AttachExclusive'
  <2>1. /\ control'[c] = NoControl /\ control'[c].session = None /\ control'[c].pc = "none"
        /\ \A e \in Controls : e # c => control'[e] = control[e]
    BY <1>l, <1>t DEF NoControl
  <2>2. control[c].session \in registered
    BY <1>l DEF ControlInv
  <2>3. \A e \in Controls : e # c => control[e].session # control[c].session
    BY <1>l DEF AttachExclusive
  <2>4. ControlInv'
    BY <1>l, <2>1, <2>3 DEF ControlInv
  <2>5. \A r \in registered' : attached'[r] <=> \E e \in Controls : control'[e].session = r
    <3>1. SUFFICES ASSUME NEW r \in registered'
                   PROVE  attached'[r] <=> \E e \in Controls : control'[e].session = r
      OBVIOUS
    <3>2. r \in registered /\ r \in Sessions
      BY <1>l, <1>t
    <3>3. CASE r = control[c].session
      <4>1. attached' = [attached EXCEPT ![control[c].session] = FALSE]
        BY <1>l, <3>1, <3>3
      <4>2. ~ attached'[r]
        BY <1>t, <3>2, <3>3, <4>1
      <4>3. QED
        BY <1>t, <2>1, <2>3, <3>2, <3>3, <4>2
    <3>4. CASE r # control[c].session
      <4>1. attached'[r] = attached[r]
        BY <1>l, <1>t, <3>4
      <4>2. (\E e \in Controls : control'[e].session = r)
              <=> (\E e \in Controls : control[e].session = r)
        BY <1>t, <2>1, <3>2, <3>4
      <4>3. QED
        BY <3>2, <4>1, <4>2 DEF AttachExclusive
    <3>5. QED
      BY <3>3, <3>4
  <2>6. AttachExclusive'
    <3>1. \A e \in Controls : control'[e].pc # "none" =>
            e # c /\ control'[e] = control[e] /\ control[e].session # None
      BY <1>t, <2>1 DEF ControlInv
    <3>2. \A e, f \in Controls :
            control'[e].session = control'[f].session /\ control'[e].pc # "none" => e = f
      BY <2>1, <3>1 DEF AttachExclusive
    <3>3. QED
      BY <2>5, <3>2 DEF AttachExclusive
  <2>7. QED
    BY <2>4, <2>6
<1>1. ASSUME NEW c \in Controls, NEW s \in Sessions, Create(c, s)
      PROVE  ControlInv' /\ AttachExclusive'
  <2>1. s \notin registered
    BY <1>1 DEF Create, ControlInv
  <2>2. QED
    BY <1>1, <1>n, <2>1, Undriven DEF Create
<1>2. ASSUME NEW c \in Controls, NEW s \in Sessions, Reattach(c, s)
      PROVE  ControlInv' /\ AttachExclusive'
  <2>1. generation[s] + 1 \in Nat
    BY <1>t
  <2>2. registered' = registered \cup {s} /\ created' = created \cup {s}
    BY <1>2 DEF Reattach, ControlInv
  <2>3. QED
    BY <1>2, <1>n, <2>1, <2>2, Undriven DEF Reattach
<1>3. ASSUME NEW c \in Controls, Greeted(c)
      PROVE  ControlInv' /\ AttachExclusive'
  <2>1. /\ control'[c].session = control[c].session /\ control'[c].gen = control[c].gen
        /\ control'[c].pc = "loop" /\ control[c].pc = "greeting"
        /\ \A e \in Controls : e # c => control'[e] = control[e]
    BY <1>3, <1>t DEF Greeted, ControlState
  <2>2. QED
    BY <1>3, <2>1, SameDrivers DEF Greeted
<1>4. ASSUME NEW c \in Controls, CreateFailed(c)
      PROVE  ControlInv' /\ AttachExclusive'
  BY <1>4, <1>l DEF CreateFailed
<1>5. ASSUME NEW c \in Controls, ControlLost(c)
      PROVE  ControlInv' /\ AttachExclusive'
  <2>1. control[c].pc # "none" /\ generation[control[c].session] = control[c].gen
        /\ attached[control[c].session]
    BY <1>5 DEF ControlLost, ControlInv, AttachExclusive
  <2>2. QED
    BY <1>5, <1>l, <2>1 DEF ControlLost
<1>6. ASSUME NEW s \in Sessions, Cleanup(s)
      PROVE  ControlInv' /\ AttachExclusive'
  <2>1. UNCHANGED <<created, attached, generation, control>>
    BY <1>6 DEF Cleanup
  <2>2. CASE registered' = registered
    BY <2>1, <2>2 DEF ControlInv, AttachExclusive
  <2>3. CASE registered' # registered
    <3>1. ~ attached[s] /\ registered' = registered \ {s}
      BY <1>6, <2>3 DEF Cleanup
    <3>2. \A c \in Controls : control[c].session # s
      BY <3>1, Undriven
    <3>3. QED
      BY <2>1, <3>1, <3>2 DEF ControlInv, AttachExclusive
  <2>4. QED
    BY <2>2, <2>3
<1>7. QED
  BY <1>1, <1>2, <1>3, <1>4, <1>5, <1>6 DEF SessionStep

LEMMA ControlStep ==
  ASSUME TypeOK, ControlInv, AttachExclusive, [Next]_vars
  PROVE  ControlInv' /\ AttachExclusive'
<1>1. ASSUME UNCHANGED <<sessionVars, control>>
      PROVE  ControlInv' /\ AttachExclusive'
  BY <1>1, SameDrivers
<1>2. CASE RequestStep
  BY <1>1, <1>2 DEF RequestStep, Lookup, ServeByWorker, ServeByConn, Serve, Forget
<1>3. CASE WorkerStep
  BY <1>1, <1>3 DEF WorkerStep, WorkerRegister, WorkerGuard, WorkerRefused, WorkerGone,
                    workerFrame
<1>4. CASE ConnStep
  BY <1>1, <1>4 DEF ConnStep, FindSession, ConnRefused, CountConn, SnapshotForAdd, AddToPool,
         OpenConn, ConnLost, UncountConn, SnapshotForDrop, DropFromPool, ConnGone, connFrame
<1>5. CASE UNCHANGED vars
  BY <1>1, <1>5 DEF vars
<1>6. QED
  BY <1>2, <1>3, <1>4, <1>5, ControlSession, ControlRoute DEF Next

-----------------------------------------------------------------------------
(* The data sockets of a session are counted                               *)

\* Adding a new element to, or removing one from, a finite set counts one more or less.
LEMMA CountOneMore ==
  ASSUME NEW S, IsFiniteSet(S), NEW x, x \notin S
  PROVE  /\ Cardinality(S) \in Nat
         /\ Cardinality(S \cup {x}) = Cardinality(S) + 1
BY FS_AddElement, FS_CardinalityType

LEMMA CountOneLess ==
  ASSUME NEW S, IsFiniteSet(S), NEW x, x \in S
  PROVE  /\ Cardinality(S) \in Nat \ {0}
         /\ Cardinality(S \ {x}) = Cardinality(S) - 1
<1>1. Cardinality(S) \in Nat
  BY FS_CardinalityType
<1>2. Cardinality(S) # 0
  BY FS_EmptySet
<1>3. QED
  BY <1>1, <1>2, FS_RemoveElement

LEMMA AttachedFinite ==
  ASSUME NEW s
  PROVE  IsFiniteSet(Attached(s)) /\ Cardinality(Attached(s)) \in Nat
<1>1. Attached(s) \subseteq Conns
  BY DEF Attached
<1>2. QED
  BY <1>1, FiniteSockets, FS_Subset, FS_CardinalityType

Between == {"counted", "adding", "open", "leaving"}

\* A step under which every data socket stays on its side of the count changes nothing.
LEMMA SameAttached ==
  ASSUME DataConnectionsCounted, active_data' = active_data,
         \A d \in Conns : conn'[d].pc \in Between <=> conn[d].pc \in Between
  PROVE  DataConnectionsCounted'
<1>1. \A s : Attached(s)' = Attached(s)
  BY DEF Attached, Between
<1>2. QED
  BY <1>1 DEF DataConnectionsCounted

LEMMA CountedConn ==
  ASSUME TypeOK, DataConnectionsCounted, ConnStep
  PROVE  DataConnectionsCounted'
<1>t. conn \in [Conns -> ConnState] /\ active_data \in [Sessions -> Int]
  BY DEF TypeOK
<1>a. MaxConnections \in Nat /\ ConnSession \in [Conns -> Sessions]
  BY OwnershipAssumption
<1>1. ASSUME NEW d \in Conns, active_data' = active_data, NEW c,
             conn' = [conn EXCEPT ![d] = c], c.pc \in Between <=> conn[d].pc \in Between
      PROVE  DataConnectionsCounted'
  <2>1. conn'[d] = c /\ \A e \in Conns : e # d => conn'[e] = conn[e]
    BY <1>1, <1>t
  <2>2. QED
    BY <1>1, <2>1, SameAttached
<1>2. ASSUME NEW d \in Conns,
             \/ FindSession(d) \/ ConnRefused(d) \/ SnapshotForAdd(d) \/ AddToPool(d)
             \/ OpenConn(d) \/ ConnLost(d) \/ SnapshotForDrop(d) \/ DropFromPool(d) \/ ConnGone(d)
      PROVE  DataConnectionsCounted'
  <2>t. conn[d] \in ConnState
    BY <1>t
  <2>1. CASE FindSession(d)
    BY <1>1, <2>1, <2>t DEF FindSession, ConnState, Between
  <2>2. CASE ConnRefused(d)
    BY <1>1, <2>2, <2>t DEF ConnRefused, ConnState, Between, NoConn
  <2>3. CASE SnapshotForAdd(d)
    BY <1>1, <2>3, <2>t DEF SnapshotForAdd, ConnState, Between
  <2>4. CASE AddToPool(d)
    BY <1>1, <2>4, <2>t DEF AddToPool, ConnState, Between
  <2>5. CASE OpenConn(d)
    BY <1>1, <2>5, <2>t DEF OpenConn, ConnState, Between
  <2>6. CASE ConnLost(d)
    BY <1>1, <2>6, <2>t DEF ConnLost, ConnState, Between
  <2>7. CASE SnapshotForDrop(d)
    BY <1>1, <2>7, <2>t DEF SnapshotForDrop, ConnState, Between
  <2>8. CASE DropFromPool(d)
    BY <1>1, <2>8, <2>t DEF DropFromPool, ConnState, Between
  <2>9. CASE ConnGone(d)
    BY <1>1, <2>9, <2>t DEF ConnGone, ConnState, Between, NoConn
  <2>10. QED
    BY <1>2, <2>1, <2>2, <2>3, <2>4, <2>5, <2>6, <2>7, <2>8, <2>9
<1>3. ASSUME NEW d \in Conns, CountConn(d)
      PROVE  DataConnectionsCounted'
  <2>1. CASE active_data[ConnSession[d]] < MaxConnections
    <3>1. /\ conn[d].pc = "found" /\ conn'[d].pc = "counted"
          /\ \A e \in Conns : e # d => conn'[e] = conn[e]
          /\ active_data' = [active_data EXCEPT ![ConnSession[d]] = @ + 1]
      BY <1>3, <1>t, <2>1 DEF CountConn, ConnState
    <3>2. /\ d \notin Attached(ConnSession[d])
          /\ Attached(ConnSession[d])' = Attached(ConnSession[d]) \cup {d}
          /\ \A s \in Sessions : s # ConnSession[d] => Attached(s)' = Attached(s)
      BY <3>1 DEF Attached
    <3>3. Cardinality(Attached(ConnSession[d]))' = Cardinality(Attached(ConnSession[d])) + 1
      BY <3>2, AttachedFinite, CountOneMore
    <3>4. SUFFICES ASSUME NEW s \in Sessions
                   PROVE  /\ active_data'[s] = Cardinality(Attached(s))'
                          /\ active_data'[s] <= MaxConnections
      BY DEF DataConnectionsCounted
    <3>5. CASE s = ConnSession[d]
      BY <1>a, <1>t, <2>1, <3>1, <3>3, <3>5 DEF DataConnectionsCounted
    <3>6. CASE s # ConnSession[d]
      BY <1>t, <3>1, <3>2, <3>6 DEF DataConnectionsCounted
    <3>7. QED
      BY <3>5, <3>6
  <2>2. CASE ~ (active_data[ConnSession[d]] < MaxConnections)
    BY <1>1, <1>3, <2>2 DEF CountConn, NoConn, Between
  <2>3. QED
    BY <2>1, <2>2
<1>4. ASSUME NEW d \in Conns, UncountConn(d)
      PROVE  DataConnectionsCounted'
  <2>1. /\ conn[d].pc = "leaving" /\ conn'[d].pc = "left"
        /\ \A e \in Conns : e # d => conn'[e] = conn[e]
        /\ active_data' = [active_data EXCEPT ![ConnSession[d]] = @ - 1]
    BY <1>4, <1>t DEF UncountConn, ConnState
  <2>2. /\ d \in Attached(ConnSession[d])
        /\ Attached(ConnSession[d])' = Attached(ConnSession[d]) \ {d}
        /\ \A s \in Sessions : s # ConnSession[d] => Attached(s)' = Attached(s)
    BY <2>1 DEF Attached
  <2>3. Cardinality(Attached(ConnSession[d]))' = Cardinality(Attached(ConnSession[d])) - 1
    BY <2>2, AttachedFinite, CountOneLess
  <2>4. SUFFICES ASSUME NEW s \in Sessions
                 PROVE  /\ active_data'[s] = Cardinality(Attached(s))'
                        /\ active_data'[s] <= MaxConnections
    BY DEF DataConnectionsCounted
  <2>5. CASE s = ConnSession[d]
    BY <1>a, <1>t, <2>1, <2>3, <2>5 DEF DataConnectionsCounted
  <2>6. CASE s # ConnSession[d]
    BY <1>t, <2>1, <2>2, <2>6 DEF DataConnectionsCounted
  <2>7. QED
    BY <2>5, <2>6
<1>5. QED
  BY <1>2, <1>3, <1>4 DEF ConnStep

LEMMA CountedSession ==
  ASSUME TypeOK, DataConnectionsCounted, SessionStep
  PROVE  DataConnectionsCounted'
<1>1. active_data' = active_data
  BY DEF SessionStep, Create, Reattach, Greeted, CreateFailed, ControlLost, Cleanup, controlFrame
\* A socket that is shut down is counted until it has left.
<1>2. ASSUME NEW s, Shutdown(s)
      PROVE  \A d \in Conns : conn'[d].pc \in Between <=> conn[d].pc \in Between
  <2>1. SUFFICES ASSUME NEW d \in Conns
                 PROVE  conn'[d].pc \in Between <=> conn[d].pc \in Between
    OBVIOUS
  <2>2. conn[d] \in ConnState
    BY DEF TypeOK
  <2>3. \/ conn[d].pc = "open" /\ conn'[d] = [conn[d] EXCEPT !.pc = "leaving"]
        \/ conn'[d] = conn[d]
    BY <1>2 DEF Shutdown
  <2>4. QED
    BY <2>2, <2>3 DEF ConnState, Between
<1>3. conn' = conn \/ \E s : Shutdown(s)
  BY DEF SessionStep, Create, Reattach, Greeted, CreateFailed, ControlLost, Cleanup, controlFrame
<1>4. QED
  BY <1>1, <1>2, <1>3, SameAttached

LEMMA CountedStep ==
  ASSUME TypeOK, DataConnectionsCounted, [Next]_vars
  PROVE  DataConnectionsCounted'
<1>1. ASSUME UNCHANGED <<active_data, conn>>
      PROVE  DataConnectionsCounted'
  BY <1>1, SameAttached
<1>2. CASE RequestStep
  BY <1>1, <1>2 DEF RequestStep, Lookup, ServeByWorker, ServeByConn, Serve, Forget
<1>3. CASE WorkerStep
  BY <1>1, <1>3 DEF WorkerStep, WorkerRegister, WorkerGuard, WorkerRefused, WorkerGone,
                    workerFrame
<1>4. CASE RouteStep
  BY <1>1, <1>4 DEF RouteStep, RegisterRoute, RemoveRoute, LoadConnections, InsertRoute,
                    DiscountRoute, routeFrame
<1>5. CASE UNCHANGED vars
  BY <1>1, <1>5 DEF vars
<1>6. QED
  BY <1>2, <1>3, <1>4, <1>5, CountedConn, CountedSession DEF Next

-----------------------------------------------------------------------------
LEMMA SessionInit == Init => ControlInv /\ AttachExclusive /\ DataConnectionsCounted
<1>1. SUFFICES ASSUME Init PROVE ControlInv /\ AttachExclusive /\ DataConnectionsCounted
  OBVIOUS
<1>2. ControlInv /\ AttachExclusive
  BY <1>1 DEF Init, ControlInv, AttachExclusive, NoControl
<1>3. \A s \in Sessions : Attached(s) = {}
  BY <1>1 DEF Init, Attached, NoConn
<1>4. MaxConnections \in Nat
  BY OwnershipAssumption
<1>5. DataConnectionsCounted
  <2>1. \A s \in Sessions : active_data[s] = 0 /\ Cardinality(Attached(s)) = 0
    BY <1>1, <1>3, FS_EmptySet DEF Init
  <2>2. QED
    BY <1>4, <2>1 DEF DataConnectionsCounted
<1>6. QED
  BY <1>2, <1>5

LEMMA SessionHolds == Spec => [](ControlInv /\ SessionAccounted)
<1>1. Init => ControlInv /\ SessionAccounted
  BY SessionInit DEF SessionAccounted
<1>2. TypeOK /\ ControlInv /\ SessionAccounted /\ [Next]_vars => ControlInv' /\ SessionAccounted'
  BY ControlStep, CountedStep DEF SessionAccounted
<1>3. QED
  BY <1>1, <1>2, IsolationHolds, PTL DEF Spec

\* For any sessions and sockets: one control socket at a time drives a registered session,
\* and the session counts exactly its data sockets, up to the limit (attach_control,
\* detach_control, attach_data_connection, detach_data_connection).
THEOREM SessionsAccounted == Spec => []SessionAccounted
BY SessionHolds, PTL

\* A detached session is removed only by the cleanup task of its latest detachment: the
\* one other removal, of a session that could not be greeted, finds it attached
\* (remove_if_detached).
THEOREM GraceKept == Spec => GracePerDetachment
<1> DEFINE Grace == \A s \in Sessions :
                      s \in registered /\ s \notin registered' /\ ~ attached[s]
                        => generation[s] \in timers[s] \ timers'[s]
<1>1. TypeOK /\ ControlInv /\ SessionAccounted /\ [Next]_vars => Grace
  <2>1. SUFFICES ASSUME TypeOK, ControlInv, AttachExclusive, [Next]_vars, NEW s \in Sessions,
                        s \in registered, s \notin registered', ~ attached[s]
                 PROVE  generation[s] \in timers[s] \ timers'[s]
    BY DEF SessionAccounted
  <2>2. SessionStep
    BY <2>1 DEF Next, vars, sessionVars, RequestStep, Lookup, ServeByWorker, ServeByConn, Serve,
         Forget, WorkerStep, WorkerRegister, WorkerGuard, WorkerRefused, WorkerGone, workerFrame,
         RouteStep, RegisterRoute, RemoveRoute, LoadConnections, InsertRoute, DiscountRoute,
         routeFrame, ConnStep, FindSession, ConnRefused, CountConn, SnapshotForAdd, AddToPool,
         OpenConn, ConnLost, UncountConn, SnapshotForDrop, DropFromPool, ConnGone, connFrame
  <2>3. ASSUME NEW c \in Controls, CreateFailed(c)
        PROVE  FALSE
    <3>1. control[c].pc # "none" /\ registered' = registered \ {control[c].session}
      BY <2>3 DEF CreateFailed
    <3>2. control[c].session = s
      BY <2>1, <3>1
    <3>3. QED
      BY <2>1, <3>2 DEF AttachExclusive
  <2>4. PICK r \in Sessions : Cleanup(r)
    BY <2>1, <2>2, <2>3 DEF SessionStep, Create, Reattach, Greeted, ControlLost,
         sessionVars
  <2>5. QED
    BY <2>1, <2>4 DEF Cleanup, TypeOK
<1>2. QED
  BY <1>1, IsolationHolds, SessionHolds, PTL DEF Spec, GracePerDetachment


-----------------------------------------------------------------------------
(* Devices that connect workers only                                       *)

CountsInv == PoolsInv /\ WorkersCounted

LEMMA OpenFinite ==
  ASSUME NEW p
  PROVE  /\ IsFiniteSet(OpenWorkers(p)) /\ Cardinality(OpenWorkers(p)) \in Nat
         /\ Cardinality(OpenWorkers(p)) < Word
<1>1. OpenWorkers(p) \subseteq Workers
  BY DEF OpenWorkers
<1>2. /\ IsFiniteSet(OpenWorkers(p)) /\ Cardinality(OpenWorkers(p)) <= Cardinality(Workers)
      /\ Cardinality(OpenWorkers(p)) \in Nat /\ Cardinality(Workers) \in Nat
  BY <1>1, FiniteSockets, FS_Subset, FS_CardinalityType
<1>3. QED
  BY <1>2, FiniteSockets, OwnershipAssumption

\* In its range a counter that wraps counts like any other.
LEMMA NoWrap ==
  ASSUME NEW n \in 0 .. Word - 1
  PROVE  n % Word = n
BY OwnershipAssumption

\* A session counts in pools its device uses, which no device with workers only owns and
\* which are not new.
LEMMA OtherCounts ==
  ASSUME TypeOK, IsolationInv, CountsInv, UNCHANGED <<registryVars, worker>>,
         \A p \in Pools : \/ active_workers'[p] = active_workers[p]
                          \/ \E d \in Devices : ~ WorkerOnly(d) /\ Uses(d, p)
  PROVE  CountsInv'
<1>1. PoolsInv'
  <2>1. \A p \in fresh : active_workers'[p] = active_workers[p]
    BY DEF TypeOK, IsolationInv, FreshUnused
  <2>2. QED
    BY <2>1 DEF CountsInv, PoolsInv, registryVars
<1>2. WorkersCounted'
  <2>1. SUFFICES ASSUME NEW k \in Keys, owner[k] # None, WorkerOnly(owner[k])
                 PROVE  active_workers'[current[k]] = Cardinality(OpenWorkers(current[k]))'
    BY DEF WorkersCounted, registryVars, WorkerOnly
  <2>2. current[k] \in Pools
    BY <2>1 DEF IsolationInv, PoolPerRoute
  <2>3. active_workers'[current[k]] = active_workers[current[k]]
    BY <2>1, <2>2 DEF IsolationInv, PoolIsolation
  <2>4. OpenWorkers(current[k])' = OpenWorkers(current[k])
    BY DEF OpenWorkers, registryVars
  <2>5. QED
    BY <2>1, <2>3, <2>4 DEF CountsInv, WorkersCounted
<1>3. QED
  BY <1>1, <1>2 DEF CountsInv

\* A registration opens no worker; a new pool has none and counts none.
LEMMA RegisterCounts ==
  ASSUME TypeOK, IsolationInv, CountsInv, active_workers' = active_workers,
         NEW k \in Keys, NEW d \in Devices, NEW p \in Pools, RegisterOwned(k, d, p),
         \A w \in Workers : /\ worker'[w].pc # "none" => worker'[w].pool \in Pools
                            /\ \/ worker'[w] = worker[w]
                               \/ worker'[w].pc # "open" /\ worker[w].pc # "open"
  PROVE  CountsInv'
<1>1. fresh' \subseteq fresh
  BY DEF RegisterOwned, registryVars
<1>2. PoolsInv'
  BY <1>1 DEF CountsInv, PoolsInv
<1>3. \A r : OpenWorkers(r)' = OpenWorkers(r)
  BY DEF OpenWorkers
<1>4. WorkersCounted'
  <2>1. SUFFICES ASSUME NEW l \in Keys, owner'[l] # None, WorkerOnly(owner'[l])
                 PROVE  active_workers[current'[l]] = Cardinality(OpenWorkers(current'[l]))
    BY <1>3 DEF WorkersCounted, WorkerOnly
  <2>2. CASE owner'[l] = owner[l] /\ current'[l] = current[l]
    BY <2>1, <2>2 DEF CountsInv, WorkersCounted
  <2>3. CASE ~ (owner'[l] = owner[l] /\ current'[l] = current[l])
    <3>1. current'[l] = p /\ p \in fresh
      BY <2>3 DEF RegisterOwned, registryVars, TypeOK
    <3>2. OpenWorkers(p) = {}
      BY <3>1, OwnershipAssumption DEF OpenWorkers, IsolationInv, FreshUnused, Uses
    <3>3. active_workers[p] = 0
      BY <3>1 DEF CountsInv, PoolsInv
    <3>4. Cardinality({}) = 0
      BY FS_EmptySet
    <3>5. QED
      BY <3>1, <3>2, <3>3, <3>4
  <2>4. QED
    BY <2>2, <2>3
<1>5. QED
  BY <1>2, <1>4 DEF CountsInv

LEMMA CountsWorker ==
  ASSUME TypeOK, IsolationInv, CountsInv, WorkerStep
  PROVE  CountsInv'
<1>t. /\ worker \in [Workers -> WorkerState]
      /\ active_workers \in [Pools -> CounterState]
      /\ None \notin Pools /\ Word \in Nat \ {0}
      /\ WorkerDevice \in [Workers -> Devices] /\ WorkerKey \in [Workers -> Keys]
  BY OwnershipAssumption DEF TypeOK
<1>1. ASSUME NEW w \in Workers, WorkerRegister(w)
      PROVE  CountsInv'
  <2>1. PICK p \in Pools : /\ RegisterOwned(WorkerKey[w], WorkerDevice[w], p)
                           /\ worker' = [worker EXCEPT ![w] = [pc |-> "owned", pool |-> p]]
    BY <1>1 DEF WorkerRegister
  <2>2. \A v \in Workers : /\ worker'[v].pc # "none" => worker'[v].pool \in Pools
                           /\ \/ worker'[v] = worker[v]
                              \/ worker'[v].pc # "open" /\ worker[v].pc # "open"
    BY <1>1, <1>t, <2>1 DEF WorkerRegister, CountsInv, PoolsInv
  <2>3. WorkerKey[w] \in Keys /\ WorkerDevice[w] \in Devices /\ active_workers' = active_workers
    BY <1>1, <1>t DEF WorkerRegister
  <2>4. QED
    BY <2>1, <2>2, <2>3, RegisterCounts
<1>2. ASSUME NEW w \in Workers, WorkerRefused(w)
      PROVE  CountsInv'
  <2>1. /\ \A v \in Workers : v # w => worker'[v] = worker[v]
        /\ worker'[w].pc = "none" /\ worker[w].pc = "owned"
        /\ UNCHANGED registryVars /\ active_workers' = active_workers
    BY <1>2, <1>t DEF WorkerRefused, NoWorker
  <2>2. PoolsInv'
    BY <2>1 DEF CountsInv, PoolsInv, registryVars
  <2>3. \A p : OpenWorkers(p)' = OpenWorkers(p)
    BY <2>1 DEF OpenWorkers
  <2>4. QED
    BY <2>1, <2>2, <2>3 DEF CountsInv, WorkersCounted, registryVars, WorkerOnly
\* An open worker is counted in its pool only, and by one.
<1>3. ASSUME NEW w \in Workers, NEW p \in Pools, NEW n \in {-1, 1},
             UNCHANGED registryVars, worker[w].pool = p, worker[w].pc # "none",
             \A v \in Workers : v # w => worker'[v] = worker[v],
             worker'[w].pc = "none" \/ worker'[w].pool = p,
             active_workers' = [active_workers EXCEPT ![p] = (@ + n) % Word],
             Cardinality(OpenWorkers(p))' = Cardinality(OpenWorkers(p)) + n,
             \A r \in Pools : r # p => OpenWorkers(r)' = OpenWorkers(r)
      PROVE  CountsInv'
  <2>1. p \notin fresh
    BY <1>3, <1>t DEF IsolationInv, FreshUnused, Uses
  <2>2. \A r \in Pools : r # p => active_workers'[r] = active_workers[r]
    BY <1>3, <1>t
  <2>3. PoolsInv'
    BY <1>3, <1>t, <2>1, <2>2 DEF CountsInv, PoolsInv, registryVars, TypeOK
  <2>4. ASSUME active_workers[p] = Cardinality(OpenWorkers(p))
        PROVE  active_workers'[p] = Cardinality(OpenWorkers(p))'
    <3>1. /\ Cardinality(OpenWorkers(p)) \in Nat
          /\ Cardinality(OpenWorkers(p))' \in Nat
          /\ Cardinality(OpenWorkers(p))' < Word
      <4>1. OpenWorkers(p)' \subseteq Workers
        BY DEF OpenWorkers
      <4>2. /\ Cardinality(OpenWorkers(p)') <= Cardinality(Workers)
            /\ Cardinality(OpenWorkers(p)') \in Nat /\ Cardinality(Workers) \in Nat
        BY <4>1, FiniteSockets, FS_Subset, FS_CardinalityType
      <4>3. QED
        BY <1>t, <4>2, FiniteSockets, OpenFinite
    <3>2. Cardinality(OpenWorkers(p))' \in 0 .. Word - 1
      BY <1>t, <3>1
    <3>3. active_workers'[p] = (active_workers[p] + n) % Word
      BY <1>3, <1>t
    <3>4. active_workers[p] + n = Cardinality(OpenWorkers(p))'
      BY <1>3, <2>4
    <3>5. QED
      BY <3>2, <3>3, <3>4, NoWrap
  <2>5. WorkersCounted'
    <3>1. SUFFICES ASSUME NEW k \in Keys, owner[k] # None, WorkerOnly(owner[k])
                   PROVE  active_workers'[current[k]] = Cardinality(OpenWorkers(current[k]))'
      BY <1>3 DEF WorkersCounted, registryVars, WorkerOnly
    <3>2. /\ current[k] \in Pools /\ current'[k] = current[k]
          /\ active_workers[current[k]] = Cardinality(OpenWorkers(current[k]))
      BY <1>3, <3>1 DEF IsolationInv, PoolPerRoute, CountsInv, WorkersCounted, registryVars
    <3>3. CASE current[k] = p
      BY <2>4, <3>2, <3>3
    <3>4. CASE current[k] # p
      <4>1. OpenWorkers(current[k])' = OpenWorkers(current[k])
        BY <1>3, <3>2, <3>4 DEF OpenWorkers
      <4>2. QED
        BY <2>2, <3>2, <3>4, <4>1
    <3>5. QED
      BY <3>3, <3>4
  <2>6. QED
    BY <2>3, <2>5 DEF CountsInv
<1>4. ASSUME NEW w \in Workers, WorkerGuard(w)
      PROVE  CountsInv'
  <2>0. PICK p \in Pools : worker[w].pool = p
    BY <1>4 DEF WorkerGuard, CountsInv, PoolsInv
  <2>1. /\ worker[w].pc = "owned" /\ worker'[w].pc = "open" /\ worker'[w].pool = p
        /\ \A v \in Workers : v # w => worker'[v] = worker[v]
    BY <1>4, <1>t, <2>0 DEF WorkerGuard, WorkerState
  <2>3. /\ w \notin OpenWorkers(p) /\ OpenWorkers(p)' = OpenWorkers(p) \cup {w}
        /\ \A r : r # p => OpenWorkers(r)' = OpenWorkers(r)
    BY <2>0, <2>1 DEF OpenWorkers
  <2>4. Cardinality(OpenWorkers(p))' = Cardinality(OpenWorkers(p)) + 1
    BY <2>3, OpenFinite, CountOneMore
  <2>5. UNCHANGED registryVars /\ active_workers' = [active_workers EXCEPT ![p] = (@ + 1) % Word]
    BY <1>4, <2>0 DEF WorkerGuard, Add
  <2>6. QED
    BY <1>3, <2>0, <2>1, <2>3, <2>4, <2>5
<1>5. ASSUME NEW w \in Workers, WorkerGone(w)
      PROVE  CountsInv'
  <2>0. PICK p \in Pools : worker[w].pool = p
    BY <1>5 DEF WorkerGone, CountsInv, PoolsInv
  <2>1. /\ worker[w].pc = "open" /\ worker'[w].pc = "none"
        /\ \A v \in Workers : v # w => worker'[v] = worker[v]
    BY <1>5, <1>t DEF WorkerGone, NoWorker
  <2>3. /\ w \in OpenWorkers(p) /\ OpenWorkers(p)' = OpenWorkers(p) \ {w}
        /\ \A r : r # p => OpenWorkers(r)' = OpenWorkers(r)
    BY <2>0, <2>1 DEF OpenWorkers
  <2>4. Cardinality(OpenWorkers(p))' = Cardinality(OpenWorkers(p)) + (-1)
    BY <2>3, OpenFinite, CountOneLess
  <2>5. UNCHANGED registryVars
        /\ active_workers' = [active_workers EXCEPT ![p] = (@ + (-1)) % Word]
    <3>1. active_workers[p] \in Int
      BY <1>t DEF CounterState
    <3>2. active_workers[p] - 1 = active_workers[p] + (-1)
      BY <3>1
    <3>3. QED
      BY <1>5, <2>0, <3>2 DEF WorkerGone, Sub
  <2>6. QED
    BY <1>3, <2>0, <2>1, <2>3, <2>4, <2>5
<1>6. QED
  BY <1>1, <1>2, <1>4, <1>5 DEF WorkerStep

LEMMA CountsConn ==
  ASSUME TypeOK, IsolationInv, CountsInv, ConnStep
  PROVE  CountsInv'
<1>1. UNCHANGED <<registryVars, worker>>
  BY DEF ConnStep, FindSession, ConnRefused, CountConn, SnapshotForAdd, AddToPool, OpenConn,
         ConnLost, UncountConn, SnapshotForDrop, DropFromPool, ConnGone, connFrame
<1>2. ASSUME NEW d \in Conns, NEW p \in conn[d].todo, Add(p, 1) \/ Sub(p, 1)
      PROVE  CountsInv'
  <2>1. \A r \in Pools : r # p => active_workers'[r] = active_workers[r]
    BY <1>2 DEF Add, Sub, TypeOK
  <2>2. /\ SessionDevice[ConnSession[d]] \in Devices
        /\ ~ WorkerOnly(SessionDevice[ConnSession[d]])
        /\ Uses(SessionDevice[ConnSession[d]], p)
    BY <1>2, OwnershipAssumption DEF WorkerOnly, Uses
  <2>3. QED
    BY <1>1, <2>1, <2>2, OtherCounts
<1>3. active_workers' = active_workers
        \/ \E d \in Conns : \E p \in conn[d].todo : Add(p, 1) \/ Sub(p, 1)
  BY DEF ConnStep, FindSession, ConnRefused, CountConn, SnapshotForAdd, AddToPool, OpenConn,
         ConnLost, UncountConn, SnapshotForDrop, DropFromPool, ConnGone, connFrame
<1>4. QED
  BY <1>1, <1>2, <1>3, OtherCounts

LEMMA CountsRoute ==
  ASSUME TypeOK, IsolationInv, CountsInv, RouteStep
  PROVE  CountsInv'
<1>1. ASSUME NEW c \in Controls, NEW k \in Keys, RegisterRoute(c, k)
      PROVE  CountsInv'
  <2>1. control[c].session \in Sessions
    BY <1>1 DEF RegisterRoute, IsolationInv, DrivesSession
  <2>2. SessionDevice[control[c].session] \in Devices
    BY <2>1, OwnershipAssumption
  <2>3. PICK p \in Pools : RegisterOwned(k, SessionDevice[control[c].session], p)
    BY <1>1 DEF RegisterRoute
  <2>4. worker' = worker /\ active_workers' = active_workers
    BY <1>1 DEF RegisterRoute, routeFrame
  <2>5. QED
    BY <2>2, <2>3, <2>4, RegisterCounts DEF CountsInv, PoolsInv
<1>2. ASSUME NEW c \in Controls, InsertRoute(c) \/ DiscountRoute(c)
      PROVE  CountsInv'
  <2>1. /\ control[c].pc # "none" /\ UNCHANGED <<registryVars, worker>>
        /\ \E n : Add(control[c].pool, n) \/ Sub(control[c].pool, n)
    BY <1>2 DEF InsertRoute, DiscountRoute, routeFrame
  <2>2. \A r \in Pools : r # control[c].pool => active_workers'[r] = active_workers[r]
    BY <2>1 DEF Add, Sub, TypeOK
  <2>3. control[c].session \in Sessions
    BY <2>1 DEF IsolationInv, DrivesSession
  <2>4. /\ SessionDevice[control[c].session] \in Devices
        /\ ~ WorkerOnly(SessionDevice[control[c].session])
        /\ Uses(SessionDevice[control[c].session], control[c].pool)
    BY <2>3, OwnershipAssumption DEF WorkerOnly, Uses
  <2>5. QED
    BY <2>1, <2>2, <2>4, OtherCounts
<1>3. ASSUME NEW c \in Controls, LoadConnections(c) \/ \E k \in Keys : RemoveRoute(c, k)
      PROVE  CountsInv'
  BY <1>3, OtherCounts DEF LoadConnections, RemoveRoute, routeFrame
<1>4. QED
  BY <1>1, <1>2, <1>3 DEF RouteStep

LEMMA CountsStep ==
  ASSUME TypeOK, IsolationInv, CountsInv, [Next]_vars
  PROVE  CountsInv'
<1>1. ASSUME UNCHANGED <<registryVars, worker, active_workers>>
      PROVE  CountsInv'
  BY <1>1, OtherCounts
<1>2. CASE RequestStep
  BY <1>1, <1>2 DEF RequestStep, Lookup, ServeByWorker, ServeByConn, Serve, Forget
<1>3. CASE SessionStep
  BY <1>1, <1>3 DEF SessionStep, Create, Reattach, Greeted, CreateFailed, ControlLost, Cleanup,
                    controlFrame
<1>4. CASE UNCHANGED vars
  BY <1>1, <1>4 DEF vars
<1>5. QED
  BY <1>2, <1>3, <1>4, CountsWorker, CountsConn, CountsRoute DEF Next

LEMMA CountsHolds == Spec => [](TypeOK /\ IsolationInv /\ CountsInv)
<1>1. Init => CountsInv
  <2>1. SUFFICES ASSUME Init PROVE CountsInv
    OBVIOUS
  <2>2. PoolsInv
    BY <2>1 DEF Init, PoolsInv, NoWorker
  <2>3. WorkersCounted
    BY <2>1 DEF Init, WorkersCounted
  <2>4. QED
    BY <2>2, <2>3 DEF CountsInv
<1>2. TypeOK /\ IsolationInv /\ CountsInv /\ [Next]_vars => CountsInv'
  BY CountsStep
<1>3. QED
  BY <1>1, <1>2, IsolationHolds, PTL DEF Spec

\* For any devices and workers: the pool of a device that connects workers only counts
\* exactly the open ones, whatever the route went through before and although the counter
\* wraps (register_owned, ActiveWorkerGuard).
THEOREM WorkersAreCounted == Spec => []WorkersCounted
<1>1. CountsInv => WorkersCounted
  BY DEF CountsInv
<1>2. QED
  BY <1>1, CountsHolds, PTL

\* While such a device has a worker connected nobody takes its route over: the pool counts
\* the worker, so that register_owned refuses everybody else.
THEOREM LiveOwnerKept == Spec => LiveOwnerKeepsRoute
<1> DEFINE Kept == \A w \in Workers, k \in Keys :
                     worker[w].pc = "open" /\ worker[w].pool = current[k]
                       /\ worker'[w] = worker[w] /\ WorkerOnly(WorkerDevice[w])
                       => current'[k] = current[k] /\ owner'[k] = owner[k]
<1>1. TypeOK /\ IsolationInv /\ CountsInv /\ [Next]_vars => Kept
  <2>1. SUFFICES ASSUME TypeOK, IsolationInv, CountsInv, [Next]_vars,
                        NEW w \in Workers, NEW k \in Keys, worker[w].pc = "open",
                        worker[w].pool = current[k], WorkerOnly(WorkerDevice[w])
                 PROVE  current'[k] = current[k] /\ owner'[k] = owner[k]
    OBVIOUS
  <2>2. /\ current[k] \in Pools /\ WorkerDevice[w] \in Devices
        /\ None \notin Pools /\ None \notin Devices
    BY <2>1, OwnershipAssumption DEF CountsInv, PoolsInv
  <2>3. owner[k] = WorkerDevice[w]
    BY <2>1, <2>2 DEF IsolationInv, PoolIsolation, Uses
  <2>4. active_workers[current[k]] # 0
    <3>1. active_workers[current[k]] = Cardinality(OpenWorkers(current[k]))
      BY <2>1, <2>2, <2>3 DEF CountsInv, WorkersCounted
    <3>2. w \in OpenWorkers(current[k])
      BY <2>1 DEF OpenWorkers
    <3>3. QED
      BY <3>1, <3>2, OpenFinite, CountOneLess
  <2>5. ASSUME NEW l \in Keys, NEW d \in Devices, NEW p \in Pools, RegisterOwned(l, d, p)
        PROVE  current'[k] = current[k] /\ owner'[k] = owner[k]
    <3>1. CASE owner[l] = d
      BY <2>5, <3>1 DEF RegisterOwned, registryVars
    <3>2. CASE owner[l] # d
      <4>1. l # k
        BY <2>2, <2>3, <2>4, <2>5, <3>2 DEF RegisterOwned
      <4>2. QED
        BY <2>1, <2>5, <3>2, <4>1 DEF RegisterOwned, TypeOK
    <3>3. QED
      BY <3>1, <3>2
  <2>6. CASE UNCHANGED registryVars
    BY <2>6 DEF registryVars
  <2>7. CASE WorkerStep
    BY <2>5, <2>6, <2>7, OwnershipAssumption
       DEF WorkerStep, WorkerRegister, WorkerGuard, WorkerRefused, WorkerGone
  <2>8. CASE RouteStep
    <3>1. ASSUME NEW c \in Controls, NEW l \in Keys, RegisterRoute(c, l)
          PROVE  current'[k] = current[k] /\ owner'[k] = owner[k]
      <4>1. SessionDevice[control[c].session] \in Devices
        BY <2>1, <3>1, OwnershipAssumption DEF RegisterRoute, IsolationInv, DrivesSession
      <4>2. QED
        BY <2>5, <3>1, <4>1 DEF RegisterRoute
    <3>2. QED
      BY <2>6, <2>8, <3>1 DEF RouteStep, RemoveRoute, LoadConnections, InsertRoute, DiscountRoute
  <2>9. UNCHANGED registryVars \/ WorkerStep \/ RouteStep
    BY <2>1 DEF Next, vars, RequestStep, Lookup, ServeByWorker, ServeByConn, Serve, Forget,
         SessionStep, Create, Reattach, Greeted, CreateFailed, ControlLost, Cleanup, controlFrame,
         ConnStep, FindSession, ConnRefused, CountConn, SnapshotForAdd, AddToPool,
         OpenConn, ConnLost, UncountConn, SnapshotForDrop, DropFromPool, ConnGone, connFrame
  <2>10. QED
    BY <2>6, <2>7, <2>8, <2>9
<1>2. QED
  BY <1>1, CountsHolds, PTL DEF Spec, LiveOwnerKeepsRoute


=============================================================================
