--------------------------- MODULE RouteOwnership ---------------------------
(***************************************************************************)
(* Who serves a public (client, service) route: the Registry's ownership   *)
(* lease, the worker sockets that hold a ClientPool directly, and the      *)
(* split sessions whose control socket registers routes and whose data     *)
(* sockets add capacity to them.                                           *)
(*                                                                         *)
(* A ClientPool is a member of Pools; a pool counts its connected capacity *)
(* in active_workers, an atomic that every socket updates on its own.      *)
(* Each lock or atomic a handler takes ends a step.  The routes mutex of a *)
(* session is held across the steps of register_route and                  *)
(* unregister_route, so nobody else reads the routes meanwhile.            *)
(*                                                                         *)
(* Authentication, acknowledgements and the numbering of routes and        *)
(* streams are left out; a route of a session is named by its key.  One    *)
(* worker stands for a legacy worker socket or for one route of a          *)
(* multiplex connection: both call register_owned, take an                 *)
(* ActiveWorkerGuard and drop it when they end.                            *)
(***************************************************************************)
EXTENDS Integers, FiniteSets

CONSTANTS
  Devices, Keys, Pools,
  Workers, WorkerDevice, WorkerKey,   \* worker sockets and what they prove to be
  Sessions, SessionDevice,            \* split sessions, each created once
  Controls,                           \* control sockets
  Conns, ConnSession,                 \* data sockets
  Requests,                           \* public requests
  MaxConnections,                     \* connection_policy.max_connections
  MaxGeneration,                      \* bound on how often a control attaches
  Word,                               \* usize is 0 .. Word - 1
  None

ASSUME OwnershipAssumption ==
  /\ WorkerDevice \in [Workers -> Devices] /\ WorkerKey \in [Workers -> Keys]
  /\ SessionDevice \in [Sessions -> Devices]
  /\ ConnSession \in [Conns -> Sessions]
  /\ MaxConnections \in Nat \ {0} /\ MaxGeneration \in Nat \ {0}
  /\ Word \in Nat \ {0}
  /\ None \notin Devices \cup Keys \cup Pools \cup Sessions

\* Sockets are counted: there are finitely many, fewer workers than a usize can hold.
ASSUME FiniteSockets ==
  /\ IsFiniteSet(Conns) /\ IsFiniteSet(Workers)
  /\ Cardinality(Workers) < Word

VARIABLES
  owner, current,      \* RegistryInner.pools: owner_device_id and the pool of a key
  fresh,               \* pools not created yet
  active_workers,      \* active_workers[p] of a pool
  worker,              \* worker[w]: program point and pool of a worker socket
  registered,          \* sessions in the SplitSessionRegistry
  created,             \* sessions that were ever created
  attached, generation,\* control_attached and control_generation of a session
  timers,              \* timers[s]: generations whose cleanup task sleeps
  routes,              \* routes[s][k]: the pool a session holds for a key, or None
  active_data,         \* active_data_connections of a session
  control,             \* control[c]: program point, session, generation, ... of a socket
  conn,                \* conn[d]: program point and pools still to count
  request              \* request[q]: its key, the pool lookup gave it, who served it

registryVars == <<owner, current, fresh>>
sessionVars == <<registered, created, attached, generation, timers>>
vars == <<registryVars, active_workers, worker, sessionVars, routes, active_data,
          control, conn, request>>

NoWorker == [pc |-> "none", pool |-> None]
NoControl == [pc |-> "none", session |-> None, gen |-> 0, key |-> None, pool |-> None, n |-> 0]
NoConn == [pc |-> "none", todo |-> {}]
NoRequest == [pc |-> "none", key |-> None, pool |-> None, owner |-> None, server |-> None]

Holding(c) == control[c].pc \in {"owned", "loaded", "removed"}
Locked(s) == \E c \in Controls : Holding(c) /\ control[c].session = s

WorkerState == [pc : {"none", "owned", "open"}, pool : Pools \cup {None}]
ControlState ==
  [pc : {"none", "greeting", "loop", "owned", "loaded", "removed"},
   session : Sessions \cup {None}, gen : Nat, key : Keys \cup {None},
   pool : Pools \cup {None}, n : Int]
ConnState ==
  [pc : {"none", "found", "counted", "adding", "open", "leaving", "left", "dropping"},
   todo : SUBSET Pools]
RequestState ==
  [pc : {"none", "queued", "served"}, key : Keys \cup {None}, pool : Pools \cup {None},
   owner : Devices \cup {None}, server : Devices \cup {None}]
CounterState == 0 .. Word - 1

TypeOK ==
  /\ owner \in [Keys -> Devices \cup {None}]
  /\ current \in [Keys -> Pools \cup {None}]
  /\ fresh \subseteq Pools
  /\ active_workers \in [Pools -> CounterState]
  /\ worker \in [Workers -> WorkerState]
  /\ registered \subseteq Sessions /\ created \subseteq Sessions
  /\ attached \in [Sessions -> BOOLEAN]
  /\ generation \in [Sessions -> Nat]
  /\ timers \in [Sessions -> SUBSET Nat]
  /\ routes \in [Sessions -> [Keys -> Pools \cup {None}]]
  /\ active_data \in [Sessions -> Int]
  /\ control \in [Controls -> ControlState]
  /\ conn \in [Conns -> ConnState]
  /\ request \in [Requests -> RequestState]

Init ==
  /\ owner = [k \in Keys |-> None]
  /\ current = [k \in Keys |-> None]
  /\ fresh = Pools
  /\ active_workers = [p \in Pools |-> 0]
  /\ worker = [w \in Workers |-> NoWorker]
  /\ registered = {} /\ created = {}
  /\ attached = [s \in Sessions |-> FALSE]
  /\ generation = [s \in Sessions |-> 0]
  /\ timers = [s \in Sessions |-> {}]
  /\ routes = [s \in Sessions |-> [k \in Keys |-> None]]
  /\ active_data = [s \in Sessions |-> 0]
  /\ control = [c \in Controls |-> NoControl]
  /\ conn = [d \in Conns |-> NoConn]
  /\ request = [q \in Requests |-> NoRequest]

\* fetch_add and fetch_sub on a usize wrap around.
Add(p, n) == active_workers' = [active_workers EXCEPT ![p] = (@ + n) % Word]
Sub(p, n) == active_workers' = [active_workers EXCEPT ![p] = (@ - n) % Word]

-----------------------------------------------------------------------------
(* Registry                                                                *)

\* Mutated form of RegisterOwned: a takeover hands the new owner the old pool.
RegisterShared(k, d, p) ==
  \/ /\ owner[k] # None /\ (owner[k] = d \/ active_workers[current[k]] = 0)
     /\ p = current[k]
     /\ owner' = [owner EXCEPT ![k] = d]
     /\ UNCHANGED <<current, fresh>>
  \/ /\ owner[k] = None
     /\ p \in fresh
     /\ fresh' = fresh \ {p}
     /\ owner' = [owner EXCEPT ![k] = d]
     /\ current' = [current EXCEPT ![k] = p]

\* Mutated form of RegisterOwned: a live owner is displaced too.
RegisterAnyway(k, d, p) ==
  \/ /\ owner[k] = d
     /\ p = current[k]
     /\ UNCHANGED registryVars
  \/ /\ owner[k] # d
     /\ p \in fresh
     /\ fresh' = fresh \ {p}
     /\ owner' = [owner EXCEPT ![k] = d]
     /\ current' = [current EXCEPT ![k] = p]

\* register_owned succeeds for device d with pool p: the owner gets its pool back,
\* anybody else a new one, once the old one counts no capacity.  The registry lock
\* is held throughout, and the public routes switch with the entry.
RegisterOwned(k, d, p) ==
  \/ /\ owner[k] = d
     /\ p = current[k]
     /\ UNCHANGED registryVars
  \/ /\ owner[k] # d
     /\ owner[k] # None => active_workers[current[k]] = 0
     /\ p \in fresh
     /\ fresh' = fresh \ {p}
     /\ owner' = [owner EXCEPT ![k] = d]
     /\ current' = [current EXCEPT ![k] = p]

\* lookup clones the pool for a request; what the request meets later is this pool.
Lookup(q) ==
  /\ request[q].pc = "none"
  /\ \E k \in Keys :
       /\ owner[k] # None
       /\ request' = [request EXCEPT ![q] =
            [pc |-> "queued", key |-> k, pool |-> current[k], owner |-> owner[k],
             server |-> None]]
  /\ UNCHANGED <<registryVars, active_workers, worker, sessionVars, routes, active_data,
                 control, conn>>

Serve(q, d) ==
  /\ request' = [request EXCEPT ![q] = [@ EXCEPT !.pc = "served", !.server = d]]
  /\ UNCHANGED <<registryVars, active_workers, worker, sessionVars, routes, active_data,
                 control, conn>>

\* The pool's dispatcher pairs the request with a worker that offered itself to it.
ServeByWorker(q) ==
  /\ request[q].pc = "queued"
  /\ \E w \in Workers : /\ worker[w].pc = "open"
                        /\ worker[w].pool = request[q].pool
                        /\ Serve(q, WorkerDevice[w])

\* ... or with a stream slot of a data connection; its socket takes the assignment
\* when control is attached and the session still holds the route.
ServeByConn(q) ==
  /\ request[q].pc = "queued"
  /\ \E d \in Conns :
       LET s == ConnSession[d] IN
       /\ conn[d].pc = "open"
       /\ attached[s]
       /\ ~ Locked(s)
       /\ \E k \in Keys : routes[s][k] = request[q].pool
       /\ Serve(q, SessionDevice[s])

\* The request is answered or gives up.
Forget(q) ==
  /\ request[q].pc # "none"
  /\ request' = [request EXCEPT ![q] = NoRequest]
  /\ UNCHANGED <<registryVars, active_workers, worker, sessionVars, routes, active_data,
                 control, conn>>

-----------------------------------------------------------------------------
(* run_worker_socket, and a route of run_multiplex_socket                  *)

workerFrame == <<sessionVars, routes, active_data, control, conn, request>>

WorkerRegister(w) ==
  /\ worker[w].pc = "none"
  /\ \E p \in Pools :
       /\ RegisterOwned(WorkerKey[w], WorkerDevice[w], p)
       /\ worker' = [worker EXCEPT ![w] = [pc |-> "owned", pool |-> p]]
  /\ UNCHANGED <<active_workers, workerFrame>>

\* Mutated form of WorkerGuard: the worker is announced before it is counted.
WorkerUncounted(w) ==
  /\ worker[w].pc = "owned"
  /\ worker' = [worker EXCEPT ![w].pc = "open"]
  /\ UNCHANGED <<registryVars, active_workers, workerFrame>>

\* ActiveWorkerGuard::try_new and the acknowledgement.
WorkerGuard(w) ==
  /\ worker[w].pc = "owned"
  /\ active_workers[worker[w].pool] < MaxConnections
  /\ Add(worker[w].pool, 1)
  /\ worker' = [worker EXCEPT ![w].pc = "open"]
  /\ UNCHANGED <<registryVars, workerFrame>>

\* The limit is reached, or the socket is lost before the guard is taken.
WorkerRefused(w) ==
  /\ worker[w].pc = "owned"
  /\ worker' = [worker EXCEPT ![w] = NoWorker]
  /\ UNCHANGED <<registryVars, active_workers, workerFrame>>

\* The socket ends or its route is unregistered: the guard is dropped.
WorkerGone(w) ==
  /\ worker[w].pc = "open"
  /\ Sub(worker[w].pool, 1)
  /\ worker' = [worker EXCEPT ![w] = NoWorker]
  /\ UNCHANGED <<registryVars, workerFrame>>

-----------------------------------------------------------------------------
(* run_split_control_socket and the session registry                       *)

controlFrame == <<registryVars, worker, routes, active_data, conn, request>>

\* create: a new session is born with its control attached.
Create(c, s) ==
  /\ control[c].pc = "none"
  /\ s \notin created
  /\ created' = created \cup {s}
  /\ registered' = registered \cup {s}
  /\ attached' = [attached EXCEPT ![s] = TRUE]
  /\ generation' = [generation EXCEPT ![s] = 1]
  /\ control' = [control EXCEPT ![c] = [NoControl EXCEPT !.pc = "greeting",
                                          !.session = s, !.gen = 1]]
  /\ UNCHANGED <<timers, active_workers, controlFrame>>

\* Mutated form of Reattach: attach_control does not look at control_attached.
ReattachAnyway(c, s) ==
  /\ control[c].pc = "none"
  /\ s \in registered
  /\ generation[s] < MaxGeneration
  /\ attached' = [attached EXCEPT ![s] = TRUE]
  /\ generation' = [generation EXCEPT ![s] = @ + 1]
  /\ control' = [control EXCEPT ![c] = [NoControl EXCEPT !.pc = "greeting",
                                          !.session = s, !.gen = generation[s] + 1]]
  /\ UNCHANGED <<timers, registered, created, active_workers, controlFrame>>

\* reattach under the registry lock: attach_control takes a detached session over.
Reattach(c, s) ==
  /\ control[c].pc = "none"
  /\ s \in registered
  /\ ~ attached[s]
  /\ generation[s] < MaxGeneration
  /\ attached' = [attached EXCEPT ![s] = TRUE]
  /\ generation' = [generation EXCEPT ![s] = @ + 1]
  /\ control' = [control EXCEPT ![c] = [NoControl EXCEPT !.pc = "greeting",
                                          !.session = s, !.gen = generation[s] + 1]]
  /\ UNCHANGED <<timers, registered, created, active_workers, controlFrame>>

\* SessionReady is sent.
Greeted(c) ==
  /\ control[c].pc = "greeting"
  /\ control' = [control EXCEPT ![c].pc = "loop"]
  /\ UNCHANGED <<sessionVars, active_workers, controlFrame>>

\* Data sockets that subscribed to shutdown end when the session is removed.  The
\* send reaches nobody else: a later subscriber sees nothing new.
Shutdown(s) ==
  conn' = [d \in Conns |-> IF ConnSession[d] = s /\ conn[d].pc = "open"
                             THEN [conn[d] EXCEPT !.pc = "leaving"] ELSE conn[d]]

\* SessionReady of a created session cannot be sent: the session is removed as it is.
CreateFailed(c) ==
  /\ control[c].pc = "greeting" /\ control[c].gen = 1
  /\ LET s == control[c].session IN
       /\ registered' = registered \ {s}
       /\ Shutdown(s)
  /\ control' = [control EXCEPT ![c] = NoControl]
  /\ UNCHANGED <<created, attached, generation, timers, registryVars, worker, routes,
                 active_data, request, active_workers>>

\* Mutated form of ControlLost: a reattached control that could not be greeted
\* detaches without a cleanup task.
ControlLostUngreeted(c) ==
  /\ \/ control[c].pc = "loop"
     \/ control[c].pc = "greeting" /\ control[c].gen > 1
  /\ LET s == control[c].session
         g == control[c].gen IN
       IF generation[s] = g /\ attached[s]
         THEN /\ attached' = [attached EXCEPT ![s] = FALSE]
              /\ timers' = IF control[c].pc = "loop" THEN [timers EXCEPT ![s] = @ \cup {g}]
                                                    ELSE timers
         ELSE UNCHANGED <<attached, timers>>
  /\ control' = [control EXCEPT ![c] = NoControl]
  /\ UNCHANGED <<registered, created, generation, active_workers, controlFrame>>

\* The control socket ends (closed, silent for too long, or never greeted after a
\* reattach): detach_control, and a cleanup task that sleeps for the grace period.
ControlLost(c) ==
  /\ \/ control[c].pc = "loop"
     \/ control[c].pc = "greeting" /\ control[c].gen > 1
  /\ LET s == control[c].session
         g == control[c].gen IN
       IF generation[s] = g /\ attached[s]
         THEN /\ attached' = [attached EXCEPT ![s] = FALSE]
              /\ timers' = [timers EXCEPT ![s] = @ \cup {g}]
         ELSE UNCHANGED <<attached, timers>>
  /\ control' = [control EXCEPT ![c] = NoControl]
  /\ UNCHANGED <<registered, created, generation, active_workers, controlFrame>>

\* Mutated form of Cleanup: remove_if_detached does not compare the generation.
CleanupAnyGeneration(s) ==
  /\ \E g \in timers[s] :
       /\ timers' = [timers EXCEPT ![s] = @ \ {g}]
       /\ IF s \in registered /\ ~ attached[s]
            THEN /\ registered' = registered \ {s}
                 /\ Shutdown(s)
            ELSE UNCHANGED <<registered, conn>>
  /\ UNCHANGED <<created, attached, generation, registryVars, worker, routes, active_data,
                 request, control, active_workers>>

\* The cleanup task wakes up: remove_if_detached.
Cleanup(s) ==
  /\ \E g \in timers[s] :
       /\ timers' = [timers EXCEPT ![s] = @ \ {g}]
       /\ IF s \in registered /\ ~ attached[s] /\ generation[s] = g
            THEN /\ registered' = registered \ {s}
                 /\ Shutdown(s)
            ELSE UNCHANGED <<registered, conn>>
  /\ UNCHANGED <<created, attached, generation, registryVars, worker, routes, active_data,
                 request, control, active_workers>>

-----------------------------------------------------------------------------
(* register_route and unregister_route, under the session's routes lock    *)

routeFrame == <<sessionVars, worker, active_data, conn, request>>

\* A key the session holds already is answered at once, and changes nothing.
RegisterRoute(c, k) ==
  LET s == control[c].session IN
  /\ control[c].pc = "loop"
  /\ routes[s][k] = None
  /\ \E p \in Pools :
       /\ RegisterOwned(k, SessionDevice[s], p)
       /\ control' = [control EXCEPT ![c] =
                        [@ EXCEPT !.pc = "owned", !.key = k, !.pool = p]]
  /\ UNCHANGED <<active_workers, routes, routeFrame>>

\* The data connections that are counted now ...
LoadConnections(c) ==
  /\ control[c].pc = "owned"
  /\ control' = [control EXCEPT ![c] =
                   [@ EXCEPT !.pc = "loaded", !.n = active_data[control[c].session]]]
  /\ UNCHANGED <<registryVars, active_workers, routes, routeFrame>>

\* ... are added to the pool, the route is inserted and the lock released.
InsertRoute(c) ==
  /\ control[c].pc = "loaded"
  /\ Add(control[c].pool, control[c].n)
  /\ routes' = [routes EXCEPT ![control[c].session][control[c].key] = control[c].pool]
  /\ control' = [control EXCEPT ![c] =
                   [@ EXCEPT !.pc = "loop", !.key = None, !.pool = None, !.n = 0]]
  /\ UNCHANGED <<registryVars, routeFrame>>

\* unregister_route removes the route and loads the connections that are counted ...
RemoveRoute(c, k) ==
  LET s == control[c].session IN
  /\ control[c].pc = "loop"
  /\ routes[s][k] # None
  /\ routes' = [routes EXCEPT ![s][k] = None]
  /\ control' = [control EXCEPT ![c] = [@ EXCEPT !.pc = "removed", !.pool = routes[s][k],
                                          !.n = active_data[s]]]
  /\ UNCHANGED <<registryVars, active_workers, routeFrame>>

\* ... and takes them off the pool.
DiscountRoute(c) ==
  /\ control[c].pc = "removed"
  /\ Sub(control[c].pool, control[c].n)
  /\ control' = [control EXCEPT ![c] = [@ EXCEPT !.pc = "loop", !.pool = None, !.n = 0]]
  /\ UNCHANGED <<registryVars, routes, routeFrame>>

-----------------------------------------------------------------------------
(* run_split_data_socket                                                   *)

connFrame == <<registryVars, worker, sessionVars, routes, control, request>>

Snapshot(s) == {routes[s][k] : k \in Keys} \ {None}

\* The socket finds its session, then authenticates.  A device learns the random id
\* of a session from its first SessionReady.
FindSession(d) ==
  /\ conn[d].pc = "none"
  /\ ConnSession[d] \in registered
  /\ \A c \in Controls : control[c] # [NoControl EXCEPT !.pc = "greeting",
                                       !.session = ConnSession[d], !.gen = 1]
  /\ conn' = [conn EXCEPT ![d].pc = "found"]
  /\ UNCHANGED <<active_workers, active_data, connFrame>>

\* Authentication fails or times out.
ConnRefused(d) ==
  /\ conn[d].pc = "found"
  /\ conn' = [conn EXCEPT ![d] = NoConn]
  /\ UNCHANGED <<active_workers, active_data, connFrame>>

\* attach_data_connection counts the connection below the limit, or refuses it ...
CountConn(d) ==
  LET s == ConnSession[d] IN
  /\ conn[d].pc = "found"
  /\ IF active_data[s] < MaxConnections
       THEN /\ active_data' = [active_data EXCEPT ![s] = @ + 1]
            /\ conn' = [conn EXCEPT ![d].pc = "counted"]
       ELSE /\ conn' = [conn EXCEPT ![d] = NoConn]
            /\ UNCHANGED active_data
  /\ UNCHANGED <<active_workers, connFrame>>

\* ... takes a snapshot of the routes, which waits for the lock ...
SnapshotForAdd(d) ==
  LET s == ConnSession[d] IN
  /\ conn[d].pc = "counted"
  /\ ~ Locked(s)
  /\ conn' = [conn EXCEPT ![d] = [pc |-> "adding", todo |-> Snapshot(s)]]
  /\ UNCHANGED <<active_workers, active_data, connFrame>>

\* ... and counts the connection in each pool of the snapshot.
AddToPool(d) ==
  /\ conn[d].pc = "adding"
  /\ \E p \in conn[d].todo :
       /\ Add(p, 1)
       /\ conn' = [conn EXCEPT ![d].todo = @ \ {p}]
  /\ UNCHANGED <<active_data, connFrame>>

\* The connection is acknowledged, subscribes and publishes its slots; or the
\* acknowledgement cannot be sent.
OpenConn(d) ==
  /\ conn[d].pc = "adding" /\ conn[d].todo = {}
  /\ \E next \in {"open", "leaving"} : conn' = [conn EXCEPT ![d].pc = next]
  /\ UNCHANGED <<active_workers, active_data, connFrame>>

\* The socket closes or falls silent.
ConnLost(d) ==
  /\ conn[d].pc = "open"
  /\ conn' = [conn EXCEPT ![d].pc = "leaving"]
  /\ UNCHANGED <<active_workers, active_data, connFrame>>

\* detach_data_connection: the count, the snapshot, then each pool.
UncountConn(d) ==
  LET s == ConnSession[d] IN
  /\ conn[d].pc = "leaving"
  /\ active_data' = [active_data EXCEPT ![s] = @ - 1]
  /\ conn' = [conn EXCEPT ![d].pc = "left"]
  /\ UNCHANGED <<active_workers, connFrame>>

SnapshotForDrop(d) ==
  LET s == ConnSession[d] IN
  /\ conn[d].pc = "left"
  /\ ~ Locked(s)
  /\ conn' = [conn EXCEPT ![d] = [pc |-> "dropping", todo |-> Snapshot(s)]]
  /\ UNCHANGED <<active_workers, active_data, connFrame>>

DropFromPool(d) ==
  /\ conn[d].pc = "dropping"
  /\ \E p \in conn[d].todo :
       /\ Sub(p, 1)
       /\ conn' = [conn EXCEPT ![d].todo = @ \ {p}]
  /\ UNCHANGED <<active_data, connFrame>>

ConnGone(d) ==
  /\ conn[d].pc = "dropping" /\ conn[d].todo = {}
  /\ conn' = [conn EXCEPT ![d] = NoConn]
  /\ UNCHANGED <<active_workers, active_data, connFrame>>

-----------------------------------------------------------------------------
RequestStep == \E q \in Requests : Lookup(q) \/ ServeByWorker(q) \/ ServeByConn(q) \/ Forget(q)

WorkerStep == \E w \in Workers :
  WorkerRegister(w) \/ WorkerGuard(w) \/ WorkerRefused(w) \/ WorkerGone(w)

SessionStep ==
  \/ \E c \in Controls, s \in Sessions : Create(c, s) \/ Reattach(c, s)
  \/ \E c \in Controls : Greeted(c) \/ CreateFailed(c) \/ ControlLost(c)
  \/ \E s \in Sessions : Cleanup(s)

RouteStep ==
  \/ \E c \in Controls, k \in Keys : RegisterRoute(c, k) \/ RemoveRoute(c, k)
  \/ \E c \in Controls : LoadConnections(c) \/ InsertRoute(c) \/ DiscountRoute(c)

ConnStep == \E d \in Conns :
  \/ FindSession(d) \/ ConnRefused(d) \/ CountConn(d)
  \/ SnapshotForAdd(d) \/ AddToPool(d) \/ OpenConn(d)
  \/ ConnLost(d) \/ UncountConn(d) \/ SnapshotForDrop(d) \/ DropFromPool(d) \/ ConnGone(d)

Next == RequestStep \/ WorkerStep \/ SessionStep \/ RouteStep \/ ConnStep

Spec == Init /\ [][Next]_vars

\* tokio wakes every cleanup task that sleeps; sockets come and go as they like.
SessionFairness == \A s \in Sessions : WF_vars(Cleanup(s))

FairSpec == Spec /\ SessionFairness

-----------------------------------------------------------------------------
(* Properties                                                              *)

\* Which device uses which pool: as a worker, through a route of a session, in a
\* registration under way, or in a connection's snapshot of the routes.
Uses(d, p) ==
  \/ \E w \in Workers : WorkerDevice[w] = d /\ worker[w].pool = p
  \/ \E s \in Sessions, k \in Keys : SessionDevice[s] = d /\ routes[s][k] = p
  \/ \E c \in Controls : /\ control[c].pool = p /\ control[c].session \in Sessions
                         /\ SessionDevice[control[c].session] = d
  \/ \E x \in Conns : SessionDevice[ConnSession[x]] = d /\ p \in conn[x].todo

\* Two devices never use one dispatcher pool, in whatever order they register, take
\* over, reconnect and leave, and the pool a public route points at is used by the
\* owner of the route only (register_owned installs a fresh pool on a takeover).
PoolIsolation ==
  \A d \in Devices, p \in Pools : Uses(d, p) =>
    /\ \A e \in Devices : Uses(e, p) => e = d
    /\ \A k \in Keys : current[k] = p => owner[k] = d

\* A request is served by the device that owned the route when the request was
\* looked up, even if the route changed hands while it was queued (lookup clones
\* the pool; the pool of a former owner never reaches a new one).
ServedByOwner ==
  \A q \in Requests : request[q].pc = "served" => request[q].server = request[q].owner

\* What the two rest on.  Nobody uses a pool that was not created yet; a route that is
\* owned has a pool, which no other route has; a control socket drives a session; and
\* the pool of a request stays with the owner the request found.
FreshUnused == \A p \in fresh : \A d \in Devices : ~ Uses(d, p)

PoolPerRoute ==
  /\ \A k \in Keys : IF owner[k] = None THEN current[k] = None
                                        ELSE current[k] \in Pools \ fresh
  /\ \A k, l \in Keys : current[k] = current[l] /\ current[k] # None => k = l

DrivesSession ==
  \A c \in Controls : control[c].pc # "none" => control[c].session \in Sessions

RequestKeepsOwner ==
  \A q \in Requests : request[q].pc # "none" =>
    /\ request[q].pool \in Pools \ fresh
    /\ \A d \in Devices : Uses(d, request[q].pool) => d = request[q].owner
    /\ \A k \in Keys : current[k] = request[q].pool => owner[k] = request[q].owner

\* The inductive invariant behind PoolIsolation and ServedByOwner (register_owned,
\* lookup, and everything that takes, keeps or drops a pool).
IsolationInv ==
  /\ PoolIsolation /\ ServedByOwner
  /\ FreshUnused /\ PoolPerRoute /\ DrivesSession /\ RequestKeepsOwner

\* A registered session is attached exactly while one control socket drives it, and
\* never two (attach_control's compare_exchange against detach_control's generation).
AttachExclusive ==
  /\ \A c, e \in Controls :
       control[c].session = control[e].session /\ control[c].pc # "none" => c = e
  /\ \A s \in registered : attached[s] <=> \E c \in Controls : control[c].session = s

\* What it rests on: a control socket drives a registered session and knows its latest
\* generation, and one that is gone has let go of it (attach_control, detach_control).
ControlInv ==
  /\ registered \subseteq created
  /\ \A c \in Controls :
       IF control[c].pc = "none"
         THEN control[c] = NoControl
         ELSE control[c].session \in registered /\ control[c].gen = generation[control[c].session]

\* Only the cleanup task of the latest detachment removes a detached session: each
\* detachment has a grace period of its own (remove_if_detached).
GracePerDetachment ==
  [][\A s \in Sessions :
       s \in registered /\ s \notin registered' /\ ~ attached[s]
         => generation[s] \in timers[s] \ timers'[s]]_vars

\* A session without a control socket does not linger: it is taken over by a new
\* control socket or removed (schedule_split_session_cleanup).
DetachedIsResolved ==
  \A s \in Sessions :
    (s \in registered /\ ~ attached[s]) ~> (s \notin registered \/ attached[s])

\* The session counts exactly the data connections between their attachment and
\* their detachment, never more than the policy allows (attach_data_connection,
\* detach_data_connection, the failed acknowledgement and the shutdown paths).
Attached(s) == {d \in Conns : /\ ConnSession[d] = s
                              /\ conn[d].pc \in {"counted", "adding", "open", "leaving"}}

DataConnectionsCounted ==
  \A s \in Sessions : /\ active_data[s] = Cardinality(Attached(s))
                      /\ active_data[s] <= MaxConnections

\* However control and data sockets come and go: one control socket at a time drives a
\* registered session, which counts exactly its data sockets, up to the limit
\* (attach_control, detach_control, attach_data_connection).
SessionAccounted == AttachExclusive /\ DataConnectionsCounted

OpenWorkers(p) == {w \in Workers : worker[w].pc = "open" /\ worker[w].pool = p}

WorkerOnly(d) == \A s \in Sessions : SessionDevice[s] # d

\* The pool of a device that connects workers only counts exactly the open ones,
\* whatever the route went through before (ActiveWorkerGuard).
WorkersCounted ==
  \A k \in Keys : owner[k] # None /\ WorkerOnly(owner[k]) =>
    active_workers[current[k]] = Cardinality(OpenWorkers(current[k]))

\* What it rests on: a worker that registered has a pool, and a pool counts nothing
\* before it is created (register_owned).
PoolsInv ==
  /\ \A w \in Workers : worker[w].pc # "none" => worker[w].pool \in Pools
  /\ \A p \in fresh : active_workers[p] = 0

\* While such a device has a worker connected, its public route keeps its pool and its
\* owner (register_owned, ActiveWorkerGuard).
LiveOwnerKeepsRoute ==
  [][\A w \in Workers, k \in Keys :
       worker[w].pc = "open" /\ worker[w].pool = current[k] /\ worker'[w] = worker[w]
         /\ WorkerOnly(WorkerDevice[w])
         => current'[k] = current[k] /\ owner'[k] = owner[k]]_vars

\* Nothing is connected any more and no handler is half-way.
AllGone ==
  /\ \A w \in Workers : worker[w].pc = "none"
  /\ \A c \in Controls : control[c].pc \in {"none", "loop"}
  /\ \A d \in Conns : conn[d].pc = "none"

\* When the owner of a route has no active workers left, another device may take the
\* route over (docs/builtin-wss-tunnel.md): its pool counts no capacity then.
FreeWhenAllGone ==
  AllGone => \A k \in Keys : owner[k] # None => active_workers[current[k]] = 0
=============================================================================
