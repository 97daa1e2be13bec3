---------------------------- MODULE StreamSlots ----------------------------
(***************************************************************************)
(* How a split data connection lends its stream slots to the dispatchers   *)
(* of several routes.  A free slot is offered to the pool of every route;  *)
(* the dispatcher of each pool pairs offers with jobs on its own, and      *)
(* SharedWorkerClaim decides which one gets the slot: an offer carries the *)
(* slot's generation, `claimed' is taken by compare_exchange, and the      *)
(* socket task bumps the generation when it takes the slot back.           *)
(*                                                                         *)
(* One data socket (run_split_data_socket), one dispatcher per pool        *)
(* (dispatch_requests) and the control socket are concurrent tasks.  The   *)
(* loads, the compare_exchange and the store of a claim are steps of their *)
(* own, as is every await of the socket task.  The generation and the flag *)
(* are reset in one step: a claim that falls between the two fails like    *)
(* one that comes before them.                                             *)
(*                                                                         *)
(* Lanes, demand and the pending slot of a job are left out, the jobs of a *)
(* pool are served in any order, and a stream is one step of work: request *)
(* and response frames show only in how it ends.                           *)
(***************************************************************************)
EXTENDS Integers, Sequences, FiniteSets

CONSTANTS
  Slots, Pools,
  RouteIds, RoutePool,    \* route ids and the pool each registers
  RegisteredFirst,        \* the routes the session has when the data socket opens
  Jobs, JobPool,          \* jobs and the pool each is queued in
  MaxDetaches,            \* bound on how often the control socket is lost
  MaxUnregisters,         \* bound on how many routes are unregistered
  MaxGiveUps,             \* bound on how many jobs are given up
  ConnectionFails,        \* whether the data socket may be lost
  None

Offer == [slot : Slots, route : RouteIds, gen : Nat]
Assignment == [slot : Slots, route : RouteIds, gen : Nat, job : Jobs]

ASSUME SlotsAssumption ==
  /\ RoutePool \in [RouteIds -> Pools] /\ JobPool \in [Jobs -> Pools]
  /\ RegisteredFirst \subseteq RouteIds
  /\ \A r, q \in RegisteredFirst : RoutePool[r] = RoutePool[q] => r = q
  /\ MaxDetaches \in Nat /\ MaxUnregisters \in Nat /\ MaxGiveUps \in Nat
  /\ ConnectionFails \in BOOLEAN
  /\ None \notin Slots \cup Pools \cup RouteIds \cup Jobs \cup Assignment

VARIABLES
  generation, claimed,  \* the atomics of a slot
  active,               \* active[s]: the job whose stream runs on slot s, or None
  offers,               \* offers[p]: AvailableWorkers sent to pool p, in order
  queue,                \* queue[p]: jobs waiting in pool p
  dispatcher,           \* dispatcher[p]: program point, offer and job it holds
  flight,               \* assignments between a dispatcher and the socket task
  alive,                \* the data socket's loop runs
  publishing,           \* slots the socket task still has to publish
  offering,             \* the slot it publishes now and the routes to offer it to
  admitted,             \* the assignment it waits for the routes lock with, or None
  control_attached, control_changed, detaches,
  route, route_changed, \* route[r]: "new", "live" or "gone"
  active_streams,       \* session.active_streams
  entered, given_up, finished  \* jobs: sent to a pool, abandoned, answered or dropped

slotVars == <<generation, claimed, active>>
socketVars == <<alive, publishing, offering, admitted>>
controlVars == <<control_attached, control_changed, detaches, route, route_changed>>
jobVars == <<entered, given_up, finished>>
vars == <<slotVars, offers, queue, dispatcher, flight, socketVars, controlVars,
          active_streams, jobVars>>

Idle == [pc |-> "idle", offer |-> None, job |-> None]
DispatcherState ==
  {Idle} \cup [pc : {"checked", "swapped", "owned", "releasing"}, offer : Offer, job : Jobs]
NotOffering == [slot |-> None, routes |-> {}]

TypeOK ==
  /\ generation \in [Slots -> Nat] /\ claimed \in [Slots -> BOOLEAN]
  /\ active \in [Slots -> Jobs \cup {None}]
  /\ offers \in [Pools -> Seq(Offer)]
  /\ queue \in [Pools -> SUBSET Jobs]
  /\ dispatcher \in [Pools -> DispatcherState]
  /\ flight \subseteq Assignment
  /\ alive \in BOOLEAN
  /\ publishing \subseteq Slots
  /\ offering \in {NotOffering} \cup [slot : Slots, routes : SUBSET RouteIds]
  /\ admitted \in Assignment \cup {None}
  /\ control_attached \in BOOLEAN /\ control_changed \in BOOLEAN /\ detaches \in Nat
  /\ route \in [RouteIds -> {"new", "live", "gone"}] /\ route_changed \in BOOLEAN
  /\ active_streams \in Nat
  /\ entered \subseteq Jobs /\ given_up \subseteq Jobs /\ finished \subseteq Jobs

Live == {r \in RouteIds : route[r] = "live"}
Current(o) == generation[o.slot] = o.gen
ActiveSlots == {s \in Slots : active[s] # None}

\* The session has its control socket and maybe some routes; the data socket is
\* accepted and about to publish its slots.
Init ==
  /\ generation = [s \in Slots |-> 1]
  /\ claimed = [s \in Slots |-> FALSE]
  /\ active = [s \in Slots |-> None]
  /\ offers = [p \in Pools |-> <<>>]
  /\ queue = [p \in Pools |-> {}]
  /\ dispatcher = [p \in Pools |-> Idle]
  /\ flight = {}
  /\ alive = TRUE
  /\ publishing = Slots /\ offering = NotOffering /\ admitted = None
  /\ control_attached = TRUE /\ control_changed = FALSE /\ detaches = 0
  /\ route = [r \in RouteIds |-> IF r \in RegisteredFirst THEN "live" ELSE "new"]
  /\ route_changed = FALSE
  /\ active_streams = 0
  /\ entered = {} /\ given_up = {} /\ finished = {}

-----------------------------------------------------------------------------
(* Jobs: what proxy_request sends to a pool, and when it gives up          *)

jobFrame == <<slotVars, offers, dispatcher, flight, socketVars, controlVars, active_streams>>

Enqueue(j) ==
  /\ j \notin entered
  /\ entered' = entered \cup {j}
  /\ queue' = [queue EXCEPT ![JobPool[j]] = @ \cup {j}]
  /\ UNCHANGED <<jobFrame, given_up, finished>>

\* A deadline passes: cancel_tx.send(true).
GiveUp(j) ==
  /\ j \in entered \ (finished \cup given_up)
  /\ Cardinality(given_up) < MaxGiveUps
  /\ given_up' = given_up \cup {j}
  /\ UNCHANGED <<jobFrame, queue, entered, finished>>

-----------------------------------------------------------------------------
(* dispatch_requests, one per pool                                         *)

dispatchFrame == <<socketVars, controlVars, active_streams, entered, given_up>>

Usable(o) == alive /\ Current(o)
UsableAt(p) == {i \in DOMAIN offers[p] : Usable(offers[p][i])}

\* retain: the offers that are usable stay, in their order.
InOrder(K) ==
  {e \in [1 .. Cardinality(K) -> K] :
     /\ \A i, j \in DOMAIN e : i < j => e[i] < e[j]
     /\ \A k \in K : \E i \in DOMAIN e : e[i] = k}

Retain(p) ==
  \E e \in InOrder(UsableAt(p)) :
    offers' = [offers EXCEPT ![p] = [i \in DOMAIN e |-> offers[p][e[i]]]]

\* Mutated form of Sweep: jobs that were given up stay in the queue.
SweepOffers(p) ==
  /\ dispatcher[p] = Idle
  /\ UsableAt(p) # DOMAIN offers[p]
  /\ Retain(p)
  /\ UNCHANGED <<dispatchFrame, slotVars, dispatcher, flight, queue, finished>>

\* The head of the loop: jobs that were given up and offers of a closed socket or an
\* older generation are dropped.
Sweep(p) ==
  /\ dispatcher[p] = Idle
  /\ queue[p] \cap given_up # {} \/ UsableAt(p) # DOMAIN offers[p]
  /\ queue' = [queue EXCEPT ![p] = @ \ given_up]
  /\ finished' = finished \cup (queue[p] \cap given_up)
  /\ Retain(p)
  /\ UNCHANGED <<dispatchFrame, slotVars, dispatcher, flight>>

\* A job and the oldest offer are taken; try_claim loads the generation.
Pick(p, j) ==
  /\ dispatcher[p] = Idle
  /\ j \in queue[p]
  /\ offers[p] # <<>>
  /\ LET o == Head(offers[p]) IN
     IF Current(o)
       THEN /\ dispatcher' = [dispatcher EXCEPT ![p] =
                                [pc |-> "checked", offer |-> o, job |-> j]]
            /\ queue' = [queue EXCEPT ![p] = @ \ {j}]
       ELSE UNCHANGED <<dispatcher, queue>>
  /\ offers' = [offers EXCEPT ![p] = Tail(@)]
  /\ UNCHANGED <<dispatchFrame, slotVars, flight, finished>>

\* try_claim failed: the offer is dropped and the job goes back to the queue.
Requeue(p) ==
  /\ dispatcher' = [dispatcher EXCEPT ![p] = Idle]
  /\ queue' = [queue EXCEPT ![p] = @ \cup {dispatcher[p].job}]

\* Mutated form of Claim: a load and a store instead of the compare_exchange.
ClaimAnyway(p) ==
  LET s == dispatcher[p].offer.slot IN
  /\ dispatcher[p].pc = "checked"
  /\ claimed' = [claimed EXCEPT ![s] = TRUE]
  /\ dispatcher' = [dispatcher EXCEPT ![p].pc = "swapped"]
  /\ UNCHANGED <<dispatchFrame, generation, active, offers, flight, finished, queue>>

\* try_claim's compare_exchange.
Claim(p) ==
  LET s == dispatcher[p].offer.slot IN
  /\ dispatcher[p].pc = "checked"
  /\ IF claimed[s] THEN Requeue(p) /\ UNCHANGED claimed
                   ELSE /\ claimed' = [claimed EXCEPT ![s] = TRUE]
                        /\ dispatcher' = [dispatcher EXCEPT ![p].pc = "swapped"]
                        /\ UNCHANGED queue
  /\ UNCHANGED <<dispatchFrame, generation, active, offers, flight, finished>>

\* Mutated form of Recheck: the job is dropped when the generation has moved on.
RecheckDrops(p) ==
  /\ dispatcher[p].pc = "swapped"
  /\ dispatcher' = [dispatcher EXCEPT ![p] =
       IF Current(dispatcher[p].offer) THEN [@ EXCEPT !.pc = "owned"] ELSE Idle]
  /\ UNCHANGED <<dispatchFrame, queue, slotVars, offers, flight, finished>>

\* try_claim loads the generation again.  When it has moved on, the flag stays set.
Recheck(p) ==
  /\ dispatcher[p].pc = "swapped"
  /\ IF Current(dispatcher[p].offer)
       THEN dispatcher' = [dispatcher EXCEPT ![p].pc = "owned"] /\ UNCHANGED queue
       ELSE Requeue(p)
  /\ UNCHANGED <<dispatchFrame, slotVars, offers, flight, finished>>

\* The job was given up meanwhile: release loads the generation, the job is dropped and
\* the offer goes back to the front ...
Abandon(p) ==
  LET d == dispatcher[p] IN
  /\ d.pc = "owned" /\ d.job \in given_up
  /\ IF Current(d.offer)
       THEN /\ dispatcher' = [dispatcher EXCEPT ![p].pc = "releasing"]
            /\ UNCHANGED <<offers, finished>>
       ELSE /\ dispatcher' = [dispatcher EXCEPT ![p] = Idle]
            /\ offers' = [offers EXCEPT ![p] = <<d.offer>> \o @]
            /\ finished' = finished \cup {d.job}
  /\ UNCHANGED <<dispatchFrame, slotVars, queue, flight>>

\* ... once the flag is cleared.
Release(p) ==
  LET d == dispatcher[p] IN
  /\ d.pc = "releasing"
  /\ claimed' = [claimed EXCEPT ![d.offer.slot] = FALSE]
  /\ dispatcher' = [dispatcher EXCEPT ![p] = Idle]
  /\ offers' = [offers EXCEPT ![p] = <<d.offer>> \o @]
  /\ finished' = finished \cup {d.job}
  /\ UNCHANGED <<dispatchFrame, generation, active, queue, flight>>

\* Mutated form of Assign: the job that is sent is kept in the queue as well.
AssignKeeps(p) ==
  LET d == dispatcher[p]
      o == d.offer IN
  /\ d.pc = "owned" /\ d.job \notin given_up
  /\ flight' = IF alive THEN flight \cup {[slot |-> o.slot, route |-> o.route, gen |-> o.gen,
                                           job |-> d.job]}
                        ELSE flight
  /\ Requeue(p)
  /\ UNCHANGED <<dispatchFrame, slotVars, offers, finished>>

\* The job is sent to the relay of the offer, or comes back because the socket is gone
\* and nobody looks at the slot any more.
Assign(p) ==
  LET d == dispatcher[p]
      o == d.offer IN
  /\ d.pc = "owned" /\ d.job \notin given_up
  /\ IF alive
       THEN /\ flight' = flight \cup {[slot |-> o.slot, route |-> o.route, gen |-> o.gen,
                                       job |-> d.job]}
            /\ dispatcher' = [dispatcher EXCEPT ![p] = Idle]
            /\ UNCHANGED queue
       ELSE Requeue(p) /\ UNCHANGED flight
  /\ UNCHANGED <<dispatchFrame, slotVars, offers, finished>>

-----------------------------------------------------------------------------
(* The control socket: attachment and routes                               *)

controlFrame == <<slotVars, offers, queue, dispatcher, flight, socketVars, active_streams,
                  jobVars>>

DetachControl ==
  /\ control_attached /\ detaches < MaxDetaches
  /\ control_attached' = FALSE /\ control_changed' = TRUE
  /\ detaches' = detaches + 1
  /\ UNCHANGED <<controlFrame, route, route_changed>>

AttachControl ==
  /\ ~ control_attached
  /\ control_attached' = TRUE /\ control_changed' = TRUE
  /\ UNCHANGED <<controlFrame, detaches, route, route_changed>>

\* A key that is registered already keeps its id; otherwise it gets a new one.
RegisterRoute(r) ==
  /\ control_attached
  /\ route[r] = "new"
  /\ \A q \in Live : RoutePool[q] # RoutePool[r]
  /\ route' = [route EXCEPT ![r] = "live"] /\ route_changed' = TRUE
  /\ UNCHANGED <<controlFrame, control_attached, control_changed, detaches>>

UnregisterRoute(r) ==
  /\ control_attached
  /\ route[r] = "live"
  /\ Cardinality({q \in RouteIds : route[q] = "gone"}) < MaxUnregisters
  /\ route' = [route EXCEPT ![r] = "gone"] /\ route_changed' = TRUE
  /\ UNCHANGED <<controlFrame, control_attached, control_changed, detaches>>

-----------------------------------------------------------------------------
(* run_split_data_socket                                                   *)

socketFrame == <<queue, dispatcher, entered, given_up, control_attached, detaches, route>>

\* The task is at its select!.
Selecting == alive /\ publishing = {} /\ offering = NotOffering /\ admitted = None

\* publish_split_slot: nothing while control is detached, else a snapshot of the routes.
PublishSlot ==
  /\ alive /\ offering = NotOffering
  /\ \E s \in publishing :
       /\ publishing' = publishing \ {s}
       /\ offering' = IF control_attached /\ Live # {} THEN [slot |-> s, routes |-> Live]
                                                     ELSE NotOffering
  /\ UNCHANGED <<socketFrame, slotVars, offers, flight, alive, admitted, control_changed,
                 route_changed, active_streams, finished>>

\* publish_multiplex_offer for one route of the snapshot.
PublishOffer ==
  /\ alive /\ offering # NotOffering
  /\ \E r \in offering.routes :
       LET s == offering.slot
           p == RoutePool[r] IN
       /\ offers' = IF active[s] = None /\ ~ claimed[s]
            THEN [offers EXCEPT ![p] =
                    Append(@, [slot |-> s, route |-> r, gen |-> generation[s]])]
            ELSE offers
       /\ offering' = IF offering.routes = {r} THEN NotOffering
                                               ELSE [offering EXCEPT !.routes = @ \ {r}]
  /\ UNCHANGED <<socketFrame, slotVars, flight, alive, publishing, admitted, control_changed,
                 route_changed, active_streams, finished>>

\* control_revision.changed(): an attached control publishes the free slots, a detached
\* one takes back every slot without a stream.
ControlChanged ==
  /\ Selecting /\ control_changed
  /\ control_changed' = FALSE
  /\ IF control_attached
       THEN publishing' = Slots /\ UNCHANGED slotVars
       ELSE /\ generation' = [s \in Slots |-> IF active[s] = None THEN generation[s] + 1
                                                                  ELSE generation[s]]
            /\ claimed' = [s \in Slots |-> active[s] # None /\ claimed[s]]
            /\ UNCHANGED <<active, publishing>>
  /\ UNCHANGED <<socketFrame, offers, flight, alive, offering, admitted, route_changed,
                 active_streams, finished>>

\* route_revision.changed(): the free slots are published again.
RouteChanged ==
  /\ Selecting /\ route_changed
  /\ route_changed' = FALSE
  /\ publishing' = Slots
  /\ UNCHANGED <<socketFrame, slotVars, offers, flight, alive, offering, admitted,
                 control_changed, active_streams, finished>>

\* reset_multiplex_slot
Reset(s) ==
  /\ active' = [active EXCEPT ![s] = None]
  /\ generation' = [generation EXCEPT ![s] = @ + 1]
  /\ claimed' = [claimed EXCEPT ![s] = FALSE]

\* The slot is no longer available: the job gets an error, a free slot is taken back.
Reject(a) ==
  /\ finished' = finished \cup {a.job}
  /\ IF active[a.slot] = None THEN Reset(a.slot) ELSE UNCHANGED slotVars

\* An assignment arrives.  A busy slot or a detached control rejects it; otherwise the
\* task waits for the routes lock.
Receive(a) ==
  /\ Selecting
  /\ a \in flight
  /\ flight' = flight \ {a}
  /\ IF active[a.slot] = None /\ control_attached
       THEN admitted' = a /\ UNCHANGED <<finished, slotVars>>
       ELSE Reject(a) /\ UNCHANGED admitted
  /\ UNCHANGED <<socketFrame, offers, alive, publishing, offering, control_changed,
                 route_changed, active_streams>>

\* The route of the assignment is gone.
RejectRoute ==
  /\ alive /\ admitted # None
  /\ route[admitted.route] # "live"
  /\ Reject(admitted)
  /\ admitted' = None
  /\ UNCHANGED <<socketFrame, offers, flight, alive, publishing, offering, control_changed,
                 route_changed, active_streams>>

\* The stream starts: the request is sent whole.
StartStream ==
  /\ alive /\ admitted # None
  /\ route[admitted.route] = "live"
  /\ active' = [active EXCEPT ![admitted.slot] = admitted.job]
  /\ active_streams' = active_streams + 1
  /\ admitted' = None
  /\ UNCHANGED <<socketFrame, generation, claimed, offers, flight, alive, publishing,
                 offering, control_changed, route_changed, finished>>

\* Mutated form of EndStream: the slot is not published again.
EndUnpublished(s) ==
  /\ Selecting
  /\ active[s] # None
  /\ finished' = finished \cup {active[s]}
  /\ Reset(s)
  /\ active_streams' = active_streams - 1
  /\ UNCHANGED <<socketFrame, publishing, offers, flight, alive, offering, admitted,
                 control_changed, route_changed>>

\* Mutated form of EndStream: session.active_streams is decremented twice.
EndCountedTwice(s) ==
  /\ Selecting
  /\ active[s] # None
  /\ finished' = finished \cup {active[s]}
  /\ Reset(s)
  /\ active_streams' = active_streams - 2
  /\ publishing' = {s}
  /\ UNCHANGED <<socketFrame, offers, flight, alive, offering, admitted, control_changed,
                 route_changed>>

\* A stream ends (response end, error, cancellation, a body nobody reads, or a request
\* body that cannot be encoded) and its slot is published again.
EndStream(s) ==
  /\ Selecting
  /\ active[s] # None
  /\ finished' = finished \cup {active[s]}
  /\ Reset(s)
  /\ active_streams' = active_streams - 1
  /\ publishing' = {s}
  /\ UNCHANGED <<socketFrame, offers, flight, alive, offering, admitted, control_changed,
                 route_changed>>

\* The socket task ends: the streams it lists and the assignments on the way fail.
Lose(streams) ==
  /\ ConnectionFails
  /\ alive' = FALSE
  /\ finished' = finished \cup {active[s] : s \in ActiveSlots} \cup {a.job : a \in flight}
                          \cup (IF admitted = None THEN {} ELSE {admitted.job})
  /\ active' = [s \in Slots |-> None]
  /\ flight' = {} /\ publishing' = {} /\ offering' = NotOffering /\ admitted' = None
  /\ active_streams' = active_streams - streams
  /\ UNCHANGED <<socketFrame, generation, claimed, offers, control_changed, route_changed>>

\* Closed, silent or shut down: every listed stream is taken off active_streams.
SocketLost == Selecting /\ Lose(Cardinality(ActiveSlots))

\* The request cannot be sent: the stream is counted, but not listed yet.
SendFailed ==
  /\ alive /\ admitted # None
  /\ route[admitted.route] = "live"
  /\ Lose(Cardinality(ActiveSlots) - 1)

-----------------------------------------------------------------------------
DispatcherStep(p) ==
  \/ Sweep(p) \/ \E j \in Jobs : Pick(p, j)
  \/ Claim(p) \/ Recheck(p) \/ Abandon(p) \/ Release(p) \/ Assign(p)

SocketStep ==
  \/ PublishSlot \/ PublishOffer \/ ControlChanged \/ RouteChanged
  \/ \E a \in flight : Receive(a)
  \/ RejectRoute \/ StartStream

ControlStep ==
  \/ DetachControl \/ AttachControl
  \/ \E r \in RouteIds : RegisterRoute(r) \/ UnregisterRoute(r)

Next ==
  \/ \E j \in Jobs : Enqueue(j) \/ GiveUp(j)
  \/ \E p \in Pools : DispatcherStep(p)
  \/ SocketStep
  \/ \E s \in Slots : EndStream(s)
  \/ SocketLost \/ SendFailed
  \/ ControlStep

Spec == Init /\ [][Next]_vars

\* The tasks run, and a stream whose request was given up ends: the task that watches
\* `cancelled' tells the socket task, whose select! is random and starves no branch.
\* A device that answers nothing may keep any other stream.
Fairness ==
  /\ \A p \in Pools : WF_vars(DispatcherStep(p))
  /\ WF_vars(SocketStep)
  /\ SF_vars(\E a \in flight : Receive(a))
  /\ \A s \in Slots : SF_vars(EndStream(s) /\ active[s] \in given_up)

FairSpec == Spec /\ Fairness

-----------------------------------------------------------------------------
(* Properties                                                              *)

\* Where job j is.
Places(j) ==
  {<<"queue", p>> : p \in {p \in Pools : j \in queue[p]}}
    \cup {<<"dispatcher", p>> : p \in {p \in Pools : dispatcher[p].job = j}}
    \cup {<<"flight", a>> : a \in {a \in flight : a.job = j}}
    \cup {<<"admitted", j>> : a \in {a \in {admitted} \ {None} : a.job = j}}
    \cup {<<"active", s>> : s \in {s \in Slots : active[s] = j}}
    \cup {<<"finished", j>> : x \in finished \cap {j}}

\* A request that was sent to a pool is in exactly one place until it is answered or
\* dropped, whatever claims fail, controls detach and routes and sockets go: it is
\* never lost, and never runs on two streams (dispatch_requests, the assignment relay,
\* run_split_data_socket).
JobConservation ==
  \A j \in Jobs : Cardinality(Places(j)) = IF j \in entered THEN 1 ELSE 0

\* Who has a claim on slot s that nobody else may have: a dispatcher whose try_claim
\* succeeded, an assignment on the way, or a stream.
Holders(s) ==
  {<<"dispatcher", p>> : p \in {p \in Pools : /\ dispatcher[p].pc \in {"owned", "releasing"}
                                              /\ dispatcher[p].offer.slot = s}}
    \cup {<<"flight", a>> : a \in {a \in flight : a.slot = s}}
    \cup {<<"admitted", s>> : a \in {a \in {admitted} \ {None} : a.slot = s}}
    \cup {<<"active", s>> : x \in ActiveSlots \cap {s}}

\* While control has stayed attached, a slot offered to many dispatchers has one taker at
\* a time, and the taker's slot stays claimed (try_claim, release, reset_multiplex_slot):
\* no assignment finds its slot busy.
ExclusiveClaim ==
  \A s \in Slots : alive /\ detaches = 0 => /\ Cardinality(Holders(s)) <= 1
                                            /\ Holders(s) # {} => claimed[s]

\* A request that is given up leaves its queue, its assignment or its stream: abandoned
\* capacity is released (retain, Cancel).
GivenUpFinishes == \A j \in Jobs : j \in given_up ~> j \in finished

Offered(s, p) == \E i \in DOMAIN offers[p] : offers[p][i].slot = s /\ Current(offers[p][i])

Attended(s) ==
  \/ s \in publishing \/ offering.slot = s \/ route_changed \/ control_changed
  \/ \E p \in Pools : dispatcher[p] # Idle /\ dispatcher[p].offer.slot = s
  \/ Holders(s) # {}

\* The session never lost its control socket and had one route only, which was there when
\* the data socket opened: one that is registered while the socket first publishes its
\* slots makes it publish them twice.
SingleRoute ==
  detaches = 0 /\ \E r \in RegisteredFirst : \A q \in RouteIds \ {r} : route[q] = "new"

\* No capacity is lost with a single route: a slot nobody holds and nobody is about to
\* publish is offered to the route's dispatcher, however its streams and requests ended
\* (reset_multiplex_slot, publish_split_slot).
FreeSlotOffered ==
  \A s \in Slots, r \in RouteIds :
    alive /\ SingleRoute /\ route[r] = "live" /\ ~ Attended(s) => Offered(s, RoutePool[r])

\* Stream and control cancellation release unusable or abandoned capacity
\* (docs/builtin-wss-tunnel.md): a claim nobody holds any more is not left behind.
ClaimHasHolder ==
  \A s \in Slots : alive /\ claimed[s] /\ ~ control_changed =>
    \/ Holders(s) # {}
    \/ \E p \in Pools : dispatcher[p].pc = "swapped" /\ dispatcher[p].offer.slot = s

-----------------------------------------------------------------------------
(* What JobDelivery promises, read off the queues, the assignments and the *)
(* streams                                                                 *)

WaitingJobs == (UNION {queue[p] : p \in Pools}) \cup ({dispatcher[p].job : p \in Pools} \ {None})
HandedJobs == {a.job : a \in flight \cup ({admitted} \ {None})}

Delivery == INSTANCE JobDelivery WITH
  Runners <- Slots, waiting <- WaitingJobs, handed <- HandedJobs, running <- active,
  over <- finished

\* A job is assigned at most once: failed claims put it back, but once it was sent to the
\* data socket it is never queued again, its stream takes no slot from another stream, and
\* it is over once (dispatch_requests, run_split_data_socket).
DeliverySpec == Delivery!Spec
=============================================================================
