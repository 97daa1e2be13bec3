--------------------------- MODULE MCStreamSlots ---------------------------
(* Instances for TLC: the first choice is the scenario.                    *)
(* "shared": routes come and go and two requests use two pools while the   *)
(* control socket stays; "control": it is lost and rebinds; "session": the *)
(* split session both belong to, with two control and two data sockets,    *)
(* where its slots rest.  The variables of the session begin with own_.    *)
EXTENDS StreamSlots, TLC

CONSTANTS s1, pA, pB, rA, rB, rA2, jA, jB

\* Two routes of pool pA, one after the other, and one of pool pB.
RoutePoolDef == [r \in RouteIds |-> IF r = rB THEN pB ELSE pA]
JobPoolDef == [j \in Jobs |-> IF j = jB /\ pB \in Pools THEN pB ELSE pA]

VARIABLES
  scenario,
  own_owner, own_current, own_fresh, own_active_workers, own_worker, own_registered,
  own_created, own_attached, own_generation, own_timers, own_routes, own_active_data,
  own_control, own_conn, own_request

ownVars == <<own_owner, own_current, own_fresh, own_active_workers, own_worker,
             own_registered, own_created, own_attached, own_generation, own_timers,
             own_routes, own_active_data, own_control, own_conn, own_request>>

Own == INSTANCE RouteOwnership WITH
  Devices <- {"device"}, Keys <- {"key"}, Pools <- {"pool"},
  Workers <- {}, WorkerDevice <- << >>, WorkerKey <- << >>,
  Sessions <- {"session"}, SessionDevice <- [s \in {"session"} |-> "device"],
  Controls <- {"c1", "c2"},
  Conns <- {"d1", "d2"}, ConnSession <- [d \in {"d1", "d2"} |-> "session"],
  Requests <- {}, MaxConnections <- 1, MaxGeneration <- 3, Word <- 8,
  owner <- own_owner, current <- own_current, fresh <- own_fresh,
  active_workers <- own_active_workers, worker <- own_worker,
  registered <- own_registered, created <- own_created, attached <- own_attached,
  generation <- own_generation, timers <- own_timers, routes <- own_routes,
  active_data <- own_active_data, control <- own_control, conn <- own_conn,
  request <- own_request

MCInit == scenario \in {"shared", "control", "session"} /\ Init /\ Own!Init

MCNext ==
  /\ UNCHANGED scenario
  /\ IF scenario = "session" THEN Own!Next /\ UNCHANGED vars ELSE Next /\ UNCHANGED ownVars
  /\ scenario = "shared" => detaches' = 0
  /\ scenario = "control" => \A r \in RouteIds : route'[r] # "gone" /\ (r = rA2 => route'[r] = "new")

InSlots == scenario # "session"

\* Fairness and Own!SessionFairness, the former where the slots do not rest.
MCSpec ==
  /\ MCInit /\ [][MCNext]_<<scenario, vars, ownVars>>
  /\ \A p \in Pools : WF_vars(InSlots /\ DispatcherStep(p))
  /\ WF_vars(InSlots /\ SocketStep)
  /\ SF_vars(InSlots /\ \E a \in flight : Receive(a))
  /\ \A s \in Slots : SF_vars(EndStream(s) /\ active[s] \in given_up)
  /\ Own!SessionFairness

\* A session without a control socket is taken over or removed (schedule_split_session_cleanup).
DetachedIsResolved == Own!DetachedIsResolved
=============================================================================
