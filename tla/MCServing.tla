----------------------------- MODULE MCServing -----------------------------
(* Four parts that serve requests and commands and share no state, side by *)
(* side for TLC: the first choice is the part that runs; the others keep   *)
(* their first state.                                                      *)
(*   hub: three commands for two routes, two losses and a refusal;         *)
(*   runtime: three overlapping commands for one service;                  *)
(*   exec: a command, the same or another one, and a kill, with one slot;  *)
(*   queue: four requests for the two slots of the execution lane, and one *)
(*     of the control lane, which never finds its lane full but uses the   *)
(*     same Notify.                                                        *)
EXTENDS ClientHub, RuntimeSupervisor, ExecSession, PendingQueue, TLC

CONSTANTS c1, c2, c3, e1, e2, e3, r1, r2, r3, r4, r5, control, execution

MostlyExecutionOf == [r \in Requests |-> IF r = r1 THEN control ELSE execution]
MostlyExecutionLimit == (control :> {1}) @@ (execution :> {2})

VARIABLE part

RtOpsOf(a, b, c) == c1 :> a @@ c2 :> b @@ c3 :> c

MCInit ==
  /\ part \in {"hub", "runtime", "exec", "queue"}
  /\ HubInit
  /\ rtOp \in IF part = "runtime"
                THEN {RtOpsOf("start", b, c) : b \in {"start", "restart"}, c \in {"stop", "restart"}}
                ELSE {RtOpsOf("stop", "stop", "stop")}
  /\ RtInit
  /\ exKind \in {e1 :> "run" @@ e2 :> k @@ e3 :> "kill" :
                   k \in IF part = "exec" THEN {"run", "other"} ELSE {"run"}}
  /\ exAuto \in IF part = "exec" THEN BOOLEAN ELSE {TRUE}
  /\ ExInit
  /\ Init

MCNext ==
  /\ UNCHANGED part
  /\ IF part = "hub" THEN HubNext ELSE UNCHANGED hubVars
  /\ IF part = "runtime" THEN RtNext ELSE UNCHANGED rtVars
  /\ IF part = "exec" THEN ExNext ELSE UNCHANGED exVars
  /\ IF part = "queue" THEN Next ELSE UNCHANGED vars

\* The fairness of each part, where it runs: the other ones have no step to take.
MCSpec ==
  /\ MCInit /\ [][MCNext]_<<part, hubVars, rtVars, exVars, vars>>
  /\ WF_hubVars(part = "hub" /\ HubClient)
  /\ WF_hubVars(part = "hub" /\ HubServerRegister)
  /\ WF_hubVars(part = "hub" /\ HubServerUnregister)
  /\ \A c \in RtCommands :
       /\ WF_rtVars(part = "runtime" /\ RtStep(c))
       /\ WF_rtVars(part = "runtime" /\ RtUnbind(c))
  /\ WF_exVars(part = "exec" /\ ExGoesOn)
  /\ \A r \in Requests : WF_vars(part = "queue" /\ Progress(r))
=============================================================================
