---------------------------- MODULE MCWorkerJobs ----------------------------
(* Work handed to workers, two parts that share no state, side by side for *)
(* TLC: the first choice is the part that runs, the other one keeps its    *)
(* first state.                                                            *)
(*   proxy: two executions compete for the worker the reserve leaves them, *)
(*     or an execution meets a control request that may be repeated;       *)
(*   jobs: two managed jobs of a lock group, or a job and its repetition.  *)
EXTENDS ProxyRequest, DurableSession, TLC

CONSTANTS w1, w2, qC, qX, qY, d1, d2

LanesDef == {"control", "execution"}
LaneDef == [r \in Requests |-> IF r = qC THEN "control" ELSE "execution"]
PendingLimitDef == [l \in Lanes |-> IF l = "execution" THEN 2 ELSE 1]
QueueCapacityDef == [l \in Lanes |-> 1]

VARIABLES
  part,
  sent  \* the requests the callers send

MCInit ==
  /\ part \in {"proxy", "jobs"}
  /\ sent \in IF part = "proxy" THEN {{qX, qY}, {qX, qC}} ELSE {{}}
  /\ Init
  /\ dsGrouped \in IF part = "jobs" THEN BOOLEAN ELSE {FALSE}
  /\ dsOp = d1 :> d1 @@ d2 :> IF dsGrouped THEN d2 ELSE d1
  /\ DsInit

MCNext ==
  /\ UNCHANGED <<part, sent>>
  /\ IF part = "proxy" THEN Next /\ \A r \in Requests \ sent : phase'[r] = "new"
                       ELSE UNCHANGED vars
  /\ IF part = "jobs" THEN DsNext ELSE UNCHANGED dsVars

\* Fairness and DsFairness, each where its part runs: the other one has no step to take.
MCSpec ==
  /\ MCInit /\ [][MCNext]_<<part, sent, vars, dsVars>>
  /\ WF_vars(part = "proxy" /\ \E r \in Requests : Progress(r) \/ Deadline(r))
  /\ WF_vars(part = "proxy" /\ \E w \in Workers : WorkerTask(w))
  /\ WF_dsVars(part = "jobs" /\ DsGoesOn)
=============================================================================
