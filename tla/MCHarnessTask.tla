--------------------------- MODULE MCHarnessTask ---------------------------
(* Two starts of a task in one scope and two calls of other tools, which   *)
(* look the task up without the Task lock.                                 *)
EXTENDS HarnessTask, TLC

CONSTANTS h1, h2, h3, h4, t1, t2, None

MCInit == htOp = h1 :> "start" @@ h2 :> "start" @@ h3 :> "tracked" @@ h4 :> "tracked" /\ HtInit

MCSpec == MCInit /\ [][HtNext]_htVars
=============================================================================
