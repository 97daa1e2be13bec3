-------------------------- MODULE MCDurableSession --------------------------
(* Two managed jobs of one lock group, with operations of their own.       *)
EXTENDS DurableSession

MCInit ==
  /\ dsGrouped = TRUE /\ dsOp = [j \in DsJobs |-> j]
  /\ DsInit

MCSpec == MCInit /\ [][DsNext]_dsVars /\ DsFairness
=============================================================================
