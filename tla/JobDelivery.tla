---------------------------- MODULE JobDelivery ----------------------------
(***************************************************************************)
(* What the tunnel promises for a job, which is one attempt at a public    *)
(* request: it is sent once, handed to a runner (a worker or a stream      *)
(* slot) at most once, and over at most once.  A job that was handed over  *)
(* is never offered to anybody else, whatever becomes of its runner; a     *)
(* runner has one job at a time and no job is taken from it by another;    *)
(* and a job leaves the tunnel only by being over, so that none is lost.   *)
(***************************************************************************)
CONSTANTS Jobs, Runners, None

VARIABLES
  waiting,  \* jobs that were sent to a pool and not handed over
  handed,   \* jobs on their way to a runner
  running,  \* running[w]: the job of runner w, or None
  over      \* jobs that were answered, failed or dropped

vars == <<waiting, handed, running, over>>

Run == {running[w] : w \in Runners} \ {None}

Init ==
  /\ waiting = {} /\ handed = {} /\ over = {}
  /\ running = [w \in Runners |-> None]

Send(j) ==
  /\ j \notin waiting \cup handed \cup Run \cup over
  /\ waiting' = waiting \cup {j}
  /\ UNCHANGED <<handed, running, over>>

Hand(j) ==
  /\ j \in waiting
  /\ waiting' = waiting \ {j}
  /\ handed' = handed \cup {j}
  /\ UNCHANGED <<running, over>>

Start(j, w) ==
  /\ j \in handed
  /\ running[w] = None
  /\ handed' = handed \ {j}
  /\ running' = [running EXCEPT ![w] = j]
  /\ UNCHANGED <<waiting, over>>

\* One job, or all that an abandoned queue or a lost connection has.
End(J) ==
  /\ J \subseteq waiting \cup handed \cup Run
  /\ waiting' = waiting \ J
  /\ handed' = handed \ J
  /\ running' = [w \in Runners |-> IF running[w] \in J THEN None ELSE running[w]]
  /\ over' = over \cup J

Next ==
  \/ \E J \in SUBSET Jobs : End(J)
  \/ \E j \in Jobs : Send(j) \/ Hand(j)
  \/ \E j \in Jobs, w \in Runners : Start(j, w)

Spec == Init /\ [][Next]_vars
=============================================================================
