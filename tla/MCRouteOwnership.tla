-------------------------- MODULE MCRouteOwnership --------------------------
(* Instances of RouteOwnership for TLC.                                    *)
EXTENDS RouteOwnership, TLC

CONSTANTS A, B, k1, p1, p2, p3, w1, w2, sA, sB, c1, c2, dA1, dA2, dB1, q1, dA3

\* B connects workers, A a split session.
WorkerDeviceDef == [w \in Workers |-> B]
WorkerKeyDef == [w \in Workers |-> k1]
SessionDeviceDef == [s \in Sessions |-> IF s = sA THEN A ELSE B]
ConnSessionDef == [d \in Conns |-> IF d = dB1 THEN sB ELSE sA]

(* The first choice is the scenario.  "takeover": one control and one data socket of A, *)
(* the workers of B and a request; "session": all control and data sockets of A's       *)
(* session, which nobody else competes with.                                            *)
VARIABLE scenario

MCInit == scenario \in {"takeover", "session"} /\ Init

MCNext ==
  /\ Next /\ UNCHANGED scenario
  /\ scenario = "takeover" => /\ \A c \in Controls \ {c1} : control'[c] = NoControl
                              /\ \A d \in Conns \ {dA1} : conn'[d] = NoConn
  /\ scenario = "session" => UNCHANGED <<worker, request>>

MCSpec == MCInit /\ [][MCNext]_<<scenario, vars>>

PoolSymmetry == Permutations(Pools)
=============================================================================
