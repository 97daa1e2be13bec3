--------------------------- MODULE MCPendingQueue ---------------------------
(* Four requests in two lanes on one Notify, each lane with one slot.      *)
EXTENDS PendingQueue

CONSTANTS r1, r2, r3, r4, control, execution

TwoLaneOf == [r \in Requests |-> IF r \in {r1, r2} THEN control ELSE execution]
TwoLimit == [l \in Lanes |-> {1}]
=============================================================================
