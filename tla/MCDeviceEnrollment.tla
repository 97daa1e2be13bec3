------------------------- MODULE MCDeviceEnrollment -------------------------
(* Instances of DeviceEnrollment for TLC.                                  *)
EXTENDS DeviceEnrollment, TLC

CONSTANTS e1, e2, e3, d1, d2, k1, k2, A, B, mcp, actions, n1

\* The first two codes are for client A (one service each), the third for client B.
CodeClientDef == [c \in Codes |-> IF c = e3 THEN B ELSE A]
CodeServicesDef == [c \in Codes |-> IF c = e2 THEN {actions} \cap Services ELSE {mcp}]
=============================================================================
