---------------------------- MODULE DeviceAccess ----------------------------
(***************************************************************************)
(* What the device registry promises: a device gets access only by         *)
(* spending an enrollment code that was issued and that nobody spent       *)
(* before, each code adds its routes to what the device may serve, and a   *)
(* revocation takes everything away at once.  Nothing else changes who may *)
(* serve what: neither caches, restarts, retries nor the deletion of old   *)
(* records.                                                                *)
(***************************************************************************)
CONSTANTS Codes, Devices, PublicKeys, CodeRoutes, NoAccess

VARIABLES
  issued,     \* codes that were ever created
  available,  \* codes that can still be spent
  access      \* access[d]: NoAccess, or the device's key and the routes it may serve

vars == <<issued, available, access>>

Init == issued = {} /\ available = {} /\ access = [d \in Devices |-> NoAccess]

Issue(c) ==
  /\ c \notin issued
  /\ issued' = issued \cup {c}
  /\ available' = available \cup {c}
  /\ UNCHANGED access

\* Codes that were not spent in time.
Lapse ==
  /\ available' \subseteq available
  /\ UNCHANGED <<issued, access>>

\* A device proves its key by the one it enrolled; enrolling again adds routes.
Enroll(c, d, k) ==
  /\ c \in available
  /\ available' = available \ {c}
  /\ \/ /\ access[d] = NoAccess
        /\ access' = [access EXCEPT ![d] = [key |-> k, routes |-> CodeRoutes[c]]]
     \/ /\ access[d] # NoAccess /\ access[d].key = k
        /\ access' = [access EXCEPT ![d] =
                        [key |-> k, routes |-> access[d].routes \cup CodeRoutes[c]]]
  /\ UNCHANGED issued

Revoke(d) ==
  /\ access' = [access EXCEPT ![d] = NoAccess]
  /\ UNCHANGED <<issued, available>>

Next ==
  \/ \E c \in Codes : Issue(c)
  \/ Lapse
  \/ \E c \in Codes, d \in Devices, k \in PublicKeys : Enroll(c, d, k)
  \/ \E d \in Devices : Revoke(d)

Spec == Init /\ [][Next]_vars
=============================================================================
