----------------------- MODULE DeviceEnrollmentProofs -----------------------
(***************************************************************************)
(* Theorems about the device registry, for any number of codes, devices,   *)
(* keys, routes and connections and any number of crashes, when devices    *)
(* are revoked through the server itself (not CliRevokes): with the CLI    *)
(* RevocationHolds is false, as the run of RevokedIsRefused shows.  Only   *)
(* RestartHolds allows it.                                                 *)
(*                                                                         *)
(* The inductive invariant is GrantsFollowRows /\ RegistryInv: what the    *)
(* tables and the cache look like in the middle of a job, where a crash or *)
(* a connection may find them.                                             *)
(***************************************************************************)
EXTENDS DeviceEnrollment, TLAPS

OpenStates == [pc : {"proved", "open"}, device : Devices, key : PublicKeys, route : {None}]
RouteStates == [pc : {"asking", "serving"}, device : Devices, key : PublicKeys,
                route : Routes]

\* The routes of a code and of a row are routes.
LEMMA CodeRoutesType == \A c \in Codes : CodeRoutes[c] \in SUBSET Routes
BY EnrollmentAssumption DEF CodeRoutes, Routes

LEMMA RowRoutesType ==
  ASSUME TypeOK, NEW d \in Devices, row[d] # None
  PROVE  RowRoutes(d) \in SUBSET Routes
BY DEF TypeOK, Row, RowRoutes, Routes

\* The row a code enrolls is a row.
LEMMA EnrolledRow ==
  ASSUME NEW c \in Codes, NEW k \in PublicKeys
  PROVE  [key |-> k, client |-> CodeClient[c], services |-> CodeServices[c],
          revoked |-> FALSE] \in Row
BY EnrollmentAssumption DEF Row

\* Every step preserves the types.
LEMMA TypeStep == TypeOK /\ [Next]_vars => TypeOK'
<1> SUFFICES ASSUME TypeOK, [Next]_vars PROVE TypeOK'
  OBVIOUS
<1>1. Purged \in [Codes -> {"none", "unused", "used", "purged"}]
  BY DEF TypeOK, Purged
<1>2. SchemaGrants \in [Devices -> SUBSET Routes]
  BY RowRoutesType DEF TypeOK, SchemaGrants
<1>3. ASSUME NEW c \in Codes, Age(c) PROVE TypeOK'
  <2>1. code_age' \in [Codes -> {"valid", "expired", "stale"}]
    BY <1>3 DEF TypeOK, Age
  <2> QED  BY <1>3, <2>1 DEF TypeOK, Age, databaseVars
<1>4. ASSUME NEW c \in Codes, CreateEnrollment(c) PROVE TypeOK'
  <2>1. code' \in [Codes -> {"none", "unused", "used", "purged"}]
    BY <1>1, <1>4 DEF CreateEnrollment
  <2>2. code_age' \in [Codes -> {"valid", "expired", "stale"}]
    BY <1>4 DEF TypeOK, CreateEnrollment
  <2> QED  BY <1>4, <2>1, <2>2 DEF TypeOK, CreateEnrollment
<1>5. ASSUME NEW c \in Codes, EnrollAgain(c) PROVE TypeOK'
  <2>1. retry_refused' \subseteq Codes
    BY <1>5 DEF TypeOK, EnrollAgain
  <2> QED  BY <1>1, <1>5, <2>1 DEF TypeOK, EnrollAgain, jobFrame
<1>6. ASSUME NEW c \in Codes, NEW d \in Devices, NEW k \in PublicKeys, Enroll(c, d, k)
      PROVE  TypeOK'
  <2> DEFINE r == [key |-> k, client |-> CodeClient[c], services |-> CodeServices[c],
                   revoked |-> FALSE]
  <2>1. r \in Row
    BY EnrolledRow
  <2>2. row' \in [Devices -> Row \cup {None}]
    BY <1>6, <2>1 DEF TypeOK, Enroll
  <2>3. grants' \in [Devices -> SUBSET Routes]
    BY <1>6, CodeRoutesType DEF TypeOK, Enroll
  <2>4. job' \in JobState
    BY <1>6, <2>1 DEF Enroll, JobState
  <2>5. spent_by' \in [Codes -> {None} \cup (Devices \X PublicKeys)]
    BY <1>6 DEF TypeOK, Enroll
  <2>6. code' \in [Codes -> {"none", "unused", "used", "purged"}]
    BY <1>1, <1>6 DEF Enroll
  <2> QED  BY <1>6, <2>2, <2>3, <2>4, <2>5, <2>6 DEF TypeOK, Enroll, jobFrame
<1>7. CASE EnrollRefused
  BY <1>1, <1>7 DEF TypeOK, EnrollRefused, jobFrame
<1>8. ASSUME NEW d \in Devices, Revoke(d) PROVE TypeOK'
  <2>1. row[d] \in Row
    BY <1>8 DEF TypeOK, Revoke, Active
  <2>2. [row[d] EXCEPT !.revoked = TRUE] \in Row
    BY <2>1 DEF Row
  <2>3. row' \in [Devices -> Row \cup {None}]
    BY <1>8, <2>2 DEF TypeOK, Revoke
  <2>4. job' \in JobState
    BY <1>8 DEF Revoke, JobState
  <2> QED  BY <1>8, <2>3, <2>4 DEF TypeOK, Revoke, jobFrame
<1>9. ASSUME NEW d \in Devices, CliRevoke(d) PROVE TypeOK'
  <2>1. row[d] \in Row
    BY <1>9 DEF TypeOK, CliRevoke, Active
  <2>2. [row[d] EXCEPT !.revoked = TRUE] \in Row
    BY <2>1 DEF Row
  <2>3. row' \in [Devices -> Row \cup {None}]
    BY <1>9, <2>2 DEF TypeOK, CliRevoke
  <2> QED  BY <1>2, <1>9, <2>3 DEF TypeOK, CliRevoke, jobFrame
<1>10. ASSUME NEW D \in SUBSET Devices, Delete(D) PROVE TypeOK'
  BY <1>10 DEF TypeOK, Delete, jobFrame, JobState
<1>11. CASE DeleteRows
  <2>1. job.devices \in SUBSET Devices
    BY <1>11 DEF TypeOK, DeleteRows, JobState, NoJob
  <2> QED  BY <1>11, <2>1 DEF TypeOK, DeleteRows, jobFrame, JobState
<1>12. CASE CacheDevice
  <2>1. job.row \in Row
    BY <1>12 DEF TypeOK, CacheDevice, JobState, NoJob
  <2> QED  BY <1>12, <2>1 DEF TypeOK, CacheDevice, jobFrame, databaseVars, JobState
<1>13. CASE RevokeCached
  <2>1. job.devices \in SUBSET Devices
    BY <1>13 DEF TypeOK, RevokeCached, JobState, NoJob
  <2>2. \A d \in Devices : cache[d] # None => [cache[d] EXCEPT !.revoked = TRUE] \in Row
    BY DEF TypeOK, Row
  <2>3. cache' \in [Devices -> Row \cup {None}]
    BY <1>13, <2>2 DEF TypeOK, RevokeCached
  <2> QED  BY <1>13, <2>1, <2>3 DEF TypeOK, RevokeCached, jobFrame, databaseVars, JobState
<1>14. CASE Uncache
  BY <1>14 DEF TypeOK, Uncache, jobFrame, databaseVars, JobState
<1>15. CASE Crash
  <2>1. crashes' \in Nat /\ up' = FALSE
    BY <1>15 DEF TypeOK, Crash
  <2>2. job' \in JobState /\ connection' \in [Connections -> ConnectionState]
    BY <1>15 DEF Crash, JobState, ConnectionState
  <2>3. cache' \in [Devices -> Row \cup {None}]
    BY <1>15 DEF Crash
  <2> QED  BY <1>15, <2>1, <2>2, <2>3 DEF TypeOK, Crash, databaseVars
<1>16. CASE Restart
  BY <1>2, <1>16 DEF TypeOK, Restart
<1>17. ASSUME ConnectionStep PROVE TypeOK'
  <2> SUFFICES connection' \in [Connections -> ConnectionState] /\ UNCHANGED connectionFrame
    BY DEF TypeOK, connectionFrame, databaseVars
  <2>1. PICK n \in Connections :
          \/ \E d \in Devices, k \in PublicKeys : Prove(n, d, k)
          \/ \E r \in Routes : AskRoute(n, r)
          \/ Admit(n) \/ GrantRoute(n) \/ Disconnect(n)
    BY <1>17 DEF ConnectionStep
  <2>2. ASSUME connection[n].pc \in {"proved", "open"}
        PROVE  /\ connection[n] \in OpenStates
               /\ \A r \in Routes :
                    [connection[n] EXCEPT !.pc = "asking", !.route = r] \in RouteStates
               /\ [connection[n] EXCEPT !.pc = "open"] \in OpenStates
    <3>1. connection[n] \in {NoConnection} \cup OpenStates \cup RouteStates
      BY DEF TypeOK, ConnectionState, OpenStates, RouteStates
    <3>2. connection[n] \in OpenStates
      BY <2>2, <3>1 DEF NoConnection, RouteStates
    <3>3. [connection[n] EXCEPT !.pc = "open"] \in OpenStates
      BY <3>2 DEF OpenStates
    <3>4. ASSUME NEW r \in Routes
          PROVE  [connection[n] EXCEPT !.pc = "asking", !.route = r] \in RouteStates
      BY <3>2 DEF OpenStates, RouteStates
    <3> QED  BY <3>2, <3>3, <3>4
  <2>3. ASSUME connection[n].pc = "asking"
        PROVE  /\ [connection[n] EXCEPT !.pc = "serving"] \in RouteStates
               /\ [connection[n] EXCEPT !.pc = "open", !.route = None] \in OpenStates
    <3>1. connection[n] \in {NoConnection} \cup OpenStates \cup RouteStates
      BY DEF TypeOK, ConnectionState, OpenStates, RouteStates
    <3>2. connection[n] \in RouteStates
      BY <2>3, <3>1 DEF NoConnection, OpenStates
    <3>3. [connection[n] EXCEPT !.pc = "serving"] \in RouteStates
      BY <3>2 DEF RouteStates
    <3>4. [connection[n] EXCEPT !.pc = "open", !.route = None] \in OpenStates
      BY <3>2 DEF OpenStates, RouteStates
    <3> QED  BY <3>3, <3>4
  <2>4. OpenStates \cup RouteStates \cup {NoConnection} = ConnectionState
    BY DEF ConnectionState, OpenStates, RouteStates
  <2>5. ASSUME NEW d \in Devices, NEW k \in PublicKeys, Prove(n, d, k)
        PROVE  connection' \in [Connections -> ConnectionState]
    <3>1. [pc |-> "proved", device |-> d, key |-> k, route |-> None] \in OpenStates
      BY DEF OpenStates
    <3> QED  BY <2>4, <2>5, <3>1 DEF TypeOK, Prove
  <2>6. ASSUME NEW r \in Routes, AskRoute(n, r)
        PROVE  connection' \in [Connections -> ConnectionState]
    BY <2>2, <2>4, <2>6 DEF TypeOK, AskRoute
  <2>7. ASSUME Admit(n) PROVE connection' \in [Connections -> ConnectionState]
    BY <2>2, <2>4, <2>7 DEF TypeOK, Admit
  <2>8. ASSUME GrantRoute(n) PROVE connection' \in [Connections -> ConnectionState]
    BY <2>3, <2>4, <2>8 DEF TypeOK, GrantRoute
  <2>9. ASSUME Disconnect(n) PROVE connection' \in [Connections -> ConnectionState]
    BY <2>4, <2>9 DEF TypeOK, Disconnect
  <2> QED
    BY <2>1, <2>5, <2>6, <2>7, <2>8, <2>9 DEF Prove, AskRoute, Admit, GrantRoute, Disconnect
<1>18. CASE UNCHANGED vars
  BY <1>18 DEF TypeOK, vars, databaseVars
<1> QED
  BY <1>3, <1>4, <1>5, <1>6, <1>7, <1>8, <1>9, <1>10, <1>11, <1>12, <1>13, <1>14, <1>15,
     <1>16, <1>17, <1>18 DEF Next, EnrollmentStep, RemovalStep, CacheStep

-----------------------------------------------------------------------------
(* The tables, the cache and a job in progress                             *)

Inv == TypeOK /\ GrantsFollowRows /\ RegistryInv

\* Under the invariant initialize_schema gives no active device a route, and no device
\* without a row.
LEMMA SchemaGrantsNothing ==
  ASSUME TypeOK, GrantsFollowRows, NEW d \in Devices
  PROVE  /\ Active(d) => SchemaGrants[d] = grants[d]
         /\ row[d] = None => SchemaGrants[d] = {}
BY DEF GrantsFollowRows, SchemaGrants, Active, TypeOK

\* Every step of the server keeps grants and rows together.
LEMMA GrantsStep ==
  ASSUME Inv, ~ CliRevokes, [Next]_vars
  PROVE  GrantsFollowRows'
<1> USE DEF Inv, Active, RowRoutes, Revoked
<1>1. ASSUME NEW c \in Codes, NEW d \in Devices, NEW k \in PublicKeys, Enroll(c, d, k)
      PROVE  GrantsFollowRows'
  <2> DEFINE r == [key |-> k, client |-> CodeClient[c], services |-> CodeServices[c],
                   revoked |-> FALSE]
  <2>1. r # None /\ {r.client} \X r.services = CodeRoutes[c]
    <3>1. r \in Row
      BY EnrolledRow
    <3> QED  BY <3>1, EnrollmentAssumption DEF CodeRoutes, Row
  <2>2. row' = [row EXCEPT ![d] = r] /\ CodeRoutes[c] \subseteq grants'[d]
    BY <1>1 DEF Enroll, TypeOK
  <2>3. \A x \in Devices \ {d} : row'[x] = row[x] /\ grants'[x] = grants[x]
    BY <1>1 DEF Enroll, TypeOK
  <2>4. row'[d] = r
    BY <2>2 DEF TypeOK
  <2> HIDE DEF r
  <2> QED  BY <2>1, <2>2, <2>3, <2>4 DEF GrantsFollowRows
<1>2. ASSUME NEW d \in Devices, Revoke(d) PROVE GrantsFollowRows'
  <2>1. row'[d] # None /\ row'[d].revoked
    <3>1. row[d] \in Row /\ row' = [row EXCEPT ![d] = [row[d] EXCEPT !.revoked = TRUE]]
      BY <1>2 DEF Revoke, TypeOK
    <3>2. [row[d] EXCEPT !.revoked = TRUE] \in Row /\ [row[d] EXCEPT !.revoked = TRUE].revoked
      BY <3>1 DEF Row
    <3> QED  BY <3>1, <3>2, EnrollmentAssumption DEF TypeOK
  <2>2. \A x \in Devices \ {d} : row'[x] = row[x]
    BY <1>2 DEF Revoke, TypeOK
  <2> QED  BY <1>2, <2>1, <2>2 DEF Revoke, GrantsFollowRows
<1>3. ASSUME NEW D \in SUBSET Devices, Delete(D) PROVE GrantsFollowRows'
  BY <1>3 DEF Delete, GrantsFollowRows
<1>4. CASE DeleteRows
  BY <1>4 DEF DeleteRows, GrantsFollowRows, RegistryInv
<1>5. CASE Restart
  BY <1>5, SchemaGrantsNothing DEF Restart, GrantsFollowRows
<1>6. ASSUME UNCHANGED <<row, grants>> PROVE GrantsFollowRows'
  BY <1>6 DEF GrantsFollowRows
<1>7. ASSUME NEW c \in Codes, Age(c) \/ CreateEnrollment(c) \/ EnrollAgain(c)
      PROVE  GrantsFollowRows'
  BY <1>6, <1>7 DEF Age, CreateEnrollment, EnrollAgain, jobFrame, databaseVars
<1>8. CASE CacheStep
  BY <1>6, <1>8 DEF CacheStep, CacheDevice, RevokeCached, Uncache, Crash, databaseVars
<1>9. CASE ConnectionStep
  BY <1>6, <1>9
  DEF ConnectionStep, Prove, AskRoute, Admit, GrantRoute, Disconnect, connectionFrame,
      databaseVars
<1>10. CASE EnrollRefused \/ UNCHANGED vars
  BY <1>6, <1>10 DEF EnrollRefused, vars, databaseVars
<1> QED
  BY <1>1, <1>2, <1>3, <1>4, <1>5, <1>7, <1>8, <1>9, <1>10
  DEF Next, EnrollmentStep, RemovalStep, CliRevoke

\* Every step of the server keeps the cache and the table apart by its job only.
LEMMA RegistryStep ==
  ASSUME Inv, ~ CliRevokes, [Next]_vars
  PROVE  RegistryInv'
<1> USE DEF Inv, Active, Revoked, CacheAfterJob
<1>1. ASSUME NEW c \in Codes, NEW d \in Devices, NEW k \in PublicKeys, Enroll(c, d, k)
      PROVE  RegistryInv'
  <2> DEFINE r == [key |-> k, client |-> CodeClient[c], services |-> CodeServices[c],
                   revoked |-> FALSE]
  <2>1. job' = [kind |-> "cache", devices |-> {d}, row |-> r] /\ up' = up /\ up
    BY <1>1 DEF Enroll, jobFrame, Ready
  <2>2. row'[d] = r /\ \A x \in Devices \ {d} : row'[x] = row[x]
    BY <1>1 DEF Enroll, TypeOK
  <2>3. cache' = cache /\ revoked_for_good' = revoked_for_good \ {d}
    BY <1>1 DEF Enroll
  <2>4. \A x \in Devices : row[x] = cache[x]
    BY <1>1 DEF Enroll, Ready, NoJob, RegistryInv
  <2> QED  BY <2>1, <2>2, <2>3, <2>4 DEF RegistryInv, TypeOK
<1>2. ASSUME NEW d \in Devices, Revoke(d) PROVE RegistryInv'
  <2>1. job' = [kind |-> "revoke", devices |-> {d}, row |-> None] /\ up' = up /\ up
    BY <1>2 DEF Revoke, jobFrame, Ready
  <2>2. /\ row'[d] = [row[d] EXCEPT !.revoked = TRUE]
        /\ row'[d] \in Row /\ row'[d] # None /\ row'[d].revoked
        /\ \A x \in Devices \ {d} : row'[x] = row[x]
    <3>1. row[d] \in Row /\ row' = [row EXCEPT ![d] = [row[d] EXCEPT !.revoked = TRUE]]
      BY <1>2 DEF Revoke, TypeOK
    <3>2. [row[d] EXCEPT !.revoked = TRUE] \in Row /\ [row[d] EXCEPT !.revoked = TRUE].revoked
      BY <3>1 DEF Row
    <3> QED  BY <3>1, <3>2, EnrollmentAssumption DEF TypeOK
  <2>3. cache' = cache /\ revoked_for_good' = revoked_for_good
    BY <1>2 DEF Revoke
  <2>4. (\A x \in Devices : row[x] = cache[x]) /\ row[d] # None
    BY <1>2 DEF Revoke, Ready, NoJob, RegistryInv
  <2>5. ASSUME NEW x \in Devices PROVE row'[x] = CacheAfterJob(x)'
    BY <2>1, <2>2, <2>3, <2>4
  <2>6. cache'[d] # None
    BY <2>2, <2>3, <2>4, EnrollmentAssumption DEF TypeOK
  <2>7. ASSUME NEW x \in Devices, x \in revoked_for_good'
        PROVE  ~ Active(x)' /\ (cache'[x] # None => cache'[x].revoked)
    <3>1. ~ Active(x) /\ (cache[x] # None => cache[x].revoked)
      BY <2>3, <2>7 DEF RegistryInv
    <3>2. CASE x = d
      BY <2>2, <2>3, <3>1, <3>2
    <3>3. CASE x # d
      BY <2>2, <2>3, <3>1, <3>3
    <3> QED  BY <3>2, <3>3
  <2>8. revoked_for_good' \subseteq Devices
    BY <2>3 DEF TypeOK
  <2> QED  BY <2>1, <2>5, <2>6, <2>7, <2>8 DEF RegistryInv
<1>3. ASSUME NEW D \in SUBSET Devices, Delete(D) PROVE RegistryInv'
  <2>1. job' = [kind |-> "delete", devices |-> D, row |-> None] /\ up' = up /\ up
    BY <1>3 DEF Delete, jobFrame, Ready
  <2>2. \A x \in Devices : row[x] = cache[x]
    BY <1>3 DEF Delete, Ready, NoJob, RegistryInv
  <2>3. UNCHANGED <<row, cache, revoked_for_good>> /\ \A x \in D : grants'[x] = {}
    BY <1>3 DEF Delete
  <2>4. D \subseteq Revoked
    BY <1>3 DEF Delete
  <2> QED  BY <2>1, <2>2, <2>3, <2>4 DEF RegistryInv
<1>4. CASE DeleteRows
  <2>1. job' = [kind |-> "uncache", devices |-> job.devices, row |-> None]
        /\ up' = up /\ up /\ job.kind = "delete"
    BY <1>4 DEF DeleteRows, jobFrame
  <2>2. \A x \in Devices : row'[x] = IF x \in job.devices THEN None ELSE row[x]
    BY <1>4 DEF DeleteRows
  <2>3. UNCHANGED <<cache, revoked_for_good>>
    BY <1>4 DEF DeleteRows
  <2> QED  BY <2>1, <2>2, <2>3 DEF RegistryInv, TypeOK
<1>5. CASE CacheDevice
  <2>1. job' = NoJob /\ up' = up /\ up /\ job.kind = "cache"
        /\ UNCHANGED <<row, revoked_for_good>>
    BY <1>5 DEF CacheDevice, jobFrame, databaseVars
  <2>2. \A x \in Devices : cache'[x] = IF x \in job.devices THEN job.row ELSE cache[x]
    BY <1>5 DEF CacheDevice
  <2>3. \A x \in Devices : row[x] = cache'[x]
    BY <2>1, <2>2 DEF RegistryInv
  <2> QED  BY <2>1, <2>3 DEF RegistryInv, NoJob, TypeOK
<1>6. CASE RevokeCached
  <2>1. job' = NoJob /\ up' = up /\ up /\ job.kind = "revoke" /\ row' = row
        /\ revoked_for_good' = revoked_for_good \cup job.devices
    BY <1>6 DEF RevokeCached, jobFrame, databaseVars
  <2>2. \A x \in Devices : row[x] = cache'[x]
    BY <1>6, <2>1 DEF RevokeCached, RegistryInv
  <2>3. \A x \in job.devices \cap Devices : cache'[x] # None => cache'[x].revoked
    BY <1>6 DEF RevokeCached, TypeOK, Row
  <2>4. job.devices \subseteq Devices
    BY <2>1 DEF TypeOK, JobState, NoJob
  <2> QED  BY <2>1, <2>2, <2>3, <2>4 DEF RegistryInv, NoJob, TypeOK
<1>7. CASE Uncache
  <2>1. job' = NoJob /\ up' = up /\ up /\ job.kind = "uncache"
        /\ UNCHANGED <<row, revoked_for_good>>
    BY <1>7 DEF Uncache, jobFrame, databaseVars
  <2>2. \A x \in Devices : cache'[x] = IF x \in job.devices THEN None ELSE cache[x]
    BY <1>7 DEF Uncache
  <2>3. \A x \in Devices : row[x] = cache'[x]
    BY <2>1, <2>2 DEF RegistryInv
  <2> QED  BY <2>1, <2>2, <2>3 DEF RegistryInv, NoJob, TypeOK
<1>8. CASE Crash
  <2>1. ~ up' /\ job' = NoJob /\ UNCHANGED <<row, revoked_for_good>>
    BY <1>8 DEF Crash, databaseVars
  <2>2. \A x \in Devices : cache'[x] = None
    BY <1>8 DEF Crash
  <2> QED  BY <2>1, <2>2 DEF RegistryInv, NoJob, TypeOK
<1>9. CASE Restart
  <2>1. UNCHANGED <<row, job, revoked_for_good>> /\ cache' = row /\ job = NoJob
    BY <1>9 DEF Restart, RegistryInv
  <2> QED  BY <2>1 DEF RegistryInv, NoJob, TypeOK
<1>10. ASSUME UNCHANGED <<row, grants, cache, job, up, revoked_for_good>>
       PROVE  RegistryInv'
  BY <1>10 DEF RegistryInv
<1>11. ASSUME NEW c \in Codes, Age(c) \/ CreateEnrollment(c) \/ EnrollAgain(c)
       PROVE  RegistryInv'
  BY <1>10, <1>11 DEF Age, CreateEnrollment, EnrollAgain, jobFrame, databaseVars
<1>12. CASE ConnectionStep
  BY <1>10, <1>12
  DEF ConnectionStep, Prove, AskRoute, Admit, GrantRoute, Disconnect, connectionFrame,
      databaseVars
<1>13. CASE EnrollRefused \/ UNCHANGED vars
  BY <1>10, <1>13 DEF EnrollRefused, vars, jobFrame, databaseVars
<1> QED
  BY <1>1, <1>2, <1>3, <1>4, <1>5, <1>6, <1>7, <1>8, <1>9, <1>11, <1>12, <1>13
  DEF Next, EnrollmentStep, RemovalStep, CacheStep, CliRevoke

LEMMA InvInit == Init => Inv
BY EnrollmentAssumption
DEF Init, Inv, TypeOK, GrantsFollowRows, RegistryInv, CacheAfterJob, Active, Revoked,
    JobState, NoJob, ConnectionState

LEMMA Invariant == ASSUME ~ CliRevokes PROVE Spec => []Inv
<1>1. Inv /\ [Next]_vars => Inv'
  BY TypeStep, GrantsStep, RegistryStep DEF Inv
<1> QED  BY InvInit, <1>1, PTL DEF Spec

\* No grants outlive their device, and an active device has those of its row, through
\* crashes, restarts and half-finished deletions (enroll_blocking, delete_revoked_device,
\* initialize_schema).
THEOREM GrantsKept == ASSUME ~ CliRevokes PROVE Spec => []GrantsFollowRows
<1>1. Inv => GrantsFollowRows
  BY DEF Inv
<1> QED  BY <1>1, Invariant, PTL

\* The cache that connections are verified against is the devices table whenever no job is
\* in progress, and no grants outlive their device: the registry's tables and cache agree
\* through crashes and restarts (enroll_blocking, revoke_device, delete_revoked_device,
\* initialize_schema, load_devices).
THEOREM CacheAgrees ==
  ASSUME ~ CliRevokes
  PROVE  Spec => [](TypeOK /\ GrantsFollowRows /\ CacheIsTable /\ RegistryInv)
<1>1. Inv => CacheIsTable
  <2> SUFFICES ASSUME Inv, up, job = NoJob PROVE cache = row
    BY DEF CacheIsTable
  <2>1. \A d \in Devices : row[d] = cache[d]
    BY DEF Inv, RegistryInv, CacheAfterJob, NoJob
  <2> QED  BY <2>1 DEF Inv, TypeOK
<1> QED  BY Invariant, <1>1, PTL DEF Inv

\* No connection is authenticated once the revocation of its device was reported, unless
\* the device spent a new code (revoke_device, record_last_seen).
THEOREM RevocationHolds == ASSUME ~ CliRevokes PROVE Spec => RevokedIsRefused
<1> DEFINE NoLateAdmission ==
      \A n \in Connections :
        connection[n].pc = "proved" /\ connection'[n].pc = "open"
          => connection[n].device \notin revoked_for_good
<1>1. Inv /\ [Next]_vars => NoLateAdmission
  <2> SUFFICES ASSUME Inv, [Next]_vars, NEW n \in Connections,
                      connection[n].pc = "proved", connection'[n].pc = "open",
                      connection[n].device \in revoked_for_good
               PROVE  FALSE
    OBVIOUS
  <2> DEFINE d == connection[n].device
  <2>1. d \in Devices /\ (cache[d] # None => cache[d].revoked)
    BY DEF Inv, RegistryInv, TypeOK
  <2>2. ASSUME connection' = connection PROVE FALSE
    BY <2>2
  <2>3. ConnectionStep
    BY <2>2
    DEF Next, EnrollmentStep, RemovalStep, CacheStep, Age, CreateEnrollment, EnrollAgain,
        Enroll, EnrollRefused, Revoke, CliRevoke, Delete, DeleteRows, CacheDevice,
        RevokeCached, Uncache, Crash, Restart, jobFrame, vars, NoConnection, Inv, TypeOK
  <2>4. PICK m \in Connections :
          \/ \E x \in Devices, k \in PublicKeys : Prove(m, x, k)
          \/ \E r \in Routes : AskRoute(m, r)
          \/ Admit(m) \/ GrantRoute(m) \/ Disconnect(m)
    BY <2>3 DEF ConnectionStep
  <2>5. m = n
    BY <2>4 DEF Prove, AskRoute, Admit, GrantRoute, Disconnect, Inv, TypeOK
  <2>6. Admit(n)
    <3>1. (\A r \in Routes : ~ AskRoute(n, r)) /\ ~ GrantRoute(n)
      BY DEF AskRoute, GrantRoute
    <3>2. ~ Disconnect(n)
      BY DEF Disconnect, NoConnection, Inv, TypeOK
    <3>3. \A x \in Devices, k \in PublicKeys : ~ Prove(n, x, k)
      BY DEF Prove, NoConnection
    <3> QED  BY <2>4, <2>5, <3>1, <3>2, <3>3
  <2> QED  BY <2>1, <2>6 DEF Admit, NoConnection, Inv, TypeOK
<1> QED  BY Invariant, <1>1, PTL DEF RevokedIsRefused, Spec

-----------------------------------------------------------------------------
(* Refinement                                                              *)

\* Access to a device that is not touched stays what it was.
AccessOf(d) == IF Active(d) THEN [key |-> row[d].key, routes |-> grants[d]] ELSE None

LEMMA AccessStep ==
  ASSUME Inv, ~ CliRevokes, [Next]_vars
  PROVE  [Access!Next]_(Access!vars)
<1> DEFINE issued == {c \in Codes : code[c] # "none"}
           available == {c \in Codes : code[c] = "unused" /\ code_age[c] = "valid"}
           access == [d \in Devices |-> AccessOf(d)]
<1>0. access = [d \in Devices |-> IF Active(d) THEN [key |-> row[d].key, routes |-> grants[d]]
                                              ELSE None]
  BY DEF AccessOf
<1>1. ASSUME issued' = issued, access' = access, available' \subseteq available
      PROVE  Access!Lapse
  BY <1>0, <1>1 DEF Access!Lapse, AccessOf
<1>2. (\A c \in Codes : Purged[c] # code[c] => code[c] # "none" /\ Purged[c] = "purged"
                                               /\ code_age[c] = "stale")
  BY DEF Inv, TypeOK, Purged, Stale
<1>3. ASSUME code' = Purged, UNCHANGED <<code_age, row, grants>> PROVE Access!Lapse
  <2>1. issued' = issued /\ available' = available
    BY <1>2, <1>3 DEF Inv, TypeOK
  <2>2. access' = access
    BY <1>3 DEF AccessOf, Active
  <2> QED  BY <1>1, <2>1, <2>2
<1>4. ASSUME UNCHANGED <<code, code_age, row, grants>> PROVE UNCHANGED Access!vars
  BY <1>4 DEF Access!vars, Active
<1>5. ASSUME NEW c \in Codes, Age(c) PROVE Access!Lapse
  <2>1. UNCHANGED <<code, row, grants>> /\ code_age[c] # "stale"
    BY <1>5 DEF Age, databaseVars
  <2>2. \A x \in Codes : code_age'[x] = "valid" => code_age[x] = "valid"
    BY <1>5 DEF Age, Inv, TypeOK
  <2>3. issued' = issued /\ available' \subseteq available
    BY <2>1, <2>2
  <2>4. access' = access
    BY <2>1 DEF AccessOf, Active
  <2> QED  BY <1>1, <2>3, <2>4
<1>6. ASSUME NEW c \in Codes, CreateEnrollment(c) PROVE Access!Issue(c)
  <2>1. /\ code[c] = "none" /\ code'[c] = "unused" /\ code_age'[c] = "valid"
        /\ \A x \in Codes \ {c} : code'[x] = Purged[x] /\ code_age'[x] = code_age[x]
    BY <1>6 DEF CreateEnrollment, Inv, TypeOK, Purged
  <2>2. issued' = issued \cup {c} /\ c \notin issued
    BY <1>2, <2>1
  <2>3. available' = available \cup {c}
    BY <1>2, <2>1
  <2>4. access' = access
    BY <1>6 DEF CreateEnrollment, AccessOf, Active
  <2> QED  BY <1>0, <2>2, <2>3, <2>4 DEF Access!Issue, AccessOf
<1>7. ASSUME NEW c \in Codes, NEW d \in Devices, NEW k \in PublicKeys, Enroll(c, d, k)
      PROVE  Access!Enroll(c, d, k)
  <2> DEFINE r == [key |-> k, client |-> CodeClient[c], services |-> CodeServices[c],
                   revoked |-> FALSE]
  <2>1. /\ code[c] = "unused" /\ code'[c] = "used" /\ code_age[c] = "valid"
        /\ code_age' = code_age
        /\ \A x \in Codes \ {c} : code'[x] = Purged[x]
    BY <1>7 DEF Enroll, jobFrame, Inv, TypeOK, Purged
  <2>2. issued' = issued
    BY <1>2, <2>1
  <2>3. c \in available /\ available' = available \ {c}
    BY <1>2, <2>1
  <2>4. /\ row'[d] = r /\ r # None
        /\ grants'[d] = (IF d \in Revoked THEN {} ELSE grants[d]) \cup CodeRoutes[c]
        /\ \A x \in Devices \ {d} : row'[x] = row[x] /\ grants'[x] = grants[x]
    BY <1>7, EnrolledRow, EnrollmentAssumption DEF Enroll, Inv, TypeOK
  <2>5. AccessOf(d)' = [key |-> k, routes |-> grants'[d]]
    BY <2>4 DEF AccessOf, Active
  <2>6. \A x \in Devices \ {d} : AccessOf(x)' = AccessOf(x)
    BY <2>4 DEF AccessOf, Active
  <2>7. access' = [access EXCEPT ![d] = [key |-> k, routes |-> grants'[d]]]
    BY <2>5, <2>6
  <2>8. CASE Active(d)
    <3>1. grants'[d] = grants[d] \cup CodeRoutes[c] /\ row[d].key = k
      BY <1>7, <2>4, <2>8 DEF Active, Revoked, Enroll, MayEnroll
    <3>2. access[d] = [key |-> k, routes |-> grants[d]] /\ access[d] # None
      BY <2>8, <3>1, EnrollmentAssumption DEF AccessOf, Inv, TypeOK
    <3> QED  BY <1>0, <2>2, <2>3, <2>7, <3>1, <3>2 DEF Access!Enroll, AccessOf
  <2>9. CASE ~ Active(d)
    <3>1. grants'[d] = CodeRoutes[c]
      BY <2>4, <2>9 DEF Active, Revoked, Inv, GrantsFollowRows
    <3>2. access[d] = None
      BY <2>9 DEF AccessOf
    <3> QED  BY <1>0, <2>2, <2>3, <2>7, <3>1, <3>2 DEF Access!Enroll, AccessOf
  <2> QED  BY <2>8, <2>9
<1>8. ASSUME UNCHANGED <<code, code_age>>, access' = access PROVE UNCHANGED Access!vars
  BY <1>0, <1>8 DEF Access!vars, AccessOf
<1>9. ASSUME NEW d \in Devices, Revoke(d) PROVE Access!Revoke(d)
  <2>1. UNCHANGED <<code, code_age, grants>>
    BY <1>9 DEF Revoke, jobFrame
  <2>2. ~ Active(d)' /\ \A x \in Devices \ {d} : row'[x] = row[x]
    BY <1>9 DEF Revoke, Active, Inv, TypeOK, Row
  <2>3. access' = [access EXCEPT ![d] = None]
    BY <2>1, <2>2 DEF AccessOf, Active
  <2> QED  BY <1>0, <2>1, <2>3 DEF Access!Revoke, AccessOf
<1>10. ASSUME NEW D \in SUBSET Devices, Delete(D) PROVE UNCHANGED Access!vars
  <2>1. UNCHANGED <<code, code_age, row>>
    BY <1>10 DEF Delete, jobFrame
  <2>2. \A x \in Devices : Active(x) => grants'[x] = grants[x]
    BY <1>10 DEF Delete, Active, Revoked, Inv, TypeOK
  <2> QED  BY <1>8, <2>1, <2>2 DEF AccessOf, Active
<1>11. CASE DeleteRows
  <2>1. UNCHANGED <<code, code_age, grants>>
    BY <1>11 DEF DeleteRows, jobFrame
  <2>2. \A x \in Devices : /\ Active(x)' <=> Active(x)
                           /\ Active(x) => row'[x] = row[x]
    BY <1>11 DEF DeleteRows, Active, Revoked, Inv, RegistryInv
  <2> QED  BY <1>8, <2>1, <2>2 DEF AccessOf
<1>12. CASE Restart
  <2>1. UNCHANGED <<code, code_age, row>>
    BY <1>12 DEF Restart
  <2>2. \A x \in Devices : Active(x) => grants'[x] = grants[x]
    BY <1>12, SchemaGrantsNothing DEF Restart, Inv
  <2> QED  BY <1>8, <2>1, <2>2 DEF AccessOf, Active
<1>13. ASSUME NEW c \in Codes, EnrollAgain(c) PROVE Access!Lapse
  BY <1>3, <1>13 DEF EnrollAgain, jobFrame
<1>14. CASE EnrollRefused
  <2>1. code' = Purged /\ UNCHANGED <<code_age, row, grants>>
    BY <1>14 DEF EnrollRefused, jobFrame
  <2> QED  BY <1>3, <2>1 DEF Access!Next
<1>15. CASE CacheStep
  BY <1>4, <1>15 DEF CacheStep, CacheDevice, RevokeCached, Uncache, Crash, jobFrame, databaseVars
<1>16. CASE ConnectionStep
  BY <1>4, <1>16
  DEF ConnectionStep, Prove, AskRoute, Admit, GrantRoute, Disconnect, connectionFrame,
      databaseVars
<1>17. CASE UNCHANGED vars
  BY <1>4, <1>17 DEF vars, databaseVars
<1> QED
  BY <1>5, <1>6, <1>7, <1>9, <1>10, <1>11, <1>12, <1>13, <1>14, <1>15, <1>16, <1>17
  DEF Access!Next, Next, EnrollmentStep, RemovalStep, CliRevoke

\* A device gets access only by spending an issued, unspent code; each code adds its routes
\* to an active device and starts a revoked or deleted one from nothing; a revocation takes
\* everything at once; caches, crashes, restarts, retries and half-finished deletions change
\* nothing (enroll_blocking, revoke_device, delete_revoked_device, initialize_schema).
THEOREM GrantsByCodesOnly == ASSUME ~ CliRevokes PROVE Spec => AccessSpec
<1>1. Init => Access!Init
  BY DEF Init, Access!Init, Active
<1> QED  BY Invariant, AccessStep, <1>1, PTL DEF Spec, AccessSpec, Access!Spec

-----------------------------------------------------------------------------
(* Restarts, with the CLI too                                              *)

\* The row of a device whose revocation was reported, or is being reported, is revoked.
RowsRevoked ==
  \A d \in Devices :
    d \in revoked_for_good \/ (job.kind = "revoke" /\ d \in job.devices)
      => (row[d] # None => row[d].revoked)

\* Every step keeps them revoked, also those of the CLI: no step but an enrollment makes a
\* row active, and an enrollment waits for the job that reports.
LEMMA RowsStep ==
  ASSUME TypeOK, RowsRevoked, [Next]_vars
  PROVE  RowsRevoked'
<1>0. row \in [Devices -> Row \cup {None}] /\ None \notin Row
  BY EnrollmentAssumption DEF TypeOK
<1>1. ASSUME NEW c \in Codes, NEW d \in Devices, NEW k \in PublicKeys, Enroll(c, d, k)
      PROVE  RowsRevoked'
  <2>1. /\ job'.kind = "cache" /\ revoked_for_good' = revoked_for_good \ {d}
        /\ \A x \in Devices \ {d} : row'[x] = row[x]
    BY <1>1, <1>0 DEF Enroll
  <2> QED  BY <2>1 DEF RowsRevoked
<1>2. ASSUME NEW d \in Devices, Revoke(d) \/ CliRevoke(d)
      PROVE  RowsRevoked'
  <2>1. row' = [row EXCEPT ![d] = [row[d] EXCEPT !.revoked = TRUE]]
    BY <1>2 DEF Revoke, CliRevoke
  <2>2. row[d] \in Row
    BY <1>0, <1>2 DEF Revoke, CliRevoke, Active
  <2>3. [row[d] EXCEPT !.revoked = TRUE].revoked
    BY <2>2 DEF Row
  <2>4. row'[d].revoked /\ \A x \in Devices \ {d} : row'[x] = row[x]
    BY <1>0, <2>1, <2>3
  <2>5. \A x \in Devices \ {d} :
          x \in revoked_for_good' \/ (job'.kind = "revoke" /\ x \in job'.devices)
            => x \in revoked_for_good \/ (job.kind = "revoke" /\ x \in job.devices)
    BY <1>2 DEF Revoke, CliRevoke
  <2> QED  BY <2>4, <2>5 DEF RowsRevoked
<1>3. CASE RevokeCached
  BY <1>3 DEF RevokeCached, databaseVars, NoJob, RowsRevoked
<1>4. CASE DeleteRows
  BY <1>4 DEF DeleteRows, RowsRevoked
<1>5. ASSUME row' = row, revoked_for_good' = revoked_for_good,
             job' = job \/ job'.kind # "revoke"
      PROVE  RowsRevoked'
  BY <1>5 DEF RowsRevoked
<1>6. ASSUME NEW D \in SUBSET Devices, Delete(D) PROVE RowsRevoked'
  BY <1>5, <1>6 DEF Delete
<1>7. CASE Restart \/ EnrollRefused \/ UNCHANGED vars
  BY <1>5, <1>7 DEF Restart, EnrollRefused, vars, databaseVars
<1>8. ASSUME NEW c \in Codes, Age(c) \/ CreateEnrollment(c) \/ EnrollAgain(c)
      PROVE  RowsRevoked'
  BY <1>5, <1>8 DEF Age, CreateEnrollment, EnrollAgain, jobFrame, databaseVars
<1>9. CASE CacheDevice \/ Uncache \/ Crash
  BY <1>5, <1>9 DEF CacheDevice, Uncache, Crash, databaseVars, NoJob
<1>10. CASE ConnectionStep
  BY <1>5, <1>10
  DEF ConnectionStep, Prove, AskRoute, Admit, GrantRoute, Disconnect, connectionFrame,
      databaseVars
<1> QED
  BY <1>1, <1>2, <1>3, <1>4, <1>6, <1>7, <1>8, <1>9, <1>10
  DEF Next, EnrollmentStep, RemovalStep, CacheStep

\* Whoever revoked a device, and whatever crashed: a server that restarts loads it revoked
\* or not at all (load_devices).
THEOREM RestartHolds == Spec => RestartRefuses
<1> DEFINE Refuses ==
      up' /\ ~ up => \A d \in revoked_for_good : cache'[d] # None => cache'[d].revoked
<1>1. Init => TypeOK /\ RowsRevoked
  BY InvInit DEF Inv, Init, RowsRevoked, NoJob
<1>2. TypeOK /\ RowsRevoked /\ [Next]_vars => TypeOK' /\ RowsRevoked'
  BY TypeStep, RowsStep
<1>3. TypeOK /\ RowsRevoked /\ [Next]_vars => Refuses
  <2> SUFFICES ASSUME TypeOK, RowsRevoked, [Next]_vars, up', ~ up
               PROVE  \A d \in revoked_for_good : cache'[d] # None => cache'[d].revoked
    OBVIOUS
  <2>1. Restart
    BY DEF Next, vars, EnrollmentStep, Age, CreateEnrollment, EnrollAgain, Enroll, EnrollRefused,
       RemovalStep, Revoke, Delete, DeleteRows, CliRevoke, CacheStep, CacheDevice, RevokeCached,
       Uncache, Crash, ConnectionStep, Prove, AskRoute, Admit, GrantRoute, Disconnect,
       connectionFrame, jobFrame, Ready
  <2> QED  BY <2>1 DEF Restart, RowsRevoked, TypeOK
<1> QED  BY <1>1, <1>2, <1>3, PTL DEF Spec, RestartRefuses

=============================================================================
