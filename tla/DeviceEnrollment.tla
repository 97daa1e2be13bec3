-------------------------- MODULE DeviceEnrollment --------------------------
(***************************************************************************)
(* The device registry of the tunnel server (device_auth.rs): enrollment   *)
(* codes, devices and route grants in SQLite, the cache that connections   *)
(* are verified against, and the connections themselves.                   *)
(*                                                                         *)
(* One writer thread runs the database jobs one after the other, but the   *)
(* cache is read without it, so a job's commit and its cache write are     *)
(* separate steps, and so are the two DELETE statements of a removal that  *)
(* has no transaction.  The process may crash between any two steps; a     *)
(* restart runs initialize_schema and loads the cache.  The CLI opens the  *)
(* same file in a process of its own.                                      *)
(*                                                                         *)
(* Time is the age of a code: valid, expired, or past the retention period *)
(* after which create_enrollment and enroll purge it.  Signatures hold     *)
(* exactly for the key the device was enrolled with.  Names, timestamps    *)
(* and the last-seen column are left out.                                  *)
(***************************************************************************)
EXTENDS Naturals, FiniteSets

CONSTANTS
  Codes, CodeClient, CodeServices,  \* codes and the client and services each grants
  Devices, PublicKeys, Clients, Services,
  Connections,
  MaxCrashes,                       \* bound on crashes of the server
  CliRevokes,                       \* whether devices are revoked through the CLI
  None

Routes == Clients \X Services

\* A row of the devices table.
Row == [key : PublicKeys, client : Clients, services : SUBSET Services, revoked : BOOLEAN]

ASSUME EnrollmentAssumption ==
  /\ CodeClient \in [Codes -> Clients] /\ CodeServices \in [Codes -> SUBSET Services]
  /\ MaxCrashes \in Nat /\ CliRevokes \in BOOLEAN
  /\ None \notin Row \cup [key : PublicKeys, routes : SUBSET Routes]

VARIABLES
  code,       \* code[c]: "none", "unused", "used" or "purged"
  code_age,   \* code_age[c]: "valid", "expired" or "stale"
  spent_by,   \* spent_by[c]: enrolled_device_id of a used code, and the key it came with
  row,        \* row[d]: the devices table
  grants,     \* grants[d]: the device_route_grants table
  cache,      \* the DeviceRegistry's map
  job,        \* what the writer thread still has to do after its last commit
  up, crashes,
  connection, \* connection[n]: program point, device, key and route of a connection
  revoked_for_good, \* devices whose revocation was reported and that never enrolled since
  retry_refused     \* codes whose retry by the enrolled device was refused

databaseVars == <<code, spent_by, row, grants>>
vars == <<databaseVars, code_age, cache, job, up, crashes, connection, revoked_for_good,
          retry_refused>>

\* insert_route_grants
CodeRoutes == [c \in Codes |-> {CodeClient[c]} \X CodeServices[c]]

NoJob == [kind |-> "none", devices |-> {}, row |-> None]
NoConnection == [pc |-> "none", device |-> None, key |-> None, route |-> None]
JobState ==
  {NoJob} \cup [kind : {"cache"}, devices : SUBSET Devices, row : Row]
          \cup [kind : {"revoke", "delete", "uncache"}, devices : SUBSET Devices, row : {None}]
ConnectionState ==
  {NoConnection}
    \cup [pc : {"proved", "open"}, device : Devices, key : PublicKeys, route : {None}]
    \cup [pc : {"asking", "serving"}, device : Devices, key : PublicKeys, route : Routes]

TypeOK ==
  /\ code \in [Codes -> {"none", "unused", "used", "purged"}]
  /\ code_age \in [Codes -> {"valid", "expired", "stale"}]
  /\ spent_by \in [Codes -> {None} \cup (Devices \X PublicKeys)]
  /\ row \in [Devices -> Row \cup {None}]
  /\ grants \in [Devices -> SUBSET Routes]
  /\ cache \in [Devices -> Row \cup {None}]
  /\ job \in JobState
  /\ up \in BOOLEAN /\ crashes \in Nat
  /\ connection \in [Connections -> ConnectionState]
  /\ revoked_for_good \subseteq Devices
  /\ retry_refused \subseteq Codes

Init ==
  /\ code = [c \in Codes |-> "none"]
  /\ code_age = [c \in Codes |-> "valid"]
  /\ spent_by = [c \in Codes |-> None]
  /\ row = [d \in Devices |-> None] /\ grants = [d \in Devices |-> {}]
  /\ cache = [d \in Devices |-> None]
  /\ job = NoJob /\ up = TRUE /\ crashes = 0
  /\ connection = [n \in Connections |-> NoConnection]
  /\ revoked_for_good = {} /\ retry_refused = {}

Active(d) == row[d] # None /\ ~ row[d].revoked
Revoked == {d \in Devices : row[d] # None /\ row[d].revoked}
RowRoutes(d) == {row[d].client} \X row[d].services

-----------------------------------------------------------------------------
(* Database jobs                                                           *)

jobFrame == <<code_age, up, crashes, connection>>
Ready == up /\ job = NoJob

\* purge_stale_enrollments
Stale == {c \in Codes : code_age[c] = "stale" /\ code[c] \in {"unused", "used"}}
Purged == [c \in Codes |-> IF c \in Stale THEN "purged" ELSE code[c]]

\* A code ages until it is past the retention period.
Age(c) ==
  /\ code[c] \in {"unused", "used"} /\ code_age[c] # "stale"
  /\ code_age' = [code_age EXCEPT ![c] = IF @ = "valid" THEN "expired" ELSE "stale"]
  /\ UNCHANGED <<databaseVars, cache, job, up, crashes, connection, revoked_for_good,
                 retry_refused>>

CreateEnrollment(c) ==
  /\ Ready /\ code[c] = "none"
  /\ code' = [Purged EXCEPT ![c] = "unused"]
  /\ code_age' = [code_age EXCEPT ![c] = "valid"]
  /\ UNCHANGED <<up, crashes, connection, spent_by, row, grants, cache, job, revoked_for_good, retry_refused>>

\* The id is free, or its key signs the request.
MayEnroll(d, k) == row[d] # None => row[d].key = k

\* Mutated form of Enroll: a reactivated device keeps the grants it had.
EnrollKeepsGrants(c, d, k) ==
  /\ Ready /\ code[c] = "unused" /\ code_age[c] = "valid"
  /\ MayEnroll(d, k)
  /\ LET r == [key |-> k, client |-> CodeClient[c], services |-> CodeServices[c],
               revoked |-> FALSE] IN
     /\ row' = [row EXCEPT ![d] = r]
     /\ grants' = [grants EXCEPT ![d] = @ \cup CodeRoutes[c]]
     /\ job' = [kind |-> "cache", devices |-> {d}, row |-> r]
  /\ code' = [Purged EXCEPT ![c] = "used"]
  /\ spent_by' = [spent_by EXCEPT ![c] = <<d, k>>]
  /\ revoked_for_good' = revoked_for_good \ {d}
  /\ UNCHANGED <<jobFrame, cache, retry_refused>>

\* enroll_blocking's transaction: the code is spent, the device is inserted, updated or
\* reactivated, and its grants follow.  A revoked device keeps none of its old ones.
Enroll(c, d, k) ==
  /\ Ready /\ code[c] = "unused" /\ code_age[c] = "valid"
  /\ MayEnroll(d, k)
  /\ LET r == [key |-> k, client |-> CodeClient[c], services |-> CodeServices[c],
               revoked |-> FALSE] IN
     /\ row' = [row EXCEPT ![d] = r]
     /\ grants' = [grants EXCEPT ![d] =
                     (IF d \in Revoked THEN {} ELSE @) \cup CodeRoutes[c]]
     /\ job' = [kind |-> "cache", devices |-> {d}, row |-> r]
  /\ code' = [Purged EXCEPT ![c] = "used"]
  /\ spent_by' = [spent_by EXCEPT ![c] = <<d, k>>]
  /\ revoked_for_good' = revoked_for_good \ {d}
  /\ UNCHANGED <<jobFrame, cache, retry_refused>>

\* The device that spent a code sends it again: its response was lost, or it crashed.
\* The answer is the original one if the code and the device are still there.
EnrollAgain(c) ==
  /\ Ready /\ code[c] = "used"
  /\ code' = Purged
  /\ LET d == spent_by[c][1]
         enrolled == Active(d) /\ row[d].key = spent_by[c][2]
         refused == row[d] = None \/ row[d].client # CodeClient[c] IN
     retry_refused' = IF c \notin Stale /\ enrolled /\ refused THEN retry_refused \cup {c}
                                                            ELSE retry_refused
  /\ UNCHANGED <<jobFrame, spent_by, row, grants, cache, job, revoked_for_good>>

\* An unknown, expired or foreign code, or an id of another key: only the purge remains.
EnrollRefused ==
  /\ Ready /\ Stale # {}
  /\ code' = Purged
  /\ UNCHANGED <<jobFrame, spent_by, row, grants, cache, job, revoked_for_good, retry_refused>>

\* Mutated form of Revoke: the cache is not told.
RevokeUncached(d) ==
  /\ Ready /\ Active(d)
  /\ row' = [row EXCEPT ![d].revoked = TRUE]
  /\ revoked_for_good' = revoked_for_good \cup {d}
  /\ UNCHANGED <<jobFrame, code, spent_by, grants, cache, job, retry_refused>>

\* revoke_device: the row ...
Revoke(d) ==
  /\ Ready /\ Active(d)
  /\ row' = [row EXCEPT ![d].revoked = TRUE]
  /\ job' = [kind |-> "revoke", devices |-> {d}, row |-> None]
  /\ UNCHANGED <<jobFrame, code, spent_by, grants, cache, revoked_for_good, retry_refused>>

\* ... then the cache, then the caller is told.
RevokeCached ==
  /\ up /\ job.kind = "revoke"
  /\ cache' = [d \in Devices |-> IF d \in job.devices /\ cache[d] # None
                                   THEN [cache[d] EXCEPT !.revoked = TRUE] ELSE cache[d]]
  /\ revoked_for_good' = revoked_for_good \cup job.devices
  /\ job' = NoJob
  /\ UNCHANGED <<jobFrame, databaseVars, retry_refused>>

\* Mutated form of Delete: the rows go, the grants are left.
DeleteAnyRow(D) ==
  /\ Ready /\ D # {} /\ D \subseteq Revoked
  /\ row' = [d \in Devices |-> IF d \in D THEN None ELSE row[d]]
  /\ job' = [kind |-> "uncache", devices |-> D, row |-> None]
  /\ UNCHANGED <<jobFrame, code, spent_by, grants, cache, revoked_for_good, retry_refused>>

\* delete_revoked_device and purge_revoked_devices: the grants of one, or of all the
\* revoked devices ...
Delete(D) ==
  /\ Ready /\ D # {} /\ D \subseteq Revoked
  /\ D # Revoked => Cardinality(D) = 1
  /\ grants' = [d \in Devices |-> IF d \in D THEN {} ELSE grants[d]]
  /\ job' = [kind |-> "delete", devices |-> D, row |-> None]
  /\ UNCHANGED <<jobFrame, code, spent_by, row, cache, revoked_for_good, retry_refused>>

\* ... their rows ...
DeleteRows ==
  /\ up /\ job.kind = "delete"
  /\ row' = [d \in Devices |-> IF d \in job.devices THEN None ELSE row[d]]
  /\ job' = [kind |-> "uncache", devices |-> job.devices, row |-> None]
  /\ UNCHANGED <<jobFrame, code, spent_by, grants, cache, revoked_for_good, retry_refused>>

\* ... and their cache entries.
Uncache ==
  /\ up /\ job.kind = "uncache"
  /\ cache' = [d \in Devices |-> IF d \in job.devices THEN None ELSE cache[d]]
  /\ job' = NoJob
  /\ UNCHANGED <<jobFrame, databaseVars, revoked_for_good, retry_refused>>

\* enroll_blocking's cache write.
CacheDevice ==
  /\ up /\ job.kind = "cache"
  /\ cache' = [d \in Devices |-> IF d \in job.devices THEN job.row ELSE cache[d]]
  /\ job' = NoJob
  /\ UNCHANGED <<jobFrame, databaseVars, revoked_for_good, retry_refused>>

\* devices revoke, in a process of its own: the server is not told.  Opening the
\* registry runs initialize_schema.
SchemaGrants == [d \in Devices |-> IF row[d] = None THEN grants[d]
                                                    ELSE grants[d] \cup RowRoutes(d)]

CliRevoke(d) ==
  /\ CliRevokes /\ Active(d)
  /\ row' = [row EXCEPT ![d].revoked = TRUE]
  /\ grants' = SchemaGrants
  /\ revoked_for_good' = revoked_for_good \cup {d}
  /\ UNCHANGED <<jobFrame, code, spent_by, cache, job, retry_refused>>

-----------------------------------------------------------------------------
(* Crash and restart                                                       *)

Crash ==
  /\ up /\ crashes < MaxCrashes
  /\ up' = FALSE /\ crashes' = crashes + 1
  /\ job' = NoJob
  /\ cache' = [d \in Devices |-> None]
  /\ connection' = [n \in Connections |-> NoConnection]
  /\ UNCHANGED <<databaseVars, code_age, revoked_for_good, retry_refused>>

\* Mutated form of Restart: the revocations are not loaded.
RestartUnrevoked ==
  /\ ~ up
  /\ up' = TRUE
  /\ grants' = SchemaGrants
  /\ cache' = [d \in Devices |-> IF row[d] = None THEN None ELSE [row[d] EXCEPT !.revoked = FALSE]]
  /\ UNCHANGED <<code, spent_by, row, code_age, job, crashes, connection, revoked_for_good,
                 retry_refused>>

\* initialize_schema grants every device what its row allows; load_devices.
Restart ==
  /\ ~ up
  /\ up' = TRUE
  /\ grants' = SchemaGrants
  /\ cache' = row
  /\ UNCHANGED <<code, spent_by, row, code_age, job, crashes, connection, revoked_for_good,
                 retry_refused>>

-----------------------------------------------------------------------------
(* Connections                                                             *)

connectionFrame == <<databaseVars, code_age, cache, job, up, crashes, revoked_for_good,
                     retry_refused>>

\* verify_split_session_cached: the cache entry is cloned, its revocation and the
\* signature are checked ...
Prove(n, d, k) ==
  /\ up /\ connection[n] = NoConnection
  /\ cache[d] # None /\ ~ cache[d].revoked /\ cache[d].key = k
  /\ connection' = [connection EXCEPT ![n] = [pc |-> "proved", device |-> d, key |-> k,
                                              route |-> None]]
  /\ UNCHANGED connectionFrame

\* Mutated form of Admit: record_last_seen does not look at the revocation.
AdmitAnyway(n) ==
  /\ connection[n].pc = "proved"
  /\ LET d == connection[n].device IN
       connection' = [connection EXCEPT ![n] =
         IF cache[d] # None THEN [@ EXCEPT !.pc = "open"] ELSE NoConnection]
  /\ UNCHANGED connectionFrame

\* ... and record_last_seen looks the device up again.
Admit(n) ==
  /\ connection[n].pc = "proved"
  /\ LET d == connection[n].device IN
       connection' = [connection EXCEPT ![n] =
         IF cache[d] # None /\ ~ cache[d].revoked THEN [@ EXCEPT !.pc = "open"]
                                                  ELSE NoConnection]
  /\ UNCHANGED connectionFrame

\* route_allowed: the revocation in the cache ...
AskRoute(n, r) ==
  /\ connection[n].pc = "open"
  /\ LET d == connection[n].device IN cache[d] # None /\ ~ cache[d].revoked
  /\ connection' = [connection EXCEPT ![n] = [@ EXCEPT !.pc = "asking", !.route = r]]
  /\ UNCHANGED connectionFrame

\* ... then the grant in the database.
GrantRoute(n) ==
  /\ connection[n].pc = "asking" /\ job = NoJob
  /\ connection' = [connection EXCEPT ![n] =
       IF @.route \in grants[@.device] THEN [@ EXCEPT !.pc = "serving"]
                                       ELSE [@ EXCEPT !.pc = "open", !.route = None]]
  /\ UNCHANGED connectionFrame

Disconnect(n) ==
  /\ connection[n] # NoConnection
  /\ connection' = [connection EXCEPT ![n] = NoConnection]
  /\ UNCHANGED connectionFrame

-----------------------------------------------------------------------------
EnrollmentStep ==
  \E c \in Codes :
    \/ Age(c) \/ CreateEnrollment(c) \/ EnrollAgain(c)
    \/ \E d \in Devices, k \in PublicKeys : Enroll(c, d, k)

RemovalStep ==
  \/ \E d \in Devices : Revoke(d) \/ CliRevoke(d)
  \/ \E D \in SUBSET Devices : Delete(D)
  \/ DeleteRows

CacheStep == CacheDevice \/ RevokeCached \/ Uncache \/ Crash

ConnectionStep ==
  \E n \in Connections :
    \/ \E d \in Devices, k \in PublicKeys : Prove(n, d, k)
    \/ \E r \in Routes : AskRoute(n, r)
    \/ Admit(n) \/ GrantRoute(n) \/ Disconnect(n)

Next ==
  EnrollmentStep \/ EnrollRefused \/ RemovalStep \/ CacheStep \/ Restart \/ ConnectionStep

Spec == Init /\ [][Next]_vars

-----------------------------------------------------------------------------
(* Properties                                                              *)

\* Whenever the writer thread has finished a job, the cache that connections are
\* verified against is the devices table, whatever crashed before (enroll_blocking,
\* revoke_device, delete_revoked_device, load_devices).
CacheIsTable == up /\ job = NoJob => cache = row

\* No connection is authenticated once a revocation of its device was reported, unless
\* the device spent a new code (revoke_device against verify and record_last_seen).
RevokedIsRefused ==
  [][\A n \in Connections :
       connection[n].pc = "proved" /\ connection'[n].pc = "open"
         => connection[n].device \notin revoked_for_good]_vars

\* Whoever revoked a device, the server itself before a crash or the CLI behind its back,
\* the cache a restart loads holds it revoked or not at all (load_devices).
RestartRefuses ==
  [][up' /\ ~ up => \A d \in revoked_for_good : cache'[d] # None => cache'[d].revoked]_vars

\* No grants outlive their device, and an active device has those of its row: a restart
\* gives nobody anything (initialize_schema).
GrantsFollowRows ==
  \A d \in Devices :
    /\ row[d] = None => grants[d] = {}
    /\ Active(d) => RowRoutes(d) \subseteq grants[d]

\* Between a commit and its cache write the cache is the table but for the job's devices;
\* a removal has taken the grants of revoked devices only; and a reported revocation is
\* in the table and in the cache, with no cache write pending that would undo it.
CacheAfterJob(d) ==
  IF d \notin job.devices \/ job.kind = "delete" THEN cache[d]
  ELSE CASE job.kind = "cache" -> job.row
         [] job.kind = "revoke" -> [cache[d] EXCEPT !.revoked = TRUE]
         [] OTHER -> None

RegistryInv ==
  /\ ~ up => job = NoJob
  /\ up => \A d \in Devices : row[d] = CacheAfterJob(d)
  /\ job.kind = "revoke" => \A d \in job.devices : cache[d] # None
  /\ job.kind = "delete" => \A d \in job.devices : d \in Revoked /\ grants[d] = {}
  /\ \A d \in revoked_for_good :
       ~ Active(d) /\ (cache[d] # None => cache[d].revoked)

\* What the registry promises, read off the tables.
Access == INSTANCE DeviceAccess WITH
  issued <- {c \in Codes : code[c] # "none"},
  available <- {c \in Codes : code[c] = "unused" /\ code_age[c] = "valid"},
  access <- [d \in Devices |-> IF Active(d) THEN [key |-> row[d].key, routes |-> grants[d]]
                                            ELSE None],
  NoAccess <- None

\* Codes are spent once, a revocation takes every route, nothing but a fresh code gives
\* one back, through crashes, restarts, retries and half-finished deletions.
AccessSpec == Access!Spec

\* An interrupted enrollment response is safely retryable
\* (docs/builtin-wss-tunnel.md): the device that spent a code gets its answer again.
RetryIsAnswered == retry_refused = {}
=============================================================================
