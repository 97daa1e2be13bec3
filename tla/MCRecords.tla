----------------------------- MODULE MCRecords -----------------------------
(* Four parts that keep records in files or tables, side by side for TLC;  *)
(* the first choice is the part that runs, the others keep their first     *)
(* state.                                                                  *)
(*   server: the registry of the tunnel server, two devices, no CLI;       *)
(*   cli: another registry, one device and three codes, with devices       *)
(*     revoke in a process of its own; its variables begin with cli_;      *)
(*   patch: two files and every file tool, with up to two foreign changes; *)
(*   harness: four calls for two tasks of one scope.                       *)
EXTENDS MCDeviceEnrollment, PatchTransaction, HarnessTask

CONSTANTS f1, f2, h1, h2, h3, h4, t1, t2

VARIABLES
  part,
  cli_code, cli_code_age, cli_spent_by, cli_row, cli_grants, cli_cache, cli_job, cli_up,
  cli_crashes, cli_connection, cli_revoked_for_good, cli_retry_refused

cliVars == <<cli_code, cli_code_age, cli_spent_by, cli_row, cli_grants, cli_cache, cli_job,
             cli_up, cli_crashes, cli_connection, cli_revoked_for_good, cli_retry_refused>>

CliCodes == {e1, e2, e3}

Cli == INSTANCE DeviceEnrollment WITH
  Codes <- CliCodes, Devices <- {d1}, PublicKeys <- {k1}, CliRevokes <- TRUE,
  CodeClient <- [c \in CliCodes |-> IF c = e3 THEN B ELSE A],
  CodeServices <- [c \in CliCodes |-> IF c = e2 THEN {actions} ELSE {mcp}],
  code <- cli_code, code_age <- cli_code_age, spent_by <- cli_spent_by, row <- cli_row,
  grants <- cli_grants, cache <- cli_cache, job <- cli_job, up <- cli_up,
  crashes <- cli_crashes, connection <- cli_connection,
  revoked_for_good <- cli_revoked_for_good, retry_refused <- cli_retry_refused

HtOpsOf(a, b, c, d) == h1 :> a @@ h2 :> b @@ h3 :> c @@ h4 :> d

MCInit ==
  /\ part \in {"server", "cli", "patch", "harness"}
  /\ Init /\ Cli!Init
  /\ patchKind \in IF part = "patch" THEN PatchKinds ELSE {"patch"}
  /\ patchOp \in IF part = "patch" THEN [PatchFiles -> PatchOps] ELSE {[f \in PatchFiles |-> "edit"]}
  /\ PatchInit
  /\ htOp \in IF part = "harness"
                THEN {HtOpsOf("start", a, "move", b) :
                        a \in {"start", "move"}, b \in {"start", "move", "update", "tracked"}}
                ELSE {HtOpsOf("start", "start", "start", "start")}
  /\ HtInit

MCNext ==
  /\ UNCHANGED part
  /\ IF part = "server" THEN Next ELSE UNCHANGED vars
  /\ IF part = "cli" THEN Cli!Next ELSE UNCHANGED cliVars
  /\ IF part = "patch" THEN PatchNext ELSE UNCHANGED patchVars
  /\ IF part = "harness" THEN HtNext ELSE UNCHANGED htVars

MCSpec == MCInit /\ [][MCNext]_<<part, vars, cliVars, patchVars, htVars>>

\* Whoever revoked a device, the server itself before a crash or the CLI behind its back,
\* the cache a restart loads holds it revoked or not at all (load_devices).
CliRestartRefuses == Cli!RestartRefuses
=============================================================================
