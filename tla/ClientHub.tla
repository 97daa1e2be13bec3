----------------------------- MODULE ClientHub -----------------------------
(***************************************************************************)
(* The desktop's side of a split session: one hub per device and server    *)
(* shares its control socket among the routes of all workspaces.           *)
(* run_worker_pool opens sessions and keeps the routes it must have        *)
(* (desired_routes); run_split_session_pool replays them into a new        *)
(* session, serves add_route and remove_route one after the other, and     *)
(* when the socket fails rebinds to the same session within the server's   *)
(* grace period, or gives up and starts over with a new one.               *)
(*                                                                         *)
(* The other end is run_split_control_socket (RouteOwnership models it in  *)
(* full): here it answers registrations in order, may refuse one, and      *)
(* forgets the session some time after its socket is gone.  Frames travel  *)
(* in order; a loss may take any of those on their way, and the two ends   *)
(* notice it at different times.  Data sockets, policies, heartbeats as    *)
(* such and the fallback to older protocols are left out.                  *)
(***************************************************************************)
EXTENDS Integers, Sequences, FiniteSets

CONSTANTS
  HubServices,     \* (client id, service) pairs: the routes there may be
  HubMaxCommands,  \* how many commands the supervisor gives
  HubMaxLosses,    \* how often the socket fails
  HubMaxRefusals   \* how often the server refuses a registration

ASSUME HubAssumption ==
  /\ IsFiniteSet(HubServices)
  /\ {HubMaxCommands, HubMaxLosses, HubMaxRefusals} \subseteq Nat

VARIABLES
  hubPc,       \* where run_worker_pool and run_split_session_pool are
  hubResume,   \* where a rebind goes on
  hubCommand,  \* the command in the channel or in work
  hubRoute,    \* the route that is being replayed or registered
  hubDesired,  \* desired_routes
  hubTable,    \* routes: the id of each route, 0 without one
  hubUp,       \* the control socket
  hubOut, hubIn, \* frames on their way to the server and back
  hubSession,  \* the server's session: "attached", "detached" or "none"
  hubServed,   \* its routes: the id of each, 0 without one
  hubNextId,   \* next_route_id
  hubAsked, hubLosses, hubRefusals

hubClient == <<hubPc, hubResume, hubCommand, hubRoute, hubDesired, hubTable>>
hubNet == <<hubUp, hubOut, hubIn>>
hubServer == <<hubSession, hubServed, hubNextId>>
hubBounds == <<hubAsked, hubLosses, hubRefusals>>
hubVars == <<hubClient, hubNet, hubServer, hubBounds>>

HubNoCommand == [op |-> "none"]
HubCommands == {HubNoCommand} \cup [op : {"add", "remove"}, route : HubServices]
HubFrames == [type : {"register"}, route : HubServices] \cup [type : {"unregister"}, id : Nat]
HubAnswers == [type : {"registered"}, id : Nat] \cup [type : {"error"}]

HubTypeOK ==
  /\ hubPc \in {"down", "connect", "replay", "replaying", "run", "register", "registering",
                "unregister", "rebind"}
  /\ hubResume \in {"run", "register", "unregister"}
  /\ hubCommand \in HubCommands /\ hubRoute \in HubServices
  /\ hubDesired \subseteq HubServices /\ hubTable \in [HubServices -> Nat]
  /\ hubUp \in BOOLEAN /\ hubOut \in Seq(HubFrames) /\ hubIn \in Seq(HubAnswers)
  /\ hubSession \in {"attached", "detached", "none"}
  /\ hubServed \in [HubServices -> Nat] /\ hubNextId \in Nat

HubNoRoutes == [s \in HubServices |-> 0]
HubRoutes(table) == {s \in HubServices : table[s] # 0}

HubInit ==
  /\ hubPc = "down" /\ hubResume = "run"
  /\ hubCommand = HubNoCommand /\ hubRoute = CHOOSE s \in HubServices : TRUE
  /\ hubDesired = {} /\ hubTable = HubNoRoutes
  /\ hubUp = FALSE /\ hubOut = <<>> /\ hubIn = <<>>
  /\ hubSession = "none" /\ hubServed = HubNoRoutes /\ hubNextId = 1
  /\ hubAsked = 0 /\ hubLosses = 0 /\ hubRefusals = 0

-----------------------------------------------------------------------------
(* Commands                                                                *)

\* TunnelSupervisor asks for a route or gives one back; the first one spawns the hub.
HubAsk(op, s) ==
  /\ hubCommand = HubNoCommand /\ hubAsked < HubMaxCommands
  /\ hubAsked' = hubAsked + 1
  /\ IF hubPc = "down"
       THEN /\ op = "add"
            /\ hubPc' = "connect" /\ hubDesired' = {s} /\ UNCHANGED hubCommand
       ELSE /\ hubCommand' = [op |-> op, route |-> s] /\ UNCHANGED <<hubPc, hubDesired>>
  /\ UNCHANGED <<hubResume, hubRoute, hubTable, hubNet, hubServer, hubLosses, hubRefusals>>

\* Closes the hub's end of the socket.
HubHangUp == hubUp' = FALSE /\ hubOut' = <<>> /\ hubIn' = <<>>

\* remove_route is answered with the routes that remain; without any the
\* supervisor stops the hub.
HubRemoved(table) ==
  /\ hubCommand' = HubNoCommand
  /\ hubTable' = table
  /\ hubPc' = IF HubRoutes(table) = {} THEN "down" ELSE "run"

HubTakeAdd ==
  /\ hubPc = "run" /\ hubCommand.op = "add"
  /\ LET s == hubCommand.route IN
       IF s \in HubRoutes(hubTable)
         THEN hubCommand' = HubNoCommand /\ UNCHANGED <<hubPc, hubRoute, hubDesired>>
         ELSE /\ hubDesired' = hubDesired \cup {s}
              /\ hubRoute' = s
              /\ hubPc' = "register"
              /\ UNCHANGED hubCommand
  /\ UNCHANGED <<hubResume, hubTable, hubNet, hubServer, hubBounds>>

\* Mutated form of HubTakeRemove: what is to be replayed is not forgotten.
HubTakeRemoveKeeps ==
  /\ hubPc = "run" /\ hubCommand.op = "remove"
  /\ IF hubCommand.route \in HubRoutes(hubTable)
       THEN hubPc' = "unregister" /\ UNCHANGED <<hubCommand, hubTable, hubNet>>
       ELSE HubRemoved(hubTable) /\ UNCHANGED hubNet
  /\ UNCHANGED <<hubResume, hubRoute, hubDesired, hubServer, hubBounds>>

HubTakeRemove ==
  /\ hubPc = "run" /\ hubCommand.op = "remove"
  /\ hubDesired' = hubDesired \ {hubCommand.route}
  /\ IF hubCommand.route \in HubRoutes(hubTable)
       THEN hubPc' = "unregister" /\ UNCHANGED <<hubCommand, hubTable, hubNet>>
       ELSE /\ HubRemoved(hubTable)
            /\ IF hubPc' = "down" THEN HubHangUp ELSE UNCHANGED hubNet
  /\ UNCHANGED <<hubResume, hubRoute, hubServer, hubBounds>>

\* RouteUnregister is not answered: sent is enough.
HubUnregister ==
  /\ hubPc = "unregister" /\ hubUp
  /\ HubRemoved([hubTable EXCEPT ![hubCommand.route] = 0])
  /\ IF hubPc' = "down" THEN HubHangUp
     ELSE /\ hubOut' = Append(hubOut, [type |-> "unregister", id |-> hubTable[hubCommand.route]])
          /\ UNCHANGED <<hubUp, hubIn>>
  /\ UNCHANGED <<hubResume, hubRoute, hubDesired, hubServer, hubBounds>>

-----------------------------------------------------------------------------
(* Sessions                                                                *)

\* A new session; what the old one still serves ends with it.  Without desired
\* routes the pool returns, and a command finds its channel closed.
HubConnect ==
  /\ hubPc = "connect"
  /\ hubTable' = HubNoRoutes /\ hubServed' = HubNoRoutes /\ hubNextId' = 1
  /\ hubOut' = <<>> /\ hubIn' = <<>>
  /\ IF hubDesired = {}
       THEN /\ hubPc' = "down" /\ hubUp' = FALSE /\ hubSession' = "none"
            /\ hubCommand' = HubNoCommand
       ELSE /\ hubPc' = "replay" /\ hubUp' = TRUE /\ hubSession' = "attached"
            /\ UNCHANGED hubCommand
  /\ UNCHANGED <<hubResume, hubRoute, hubDesired, hubBounds>>

HubSendRegister(s, next) ==
  /\ hubUp
  /\ hubOut' = Append(hubOut, [type |-> "register", route |-> s])
  /\ hubRoute' = s
  /\ hubPc' = next
  /\ UNCHANGED <<hubResume, hubCommand, hubDesired, hubTable, hubUp, hubIn, hubServer, hubBounds>>

\* The bootstrap route and then the others.
HubReplay(s) ==
  /\ hubPc = "replay" /\ s \in hubDesired \ HubRoutes(hubTable)
  /\ HubSendRegister(s, "replaying")

HubReplayed ==
  /\ hubPc = "replay" /\ hubDesired \subseteq HubRoutes(hubTable)
  /\ hubPc' = "run"
  /\ UNCHANGED <<hubResume, hubCommand, hubRoute, hubDesired, hubTable, hubNet, hubServer, hubBounds>>

HubRegister == hubPc = "register" /\ HubSendRegister(hubCommand.route, "registering")

HubRegistered ==
  /\ hubPc \in {"replaying", "registering"} /\ hubIn # <<>> /\ Head(hubIn).type = "registered"
  /\ hubTable' = [hubTable EXCEPT ![hubRoute] = Head(hubIn).id]
  /\ hubIn' = Tail(hubIn)
  /\ hubPc' = IF hubPc = "replaying" THEN "replay" ELSE "run"
  /\ hubCommand' = IF hubPc = "registering" THEN HubNoCommand ELSE hubCommand
  /\ UNCHANGED <<hubResume, hubRoute, hubDesired, hubUp, hubOut, hubServer, hubBounds>>

\* A refused command is answered with the error; a refused replay ends the session
\* and the hub starts over, with all its routes.
HubRefused ==
  /\ hubPc \in {"replaying", "registering"} /\ hubIn # <<>> /\ Head(hubIn).type = "error"
  /\ IF hubPc = "replaying"
       THEN hubPc' = "connect" /\ HubHangUp /\ UNCHANGED <<hubCommand, hubDesired>>
       ELSE /\ hubPc' = "run" /\ hubIn' = Tail(hubIn)
            /\ hubCommand' = HubNoCommand
            /\ hubDesired' = hubDesired \ {hubRoute}
            /\ UNCHANGED <<hubUp, hubOut>>
  /\ UNCHANGED <<hubResume, hubRoute, hubTable, hubServer, hubBounds>>

\* A send, a read or a heartbeat fails: while replaying the session is given up,
\* else the hub rebinds and repeats what it was sending.
HubNotices ==
  /\ ~ hubUp /\ hubPc \in {"replay", "replaying", "run", "register", "registering", "unregister"}
  /\ IF hubPc \in {"replay", "replaying"}
       THEN hubPc' = "connect" /\ UNCHANGED hubResume
       ELSE /\ hubPc' = "rebind"
            /\ hubResume' = IF hubPc = "registering" THEN "register" ELSE hubPc
  /\ HubHangUp
  /\ UNCHANGED <<hubCommand, hubRoute, hubDesired, hubTable, hubServer, hubBounds>>

\* Mutated form of HubRebind: a new session is taken for the old one.
HubRebindAnew ==
  /\ hubPc = "rebind" /\ hubSession # "attached"
  /\ hubSession' = "attached" /\ hubUp' = TRUE
  /\ hubPc' = hubResume
  /\ UNCHANGED <<hubResume, hubCommand, hubRoute, hubDesired, hubTable, hubOut, hubIn,
                 hubServed, hubNextId, hubBounds>>

\* reconnect_split_control_during_grace: the server has noticed the loss and still
\* has the session.
HubRebind ==
  /\ hubPc = "rebind" /\ hubSession = "detached"
  /\ hubSession' = "attached" /\ hubUp' = TRUE
  /\ hubPc' = hubResume
  /\ UNCHANGED <<hubResume, hubCommand, hubRoute, hubDesired, hubTable, hubOut, hubIn,
                 hubServed, hubNextId, hubBounds>>

\* Its attempts are used up; the command's oneshot is dropped and its caller sends
\* the command again.
HubRebindFails ==
  /\ hubPc = "rebind"
  /\ hubPc' = "connect"
  /\ UNCHANGED <<hubResume, hubCommand, hubRoute, hubDesired, hubTable, hubNet, hubServer, hubBounds>>

-----------------------------------------------------------------------------
(* The network and the server                                              *)

HubLose ==
  /\ hubUp /\ hubLosses < HubMaxLosses
  /\ hubLosses' = hubLosses + 1
  /\ hubUp' = FALSE
  /\ hubOut' \in {hubOut, <<>>} /\ hubIn' \in {hubIn, <<>>}
  /\ UNCHANGED <<hubClient, hubServer, hubAsked, hubRefusals>>

HubReply(answer) == hubIn' = IF hubUp THEN Append(hubIn, answer) ELSE hubIn

\* register_route finds the route or registers it; another device may own it.
HubServerRegister ==
  /\ hubSession = "attached" /\ hubOut # <<>> /\ Head(hubOut).type = "register"
  /\ hubOut' = Tail(hubOut)
  /\ LET s == Head(hubOut).route
         id == IF hubServed[s] # 0 THEN hubServed[s] ELSE hubNextId
     IN \/ /\ HubReply([type |-> "registered", id |-> id])
           /\ hubServed' = [hubServed EXCEPT ![s] = id]
           /\ hubNextId' = IF id = hubNextId THEN id + 1 ELSE hubNextId
           /\ UNCHANGED hubRefusals
        \/ /\ hubServed[s] = 0 /\ hubRefusals < HubMaxRefusals
           /\ HubReply([type |-> "error"])
           /\ hubRefusals' = hubRefusals + 1
           /\ UNCHANGED <<hubServed, hubNextId>>
  /\ UNCHANGED <<hubClient, hubUp, hubSession, hubAsked, hubLosses>>

HubServerUnregister ==
  /\ hubSession = "attached" /\ hubOut # <<>> /\ Head(hubOut).type = "unregister"
  /\ hubOut' = Tail(hubOut)
  /\ hubServed' = [s \in HubServices |-> IF hubServed[s] = Head(hubOut).id THEN 0 ELSE hubServed[s]]
  /\ UNCHANGED <<hubClient, hubUp, hubIn, hubSession, hubNextId, hubBounds>>

HubServerDetach ==
  /\ hubSession = "attached" /\ ~ hubUp
  /\ hubSession' = "detached"
  /\ hubOut' = <<>>
  /\ UNCHANGED <<hubClient, hubUp, hubIn, hubServed, hubNextId, hubBounds>>

\* The grace period is over.
HubServerExpire ==
  /\ hubSession = "detached"
  /\ hubSession' = "none" /\ hubServed' = HubNoRoutes /\ hubNextId' = 1
  /\ UNCHANGED <<hubClient, hubNet, hubBounds>>

HubClient ==
  \/ HubTakeAdd \/ HubTakeRemove \/ HubUnregister \/ HubConnect \/ HubReplayed \/ HubRegister
  \/ HubRegistered \/ HubRefused \/ HubNotices \/ HubRebind \/ HubRebindFails
  \/ \E s \in HubServices : HubReplay(s)

HubServer == HubServerRegister \/ HubServerUnregister \/ HubServerDetach \/ HubServerExpire

HubNext ==
  \/ HubClient \/ HubServer \/ HubLose
  \/ \E op \in {"add", "remove"}, s \in HubServices : HubAsk(op, s)

\* The hub runs, a connection attempt to a server that is there succeeds sometime,
\* and the server reads its sockets.
HubFairness == WF_hubVars(HubClient) /\ WF_hubVars(HubServerRegister) /\ WF_hubVars(HubServerUnregister)

HubSpec == HubInit /\ [][HubNext]_hubVars

-----------------------------------------------------------------------------
(* Properties                                                              *)

\* Between commands the hub's route table and what it would replay into a new
\* session name the same routes: no workspace loses its route, or gets back one it
\* gave up, with the next session.
HubTableIsDesired == hubPc = "run" => HubRoutes(hubTable) = hubDesired

\* Every route in the table is in the server's session under the id the hub uses,
\* through lost frames, repeated registrations and rebinds.
HubTableServed ==
  hubPc \in {"run", "replay", "register", "unregister"} /\ hubUp
    => \A s \in HubRoutes(hubTable) : hubServed[s] = hubTable[s]

\* What the hub wants, lists and is served: the first two agree between commands, and
\* the last has all of the second under the ids the hub uses.
HubRoutesAgree == HubTableIsDesired /\ HubTableServed

\* With finitely many losses and refusals every command is answered, and in the end
\* the hub serves all the routes it wants.
HubRecovers ==
  <>[](/\ hubCommand = HubNoCommand
       /\ hubDesired # {} => hubUp /\ \A s \in hubDesired : hubServed[s] # 0)
=============================================================================
