---------------------------- MODULE ProxyRequest ----------------------------
(***************************************************************************)
(* A public request on its way through one pool: proxy_request waits for a *)
(* worker, takes a pending slot of its lane, sends a job to the dispatcher *)
(* and waits for the assignment and for the response head, each under a    *)
(* deadline; dispatch_requests pairs jobs with the idle v4 workers; the    *)
(* socket task of a worker (run_worker_socket) runs the job.  A request    *)
(* that may be executed twice is sent a second time when its worker fails  *)
(* before the head.                                                        *)
(*                                                                         *)
(* A job is identified by its request and attempt.  The dispatcher, the    *)
(* requests and the workers are concurrent tasks, and every await is a     *)
(* step of its own.  Deadlines may pass at any time.  The jobs of a lane   *)
(* are served in any order, where the code serves them as they came, and   *)
(* the bodies are left out: a response is its head and its end.  The slots *)
(* of multiplexed sockets, which the same dispatcher hands out, are in     *)
(* StreamSlots; how a request waits for its pending slot is in             *)
(* PendingQueue.                                                           *)
(***************************************************************************)
EXTENDS Integers, FiniteSets

CONSTANTS
  Requests, Workers,  \* a worker is one connection of a worker socket
  Lanes, Lane,        \* Lane[r]: what classify_request_lane says of r
  Repeatable,         \* requests with an automatic_retry_class
  PendingLimit,       \* per lane: the limit of requests waiting for a worker
  QueueCapacity,      \* per lane: the capacity of the mpsc channel
  None

ASSUME ProxyAssumption ==
  /\ Lanes = {"control", "execution"}
  /\ Lane \in [Requests -> Lanes]
  /\ Repeatable \subseteq Requests
  /\ PendingLimit \in [Lanes -> Nat] /\ QueueCapacity \in [Lanes -> Nat]
  /\ None \notin Workers \cup (Requests \X (1 .. 2))

ReserveWorkers == 1      \* CONTROL_WORKER_RESERVE
MaxAttempts(r) == IF r \in Repeatable THEN 2 ELSE 1

Jobs == Requests \X (1 .. 2)
JobLane(j) == Lane[j[1]]

VARIABLES
  phase,      \* phase[r]: where proxy_request is
  attempt,    \* attempt[r]
  answer,     \* answer[r]: the status r was answered with, or "none"
  place,      \* place[j]: who holds the job
  slotted,    \* jobs that hold a pending slot
  pending,    \* per lane: control_ and execution_pending_requests
  assigned,   \* jobs whose request was told of the assignment
  head,       \* head[j]: the response head's oneshot
  cancelled,  \* jobs whose watch says true
  dispatcher, \* program point of dispatch_requests, the job and worker it holds
  offers, idle, \* AvailableWorkers: in the channel, and in the dispatcher's list
  worker,     \* worker[w]: where the socket task is
  runs        \* runs[w]: the job w was given, or None

requestVars == <<phase, attempt, answer>>
jobVars == <<place, slotted, pending, assigned, head, cancelled>>
workerVars == <<worker, runs>>
vars == <<requestVars, jobVars, dispatcher, offers, idle, workerVars>>

Current(r) == <<r, attempt[r]>>
Connected == {w \in Workers : worker[w] \notin {"new", "gone"}}
Closed == {w \in Workers : worker[w] = "gone"}
At(where) == {j \in Jobs : place[j] = where}
AtLane(where, l) == {j \in At(where) : JobLane(j) = l}
Idle == [pc |-> "pair", job |-> None, worker |-> None]
Holding(point, j, w) == [pc |-> point, job |-> j, worker |-> w]

TypeOK ==
  /\ phase \in [Requests -> {"new", "grace", "acquiring", "sending", "assigning",
                             "head", "streaming", "done"}]
  /\ attempt \in [Requests -> 1 .. 2]
  /\ answer \in [Requests -> {"none", "ok", "503", "502", "504", "left"}]
  /\ place \in [Jobs -> {"none", "request", "channel", "queue", "dispatcher",
                         "worker", "gone"}]
  /\ slotted \subseteq Jobs /\ pending \in [Lanes -> Nat]
  /\ assigned \subseteq Jobs /\ cancelled \subseteq Jobs
  /\ head \in [Jobs -> {"open", "ok", "failed"}]
  /\ dispatcher \in {Idle} \cup [pc : {"checked", "sent"}, job : Jobs, worker : Workers]
  /\ offers \subseteq Workers /\ idle \subseteq Workers
  /\ worker \in [Workers -> {"new", "connected", "idle", "given", "busy", "gone"}]
  /\ runs \in [Workers -> Jobs \cup {None}]

Init ==
  /\ phase = [r \in Requests |-> "new"]
  /\ attempt = [r \in Requests |-> 1]
  /\ answer = [r \in Requests |-> "none"]
  /\ place = [j \in Jobs |-> "none"]
  /\ slotted = {} /\ pending = [l \in Lanes |-> 0]
  /\ assigned = {} /\ cancelled = {}
  /\ head = [j \in Jobs |-> "open"]
  /\ dispatcher = Idle
  /\ offers = {} /\ idle = {}
  /\ worker = [w \in Workers |-> "new"]
  /\ runs = [w \in Workers |-> None]

\* Mutated form of Release: once by release and once more by Drop.
ReleaseTwice(J) ==
  /\ slotted' = slotted \ J
  /\ pending' = [l \in Lanes |->
                  pending[l] - 2 * Cardinality({j \in J \cap slotted : JobLane(j) = l})]

\* PendingRequestSlot::release, for the jobs of J that still hold their slot.
Release(J) ==
  /\ slotted' = slotted \ J
  /\ pending' = [l \in Lanes |->
                  pending[l] - Cardinality({j \in J \cap slotted : JobLane(j) = l})]

-----------------------------------------------------------------------------
(* proxy_request                                                           *)

requestFrame == <<dispatcher, offers, idle, workerVars>>

Answer(r, status) ==
  /\ phase' = [phase EXCEPT ![r] = "done"]
  /\ answer' = [answer EXCEPT ![r] = status]
  /\ UNCHANGED attempt

GoTo(r, next) == phase' = [phase EXCEPT ![r] = next] /\ UNCHANGED <<attempt, answer>>

\* cancel_tx.send(true)
CancelJob(r) == cancelled' = cancelled \cup {Current(r)}

\* The route was found; without workers the request waits for one.
Arrive(r) ==
  /\ phase[r] = "new"
  /\ GoTo(r, IF Connected = {} THEN "grace" ELSE "acquiring")
  /\ UNCHANGED <<requestFrame, jobVars>>

\* wait_for_active_worker sees a worker at one of its polls, or none at the last.
GraceEnds(r) ==
  /\ phase[r] = "grace"
  /\ IF Connected = {} THEN Answer(r, "503") ELSE GoTo(r, "acquiring")
  /\ UNCHANGED <<requestFrame, jobVars>>

Acquire(r) ==
  LET l == Lane[r] IN
  /\ phase[r] = "acquiring"
  /\ pending[l] < PendingLimit[l]
  /\ pending' = [pending EXCEPT ![l] = @ + 1]
  /\ slotted' = slotted \cup {Current(r)}
  /\ place' = [place EXCEPT ![Current(r)] = "request"]
  /\ GoTo(r, "sending")
  /\ UNCHANGED <<requestFrame, assigned, head, cancelled>>

AcquireTimesOut(r) ==
  /\ phase[r] = "acquiring"
  /\ Answer(r, "503")
  /\ UNCHANGED <<requestFrame, jobVars>>

Send(r) ==
  /\ phase[r] = "sending"
  /\ Cardinality(AtLane("channel", Lane[r])) < QueueCapacity[Lane[r]]
  /\ place' = [place EXCEPT ![Current(r)] = "channel"]
  /\ GoTo(r, "assigning")
  /\ UNCHANGED <<requestFrame, slotted, pending, assigned, head, cancelled>>

\* The channel stays full: the job is dropped with the send.
SendTimesOut(r) ==
  /\ phase[r] = "sending"
  /\ Cardinality(AtLane("channel", Lane[r])) = QueueCapacity[Lane[r]]
  /\ CancelJob(r)
  /\ Release({Current(r)})
  /\ place' = [place EXCEPT ![Current(r)] = "gone"]
  /\ Answer(r, "503")
  /\ UNCHANGED <<requestFrame, assigned, head>>

Assigned(r) ==
  /\ phase[r] = "assigning"
  /\ Current(r) \in assigned
  /\ GoTo(r, "head")
  /\ UNCHANGED <<requestFrame, jobVars>>

\* Mutated form of AssignTimesOut: the job is not told.
AssignTimesOutQuietly(r) ==
  /\ phase[r] = "assigning"
  /\ Current(r) \notin assigned
  /\ Answer(r, "503")
  /\ UNCHANGED <<requestFrame, jobVars>>

AssignTimesOut(r) ==
  /\ phase[r] = "assigning"
  /\ Current(r) \notin assigned
  /\ CancelJob(r)
  /\ Answer(r, "503")
  /\ UNCHANGED <<requestFrame, place, slotted, pending, assigned, head>>

HeadArrives(r) ==
  /\ phase[r] = "head"
  /\ head[Current(r)] = "ok"
  /\ phase' = [phase EXCEPT ![r] = "streaming"]
  /\ answer' = [answer EXCEPT ![r] = "ok"]
  /\ UNCHANGED <<requestFrame, jobVars, attempt>>

MayRetry(r) == attempt[r] < MaxAttempts(r)

\* The worker reported an error or went away before the head.
HeadFails(r) ==
  /\ phase[r] = "head"
  /\ head[Current(r)] = "failed"
  /\ CancelJob(r)
  /\ IF MayRetry(r)
       THEN /\ phase' = [phase EXCEPT ![r] = "acquiring"]
            /\ attempt' = [attempt EXCEPT ![r] = @ + 1]
            /\ UNCHANGED answer
       ELSE Answer(r, "502")
  /\ UNCHANGED <<requestFrame, place, slotted, pending, assigned, head>>

\* Mutated form of HeadTimesOut: tried again like a worker that failed.
HeadTimeoutRetries(r) ==
  /\ phase[r] = "head"
  /\ head[Current(r)] = "open"
  /\ CancelJob(r)
  /\ IF MayRetry(r)
       THEN /\ phase' = [phase EXCEPT ![r] = "acquiring"]
            /\ attempt' = [attempt EXCEPT ![r] = @ + 1]
            /\ UNCHANGED answer
       ELSE Answer(r, "504")
  /\ UNCHANGED <<requestFrame, place, slotted, pending, assigned, head>>

\* Not tried again: the first worker may still be executing it.
HeadTimesOut(r) ==
  /\ phase[r] = "head"
  /\ head[Current(r)] = "open"
  /\ CancelJob(r)
  /\ Answer(r, "504")
  /\ UNCHANGED <<requestFrame, place, slotted, pending, assigned, head>>

\* The public connection is lost and hyper drops the future, or the body: no
\* channel says so to the job, which finds its receivers closed.
CallerLeaves(r) ==
  LET sending == phase[r] = "sending" IN
  /\ phase[r] \notin {"new", "done"}
  /\ phase' = [phase EXCEPT ![r] = "done"]
  /\ answer' = [answer EXCEPT ![r] = IF phase[r] = "streaming" THEN @ ELSE "left"]
  /\ Release(IF sending THEN {Current(r)} ELSE {})
  /\ place' = IF sending THEN [place EXCEPT ![Current(r)] = "gone"] ELSE place
  /\ UNCHANGED <<requestFrame, assigned, head, cancelled, attempt>>

\* The worker closed the body channel.
BodyEnds(r) ==
  /\ phase[r] = "streaming"
  /\ \A w \in Workers : runs[w] # Current(r)
  /\ GoTo(r, "done")
  /\ UNCHANGED <<requestFrame, jobVars>>

-----------------------------------------------------------------------------
(* dispatch_requests                                                       *)

dispatchFrame == <<requestVars, head, cancelled>>

\* ProxyJob::abandoned.
Listening(j) == attempt[j[1]] = j[2] /\ phase[j[1]] \in {"sending", "assigning"}
Abandoned(j) == j \in cancelled \/ ~ Listening(j)

\* Mutated form of ExecutionMayRun: no reserve.
ExecutionAlwaysRuns == idle # {}

ExecutionMayRun ==
  Cardinality(idle) > (IF Cardinality(Connected) > ReserveWorkers THEN ReserveWorkers ELSE 0)

\* The job that is next: control first, an execution unless the worker is kept back.
NextJobs ==
  IF idle = {} THEN {}
  ELSE IF AtLane("queue", "control") # {} THEN AtLane("queue", "control")
  ELSE IF ExecutionMayRun THEN AtLane("queue", "execution")
  ELSE {}

\* Mutated form of Pair: an abandoned job is dropped but its slot is not.
PairLeaks(j, w) ==
  /\ dispatcher.pc = "pair"
  /\ j \in NextJobs /\ w \in idle
  /\ IF Abandoned(j)
       THEN /\ place' = [place EXCEPT ![j] = "gone"]
            /\ UNCHANGED <<idle, dispatcher>>
       ELSE /\ place' = [place EXCEPT ![j] = "dispatcher"]
            /\ idle' = idle \ {w}
            /\ dispatcher' = Holding("checked", j, w)
  /\ UNCHANGED <<dispatchFrame, slotted, pending, assigned, offers, worker, runs>>

\* A v4 offer has no claim to take, so only the job is looked at again.
Pair(j, w) ==
  /\ dispatcher.pc = "pair"
  /\ j \in NextJobs /\ w \in idle
  /\ IF Abandoned(j)
       THEN /\ Release({j})
            /\ place' = [place EXCEPT ![j] = "gone"]
            /\ UNCHANGED <<idle, dispatcher>>
       ELSE /\ place' = [place EXCEPT ![j] = "dispatcher"]
            /\ idle' = idle \ {w}
            /\ dispatcher' = Holding("checked", j, w)
            /\ UNCHANGED <<slotted, pending>>
  /\ UNCHANGED <<dispatchFrame, assigned, offers, worker, runs>>

\* worker.assign.send(job); when the worker is gone the job goes back to the
\* front with its slot and its channel.
Assign ==
  LET j == dispatcher.job  w == dispatcher.worker IN
  /\ dispatcher.pc = "checked"
  /\ IF worker[w] = "gone"
       THEN /\ place' = [place EXCEPT ![j] = "queue"]
            /\ idle' = idle \ Closed
            /\ dispatcher' = Idle
            /\ UNCHANGED <<worker, runs>>
       ELSE /\ place' = [place EXCEPT ![j] = "worker"]
            /\ worker' = [worker EXCEPT ![w] = "given"]
            /\ runs' = [runs EXCEPT ![w] = j]
            /\ dispatcher' = [dispatcher EXCEPT !.pc = "sent"]
            /\ UNCHANGED idle
  /\ UNCHANGED <<dispatchFrame, slotted, pending, assigned, offers>>

\* slot.release(), then assigned.send: the request may have timed out meanwhile.
Settle ==
  /\ dispatcher.pc = "sent"
  /\ Release({dispatcher.job})
  /\ assigned' = assigned \cup {dispatcher.job}
  /\ dispatcher' = Idle
  /\ UNCHANGED <<dispatchFrame, place, offers, idle, worker, runs>>

\* The biased select takes a control job, else an execution, else a worker, else the
\* tick; the retains at the top of the loop follow, on what was there and came.
Receive ==
  LET control == AtLane("channel", "control")
      execution == AtLane("channel", "execution")
  IN
  /\ dispatcher = Idle
  /\ NextJobs = {}
  /\ \E J \in {{j} : j \in IF control # {} THEN control ELSE execution} \cup {{}},
        W \in {{w} : w \in offers} \cup {{}} :
       /\ J = {} <=> At("channel") = {}
       /\ W = {} <=> J # {} \/ offers = {}
       /\ offers' = offers \ W
       /\ idle' = (idle \cup W) \ Closed
       /\ LET kept == At("queue") \cup J
              dropped == {j \in kept : Abandoned(j)}
          IN /\ Release(dropped)
             /\ place' = [j \in Jobs |-> IF j \in dropped THEN "gone"
                                         ELSE IF j \in kept THEN "queue" ELSE place[j]]
  /\ UNCHANGED <<dispatchFrame, dispatcher, assigned, worker, runs>>

Dispatch == (\E j \in Jobs, w \in Workers : Pair(j, w)) \/ Assign \/ Settle \/ Receive

-----------------------------------------------------------------------------
(* run_worker_socket and proxy_job_over_socket                             *)

workerFrame == <<requestVars, slotted, pending, assigned, cancelled, dispatcher, idle>>

Move(w, next) == worker' = [worker EXCEPT ![w] = next]

\* Mutated form of Finish: a job whose worker fails before the head is queued again.
FinishRequeues(w) ==
  /\ runs' = [runs EXCEPT ![w] = None]
  /\ place' = [place EXCEPT ![runs[w]] = IF head[runs[w]] = "open" THEN "queue" ELSE "gone"]
  /\ UNCHANGED head

\* The worker gives its job back: an open head is failed.
Finish(w) ==
  /\ runs' = [runs EXCEPT ![w] = None]
  /\ place' = [place EXCEPT ![runs[w]] = "gone"]
  /\ head' = [head EXCEPT ![runs[w]] = IF @ = "open" THEN "failed" ELSE @]

\* Authenticated and counted by ActiveWorkerGuard.
Connect(w) ==
  /\ worker[w] = "new"
  /\ Move(w, "connected")
  /\ UNCHANGED <<workerFrame, place, head, offers, runs>>

Ready(w) ==
  /\ worker[w] = "connected"
  /\ Move(w, "idle")
  /\ offers' = offers \cup {w}
  /\ UNCHANGED <<workerFrame, place, head, runs>>

\* RequestHead, body and RequestEnd are sent before cancellation is looked at.
Begin(w) ==
  /\ worker[w] = "given"
  /\ Move(w, "busy")
  /\ UNCHANGED <<workerFrame, place, head, offers, runs>>

ResponseHead(w) ==
  /\ worker[w] = "busy"
  /\ head[runs[w]] = "open"
  /\ head' = [head EXCEPT ![runs[w]] = "ok"]
  /\ UNCHANGED <<workerFrame, place, offers, workerVars>>

\* Before a head it is an error, but the worker stays.
ResponseEnd(w) ==
  /\ worker[w] = "busy"
  /\ Move(w, "connected")
  /\ Finish(w)
  /\ UNCHANGED <<workerFrame, offers>>

\* The worker is sent Cancel and waits for its next Ready.
SeesCancel(w) ==
  /\ worker[w] = "busy"
  /\ runs[w] \in cancelled
  /\ Move(w, "connected")
  /\ Finish(w)
  /\ UNCHANGED <<workerFrame, offers>>

\* The socket fails, is silent for too long or breaks the protocol (a late
\* response after Cancel does), or the body's consumer is gone.
Lose(w) ==
  /\ w \in Connected
  /\ Move(w, "gone")
  /\ IF runs[w] # None THEN Finish(w) ELSE UNCHANGED <<runs, place, head>>
  /\ UNCHANGED <<workerFrame, offers>>

-----------------------------------------------------------------------------

Deadline(r) ==
  GraceEnds(r) \/ AcquireTimesOut(r) \/ SendTimesOut(r) \/ AssignTimesOut(r) \/ HeadTimesOut(r)

Progress(r) == Acquire(r) \/ Send(r) \/ Assigned(r) \/ HeadArrives(r) \/ HeadFails(r) \/ BodyEnds(r)

Request(r) == Arrive(r) \/ Progress(r) \/ Deadline(r) \/ CallerLeaves(r)

WorkerTask(w) == Begin(w) \/ SeesCancel(w)

Agent(w) == Connect(w) \/ Ready(w) \/ ResponseHead(w) \/ ResponseEnd(w) \/ Lose(w)

Next ==
  \/ \E r \in Requests : Request(r)
  \/ Dispatch
  \/ \E w \in Workers : WorkerTask(w) \/ Agent(w)

Spec == Init /\ [][Next]_vars

\* The tasks of the server run and its timers fire.  A request and a job take
\* finitely many steps, so nothing more is needed than that some task goes on; and
\* nothing is assumed of the agents, which may hang, of the callers, or of the
\* dispatcher.
Fairness ==
  /\ WF_vars(\E r \in Requests : Progress(r) \/ Deadline(r))
  /\ WF_vars(\E w \in Workers : WorkerTask(w))

FairSpec == Spec /\ Fairness

-----------------------------------------------------------------------------
(* Properties                                                              *)

\* The counter that admits requests to a lane is the number of slots held, a slot
\* is held only by a job on its way to a worker, and no lane exceeds its limit:
\* requests that time out, leave or are pushed back free their slot exactly once.
SlotsConserved ==
  /\ \A l \in Lanes : /\ pending[l] = Cardinality({j \in slotted : JobLane(j) = l})
                      /\ pending[l] <= PendingLimit[l]
  /\ \A j \in slotted : \/ place[j] \in {"request", "channel", "queue", "dispatcher"}
                        \/ dispatcher.pc = "sent" /\ dispatcher.job = j
  /\ \A j \in Jobs : place[j] \in {"request", "channel", "queue", "dispatcher"} => j \in slotted

Executes(w, r) == runs[w] # None /\ runs[w][1] = r

\* A request without a retry class is made a job once, however its worker fails; one
\* with a class never runs on two workers at a time: its second attempt begins after
\* the worker of the first one has let go, which is why a head that only timed out is
\* not tried again.
RepeatedSafely ==
  /\ \A r \in Requests \ Repeatable : place[<<r, 2>>] = "none"
  /\ \A r \in Requests, v, w \in Workers : Executes(v, r) /\ Executes(w, r) => v = w

\* While no worker has been lost, executions never occupy all of several connected
\* workers: one is left for the control lane, whatever order they came in.
ControlReserve ==
  Closed = {} /\ Cardinality(Connected) > 1
    => \E w \in Connected : runs[w] = None \/ JobLane(runs[w]) = "control"

\* Every request is answered, or its caller left, although agents hang or vanish; and
\* with an error only if it then leaves its worker alone: the job that a late assignment
\* gave away all the same is cancelled.
Answered ==
  <>[](\A r \in Requests :
         phase[r] # "new" =>
           /\ answer[r] # "none"
           /\ answer[r] \in {"503", "504", "502"} => ~ \E w \in Workers : Executes(w, r))

-----------------------------------------------------------------------------
(* What JobDelivery promises, read off the places of the jobs and the      *)
(* workers                                                                 *)

WaitingJobs == {j \in Jobs : place[j] \in {"request", "channel", "queue", "dispatcher"}}
HandedJobs == {runs[w] : w \in {w \in Workers : worker[w] = "given"}}
RunningJobs == [w \in Workers |-> IF worker[w] = "busy" THEN runs[w] ELSE None]

Delivery == INSTANCE JobDelivery WITH
  Runners <- Workers, waiting <- WaitingJobs, handed <- HandedJobs, running <- RunningJobs,
  over <- At("gone")

\* Each attempt is delivered at most once: a job put back because its worker had gone was
\* not begun, a job that a worker was given never returns to the queue, and it is over
\* once (dispatch_requests, proxy_job_over_socket).
DeliverySpec == Delivery!Spec
=============================================================================
