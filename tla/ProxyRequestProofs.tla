------------------------- MODULE ProxyRequestProofs -------------------------
(***************************************************************************)
(* Proofs about the proxied requests: for any requests, workers, limits    *)
(* and queues, the pending slots are conserved, a request is never run     *)
(* twice at once, and executions leave a worker to the control lane.       *)
(***************************************************************************)
EXTENDS ProxyRequest, FiniteSetTheorems, TLAPS

Waiting == {"request", "channel", "queue", "dispatcher"}

\* A job that proxy_request has yet to make.
Unmade(j) ==
  \/ j[2] > attempt[j[1]]
  \/ j[2] = attempt[j[1]] /\ phase[j[1]] \in {"new", "grace", "acquiring"}

\* Where a job is, its slot and its head follow the request and the dispatcher.
JobOK(j) ==
  /\ Unmade(j) => place[j] = "none" /\ head[j] = "open"
  /\ place[j] = "request" <=> j[2] = attempt[j[1]] /\ phase[j[1]] = "sending"
  /\ place[j] \in Waiting => j \in slotted
  /\ j \in slotted => place[j] \in Waiting \/ (dispatcher.pc = "sent" /\ dispatcher.job = j)
  /\ place[j] = "dispatcher" <=> dispatcher.pc = "checked" /\ dispatcher.job = j
  /\ head[j] = "failed" => place[j] = "gone"

\* There is a second attempt only of a request that may be repeated, whose first job is over.
AttemptOK(r) == attempt[r] = 2 => r \in Repeatable /\ place[<<r, 1>>] = "gone"

\* A worker has a job when it was given one, nobody else has it, and a worker that is
\* offered has none.
WorkerOK(w) ==
  /\ worker[w] \in {"given", "busy"} <=> runs[w] # None
  /\ runs[w] # None => place[runs[w]] = "worker" /\ \A v \in Workers : runs[v] = runs[w] => v = w
  /\ w \in offers \cup idle \/ (dispatcher.pc = "checked" /\ dispatcher.worker = w)
       => worker[w] \in {"idle", "gone"}
  /\ w \in idle => w \notin offers
  /\ dispatcher.pc = "checked" /\ dispatcher.worker = w => w \notin offers \cup idle

DispatcherOK == dispatcher.pc = "sent" => dispatcher.job \in slotted /\ place[dispatcher.job] \in {"worker", "gone"}

\* The counters, and how many slots there are.
Counted ==
  /\ IsFiniteSet(slotted)
  /\ \A l \in Lanes : /\ pending[l] = Cardinality({j \in slotted : JobLane(j) = l})
                      /\ pending[l] <= PendingLimit[l]

\* The workers that an execution has, or is about to have.
Taken ==
  {w \in Workers : \/ runs[w] # None /\ JobLane(runs[w]) = "execution"
                   \/ /\ dispatcher.pc = "checked" /\ dispatcher.worker = w
                      /\ JobLane(dispatcher.job) = "execution"}

ReserveOK ==
  /\ IsFiniteSet(idle)
  /\ Closed = {} /\ Cardinality(Connected) > 1 => \E w \in Connected : w \notin Taken

Inv ==
  /\ TypeOK /\ Counted /\ DispatcherOK /\ ReserveOK
  /\ \A j \in Jobs : JobOK(j)
  /\ \A r \in Requests : AttemptOK(r)
  /\ \A w \in Workers : WorkerOK(w)

-----------------------------------------------------------------------------
(* Lemmas about the operators                                              *)

\* A job is a request and an attempt.
LEMMA JobFacts ==
  /\ \A j \in Jobs : j[1] \in Requests /\ j[2] \in {1, 2}
  /\ \A r \in Requests : /\ <<r, 1>> \in Jobs /\ <<r, 1>>[1] = r /\ <<r, 1>>[2] = 1
                         /\ <<r, 2>> \in Jobs /\ <<r, 2>>[1] = r /\ <<r, 2>>[2] = 2
  /\ \A i, j \in Jobs : i[1] = j[1] /\ i[2] = j[2] => i = j
  /\ None \notin Jobs
<1>1. \A j \in Jobs : j[1] \in Requests /\ j[2] \in {1, 2} /\ j = <<j[1], j[2]>>
  BY DEF Jobs
<1>2. \A r \in Requests : /\ <<r, 1>> \in Jobs /\ <<r, 1>>[1] = r /\ <<r, 1>>[2] = 1
                          /\ <<r, 2>> \in Jobs /\ <<r, 2>>[1] = r /\ <<r, 2>>[2] = 2
  BY DEF Jobs
<1>3. None \notin Jobs
  BY ProxyAssumption DEF Jobs
<1>4. ASSUME NEW i \in Jobs, NEW j \in Jobs, i[1] = j[1], i[2] = j[2] PROVE i = j
  <2>1. i = <<i[1], i[2]>> /\ j = <<j[1], j[2]>>
    BY <1>1
  <2> QED  BY <1>4, <2>1
<1> QED  BY <1>1, <1>2, <1>3, <1>4

\* The present job of a request.
LEMMA CurrentFacts ==
  ASSUME TypeOK, NEW r \in Requests
  PROVE  Current(r) \in Jobs /\ Current(r)[1] = r /\ Current(r)[2] = attempt[r]
  BY DEF TypeOK, Current, Jobs

\* What the dispatcher holds.
LEMMA DispatcherFacts ==
  ASSUME TypeOK
  PROVE  /\ dispatcher.pc \in {"pair", "checked", "sent"}
         /\ dispatcher.pc # "pair" => dispatcher.job \in Jobs /\ dispatcher.worker \in Workers
         /\ dispatcher.pc = "pair" => dispatcher = Idle
  BY DEF TypeOK, Idle

\* What a step must not touch to keep the counters, the attempts and the reserve.
LEMMA CountedKept ==
  Counted /\ UNCHANGED <<slotted, pending>> => Counted'
  BY DEF Counted

LEMMA AttemptsKept ==
  ASSUME \A r \in Requests : AttemptOK(r), UNCHANGED attempt,
         \A j \in Jobs : place[j] = "gone" => place'[j] = "gone"
  PROVE  \A r \in Requests : AttemptOK(r)'
  BY JobFacts DEF AttemptOK

LEMMA ReserveKept ==
  ASSUME ReserveOK, UNCHANGED idle, Closed' = {} => Closed = {} /\ Connected' = Connected,
         \A w \in Connected : w \in Taken' => w \in Taken
  PROVE  ReserveOK'
  BY DEF ReserveOK

\* Releasing is counted, whatever set is released.
LEMMA ReleaseFacts ==
  ASSUME TypeOK, Counted, NEW J, Release(J)
  PROVE  Counted' /\ slotted' = slotted \ J /\ pending' \in [Lanes -> Nat]
<1> DEFINE In(S, l) == {j \in S : JobLane(j) = l}
<1>1. slotted' = slotted \ J /\ IsFiniteSet(slotted')
  BY FS_Difference DEF Release, Counted
<1>2. ASSUME NEW l \in Lanes
      PROVE  /\ pending'[l] = Cardinality(In(slotted', l))
             /\ pending'[l] \in Nat /\ pending'[l] <= pending[l]
  <2>1. IsFiniteSet(In(slotted, l)) /\ IsFiniteSet(In(J \cap slotted, l))
    BY FS_Subset DEF Counted
  <2>2. In(slotted', l) = In(slotted, l) \ In(J \cap slotted, l)
    BY <1>1
  <2>3. In(slotted, l) \cap In(J \cap slotted, l) = In(J \cap slotted, l)
    OBVIOUS
  <2>4. Cardinality(In(slotted', l)) = Cardinality(In(slotted, l)) - Cardinality(In(J \cap slotted, l))
    <3> HIDE DEF In
    <3>1. Cardinality(In(slotted, l) \ In(J \cap slotted, l)) =
            Cardinality(In(slotted, l)) - Cardinality(In(slotted, l) \cap In(J \cap slotted, l))
      BY <2>1, FS_Difference
    <3> QED  BY <2>2, <2>3, <3>1
  <2>5. IsFiniteSet(In(slotted', l))
    BY <1>1, FS_Subset
  <2>6. /\ Cardinality(In(slotted', l)) \in Nat /\ Cardinality(In(J \cap slotted, l)) \in Nat
        /\ Cardinality(In(slotted, l)) \in Nat
    BY <2>1, <2>5, FS_CardinalityType
  <2>7. pending[l] = Cardinality(In(slotted, l))
    BY DEF Counted
  <2>8. pending'[l] = pending[l] - Cardinality(In(J \cap slotted, l))
    BY DEF Release
  <2> QED  BY <2>4, <2>6, <2>7, <2>8
<1>3. \A l \in Lanes : pending'[l] <= PendingLimit[l]
  BY <1>2, ProxyAssumption DEF Counted, TypeOK
<1> QED  BY <1>1, <1>2, <1>3 DEF Counted, Release

\* A job that enters a lane is counted once.
LEMMA AcquireFacts ==
  ASSUME TypeOK, Counted, NEW r \in Requests, Current(r) \notin slotted,
         pending[Lane[r]] < PendingLimit[Lane[r]],
         pending' = [pending EXCEPT ![Lane[r]] = @ + 1],
         slotted' = slotted \cup {Current(r)}
  PROVE  Counted' /\ pending' \in [Lanes -> Nat]
<1> DEFINE In(S, l) == {j \in S : JobLane(j) = l}
<1>1. IsFiniteSet(slotted') /\ Lane[r] \in Lanes /\ JobLane(Current(r)) = Lane[r]
  BY FS_AddElement, CurrentFacts, ProxyAssumption DEF Counted, JobLane
<1>2. In(slotted', Lane[r]) = In(slotted, Lane[r]) \cup {Current(r)}
  BY <1>1
<1>3. IsFiniteSet(In(slotted, Lane[r])) /\ Current(r) \notin In(slotted, Lane[r])
  BY FS_Subset DEF Counted
<1>4. Cardinality(In(slotted', Lane[r])) = Cardinality(In(slotted, Lane[r])) + 1
  BY <1>2, <1>3, FS_AddElement
<1>5. ASSUME NEW l \in Lanes, l # Lane[r]
      PROVE  In(slotted', l) = In(slotted, l) /\ pending'[l] = pending[l]
  BY <1>1, <1>5 DEF TypeOK
<1>6. pending'[Lane[r]] = pending[Lane[r]] + 1
  BY <1>1 DEF TypeOK
<1>7. \A l \in Lanes : pending[l] = Cardinality(In(slotted, l)) /\ pending[l] <= PendingLimit[l]
  BY DEF Counted
<1>8. pending[Lane[r]] \in Nat /\ PendingLimit[Lane[r]] \in Nat
  BY <1>1, ProxyAssumption DEF TypeOK
<1>9. ASSUME NEW l \in Lanes
      PROVE  pending'[l] = Cardinality(In(slotted', l)) /\ pending'[l] <= PendingLimit[l]
  <2>1. CASE l = Lane[r]
    <3>1. pending'[l] = Cardinality(In(slotted', l))
      BY <1>4, <1>6, <1>7, <2>1
    <3> QED  BY <1>6, <1>7, <1>8, <2>1, <3>1
  <2>2. CASE l # Lane[r]
    <3>1. pending'[l] = pending[l] /\ In(slotted', l) = In(slotted, l)
      BY <1>5, <2>2
    <3> QED  BY <1>7, <3>1
  <2> QED  BY <2>1, <2>2
<1>10. pending' \in [Lanes -> Nat]
  BY <1>1, <1>8 DEF TypeOK
<1> QED  BY <1>1, <1>9, <1>10 DEF Counted

-----------------------------------------------------------------------------
(* One lemma per action                                                    *)

LEMMA ArriveInv == ASSUME Inv, NEW r \in Requests, Arrive(r) PROVE Inv'
<1>1. TypeOK'
  BY CurrentFacts, JobFacts, DispatcherFacts DEF Inv, TypeOK, Arrive, requestFrame, jobVars,
     workerVars, requestVars, GoTo, Answer, Idle, Holding
<1>2. Counted'
  BY CountedKept DEF Inv, TypeOK, Arrive, requestFrame, jobVars, workerVars, requestVars,
     GoTo, Answer
<1>3. DispatcherOK'
  BY CurrentFacts, JobFacts, DispatcherFacts DEF Inv, TypeOK, Arrive, requestFrame, jobVars,
     workerVars, requestVars, GoTo, Answer, DispatcherOK, Idle, Holding, WorkerOK
<1>4. ReserveOK'
  BY ReserveKept, CurrentFacts, JobFacts, DispatcherFacts DEF Inv, TypeOK, Arrive,
     requestFrame, jobVars, workerVars, requestVars, GoTo, Answer, Taken, Closed, Connected,
     WorkerOK
<1>5. \A i \in Jobs : JobOK(i)'
  BY CurrentFacts, JobFacts, DispatcherFacts DEF Inv, TypeOK, Arrive, requestFrame, jobVars,
     workerVars, requestVars, GoTo, Answer, JobOK, Unmade, Waiting, DispatcherOK, WorkerOK,
     AttemptOK, Idle, Holding
<1>6. \A s \in Requests : AttemptOK(s)'
  BY AttemptsKept, CurrentFacts, JobFacts, DispatcherFacts DEF Inv, TypeOK, Arrive,
     requestFrame, jobVars, workerVars, requestVars, GoTo, Answer, JobOK, WorkerOK,
     DispatcherOK
<1>7. \A v \in Workers : WorkerOK(v)'
  BY CurrentFacts, JobFacts, DispatcherFacts DEF Inv, TypeOK, Arrive, requestFrame, jobVars,
     workerVars, requestVars, GoTo, Answer, WorkerOK, JobOK, Unmade, Waiting, Idle, Holding,
     Connected, Closed
<1> QED  BY <1>1, <1>2, <1>3, <1>4, <1>5, <1>6, <1>7 DEF Inv

LEMMA GraceEndsInv == ASSUME Inv, NEW r \in Requests, GraceEnds(r) PROVE Inv'
<1>1. TypeOK'
  <2>1. CASE Answer(r, "503")
    BY <2>1 DEF Inv, TypeOK, GraceEnds, Answer, requestFrame, jobVars, workerVars
  <2>2. CASE GoTo(r, "acquiring")
    BY <2>2 DEF Inv, TypeOK, GraceEnds, GoTo, requestFrame, jobVars, workerVars
  <2> QED  BY <2>1, <2>2 DEF GraceEnds
<1>2. Counted'
  BY CountedKept DEF Inv, TypeOK, GraceEnds, requestFrame, jobVars, workerVars, requestVars,
     GoTo, Answer
<1>3. DispatcherOK'
  BY CurrentFacts, JobFacts, DispatcherFacts DEF Inv, TypeOK, GraceEnds, requestFrame,
     jobVars, workerVars, requestVars, GoTo, Answer, DispatcherOK, Idle, Holding, WorkerOK
<1>4. ReserveOK'
  BY ReserveKept, CurrentFacts, JobFacts, DispatcherFacts DEF Inv, TypeOK, GraceEnds,
     requestFrame, jobVars, workerVars, requestVars, GoTo, Answer, Taken, Closed, Connected,
     WorkerOK
<1>5. \A i \in Jobs : JobOK(i)'
  BY CurrentFacts, JobFacts, DispatcherFacts DEF Inv, TypeOK, GraceEnds, requestFrame,
     jobVars, workerVars, requestVars, GoTo, Answer, JobOK, Unmade, Waiting, DispatcherOK,
     WorkerOK, AttemptOK, Idle, Holding
<1>6. \A s \in Requests : AttemptOK(s)'
  BY AttemptsKept, CurrentFacts, JobFacts, DispatcherFacts DEF Inv, TypeOK, GraceEnds,
     requestFrame, jobVars, workerVars, requestVars, GoTo, Answer, JobOK, WorkerOK,
     DispatcherOK
<1>7. \A v \in Workers : WorkerOK(v)'
  BY CurrentFacts, JobFacts, DispatcherFacts DEF Inv, TypeOK, GraceEnds, requestFrame,
     jobVars, workerVars, requestVars, GoTo, Answer, WorkerOK, JobOK, Unmade, Waiting, Idle,
     Holding, Connected, Closed
<1> QED  BY <1>1, <1>2, <1>3, <1>4, <1>5, <1>6, <1>7 DEF Inv

LEMMA AcquireInv == ASSUME Inv, NEW r \in Requests, Acquire(r) PROVE Inv'
<1>a. /\ Current(r) \in Jobs /\ Current(r)[1] = r /\ Current(r)[2] = attempt[r]
      /\ place[Current(r)] = "none" /\ Current(r) \notin slotted
  BY CurrentFacts DEF Inv, Acquire, JobOK, Unmade, Waiting, DispatcherOK
<1>0. Counted' /\ pending' \in [Lanes -> Nat]
  BY <1>a, AcquireFacts DEF Inv, Acquire
<1>1. TypeOK'
  BY <1>0, CurrentFacts, JobFacts, DispatcherFacts DEF Inv, TypeOK, Acquire, requestFrame,
     jobVars, workerVars, requestVars, GoTo, Idle, Holding
<1>2. Counted'
  BY <1>0, CountedKept DEF Inv, TypeOK, Acquire, requestFrame, jobVars, workerVars,
     requestVars, GoTo
<1>3. DispatcherOK'
  BY <1>a, DispatcherFacts DEF Inv, TypeOK, DispatcherOK, Acquire, requestFrame
<1>4. ReserveOK'
  BY ReserveKept, CurrentFacts, JobFacts, DispatcherFacts DEF Inv, TypeOK, Acquire,
     requestFrame, jobVars, workerVars, requestVars, GoTo, Taken, Closed, Connected,
     WorkerOK
<1>5. \A i \in Jobs : JobOK(i)'
  BY CurrentFacts, JobFacts, DispatcherFacts DEF Inv, TypeOK, Acquire, requestFrame,
     jobVars, workerVars, requestVars, GoTo, JobOK, Unmade, Waiting, DispatcherOK, WorkerOK,
     AttemptOK, Idle, Holding
<1>6. \A s \in Requests : AttemptOK(s)'
  BY <1>a, AttemptsKept DEF Inv, TypeOK, Acquire, GoTo
<1>7. \A v \in Workers : WorkerOK(v)'
  BY CurrentFacts, JobFacts, DispatcherFacts DEF Inv, TypeOK, Acquire, requestFrame,
     jobVars, workerVars, requestVars, GoTo, WorkerOK, JobOK, Unmade, Waiting, Idle,
     Holding, Connected, Closed
<1> QED  BY <1>1, <1>2, <1>3, <1>4, <1>5, <1>6, <1>7 DEF Inv

LEMMA AcquireTimesOutInv == ASSUME Inv, NEW r \in Requests, AcquireTimesOut(r) PROVE Inv'
<1>1. TypeOK'
  BY CurrentFacts, JobFacts, DispatcherFacts DEF Inv, TypeOK, AcquireTimesOut, requestFrame,
     jobVars, workerVars, requestVars, Answer, Idle, Holding
<1>2. Counted'
  BY CountedKept DEF Inv, TypeOK, AcquireTimesOut, requestFrame, jobVars, workerVars,
     requestVars, Answer
<1>3. DispatcherOK'
  BY CurrentFacts, JobFacts, DispatcherFacts DEF Inv, TypeOK, AcquireTimesOut, requestFrame,
     jobVars, workerVars, requestVars, Answer, DispatcherOK, Idle, Holding, WorkerOK
<1>4. ReserveOK'
  BY ReserveKept, CurrentFacts, JobFacts, DispatcherFacts DEF Inv, TypeOK, AcquireTimesOut,
     requestFrame, jobVars, workerVars, requestVars, Answer, Taken, Closed, Connected,
     WorkerOK
<1>5. \A i \in Jobs : JobOK(i)'
  BY CurrentFacts, JobFacts, DispatcherFacts DEF Inv, TypeOK, AcquireTimesOut, requestFrame,
     jobVars, workerVars, requestVars, Answer, JobOK, Unmade, Waiting, DispatcherOK,
     WorkerOK, AttemptOK, Idle, Holding
<1>6. \A s \in Requests : AttemptOK(s)'
  BY AttemptsKept, CurrentFacts, JobFacts, DispatcherFacts DEF Inv, TypeOK, AcquireTimesOut,
     requestFrame, jobVars, workerVars, requestVars, Answer, JobOK, WorkerOK, DispatcherOK
<1>7. \A v \in Workers : WorkerOK(v)'
  BY CurrentFacts, JobFacts, DispatcherFacts DEF Inv, TypeOK, AcquireTimesOut, requestFrame,
     jobVars, workerVars, requestVars, Answer, WorkerOK, JobOK, Unmade, Waiting, Idle,
     Holding, Connected, Closed
<1> QED  BY <1>1, <1>2, <1>3, <1>4, <1>5, <1>6, <1>7 DEF Inv

LEMMA SendInv == ASSUME Inv, NEW r \in Requests, Send(r) PROVE Inv'
<1>a. /\ Current(r) \in Jobs /\ Current(r)[1] = r /\ Current(r)[2] = attempt[r]
      /\ place[Current(r)] = "request" /\ Current(r) \in slotted
  BY CurrentFacts DEF Inv, Send, JobOK, Unmade, Waiting
<1>1. TypeOK'
  BY CurrentFacts, JobFacts, DispatcherFacts DEF Inv, TypeOK, Send, requestFrame, jobVars,
     workerVars, requestVars, GoTo, Idle, Holding
<1>2. Counted'
  BY CountedKept DEF Inv, TypeOK, Send, requestFrame, jobVars, workerVars, requestVars, GoTo
<1>3. DispatcherOK'
  BY <1>a, DispatcherFacts DEF Inv, TypeOK, DispatcherOK, Send, requestFrame
<1>4. ReserveOK'
  BY ReserveKept, CurrentFacts, JobFacts, DispatcherFacts DEF Inv, TypeOK, Send,
     requestFrame, jobVars, workerVars, requestVars, GoTo, Taken, Closed, Connected,
     WorkerOK
<1>5. \A i \in Jobs : JobOK(i)'
  BY CurrentFacts, JobFacts, DispatcherFacts DEF Inv, TypeOK, Send, requestFrame, jobVars,
     workerVars, requestVars, GoTo, JobOK, Unmade, Waiting, DispatcherOK, WorkerOK,
     AttemptOK, Idle, Holding
<1>6. \A s \in Requests : AttemptOK(s)'
  BY AttemptsKept, CurrentFacts, JobFacts, DispatcherFacts DEF Inv, TypeOK, Send,
     requestFrame, jobVars, workerVars, requestVars, GoTo, JobOK, WorkerOK, DispatcherOK
<1>7. \A v \in Workers : WorkerOK(v)'
  BY CurrentFacts, JobFacts, DispatcherFacts DEF Inv, TypeOK, Send, requestFrame, jobVars,
     workerVars, requestVars, GoTo, WorkerOK, JobOK, Unmade, Waiting, Idle, Holding,
     Connected, Closed
<1> QED  BY <1>1, <1>2, <1>3, <1>4, <1>5, <1>6, <1>7 DEF Inv

LEMMA SendTimesOutInv == ASSUME Inv, NEW r \in Requests, SendTimesOut(r) PROVE Inv'
<1>a. /\ Current(r) \in Jobs /\ Current(r)[1] = r /\ Current(r)[2] = attempt[r]
      /\ place[Current(r)] = "request" /\ Current(r) \in slotted
  BY CurrentFacts DEF Inv, SendTimesOut, JobOK, Unmade, Waiting
<1>0. Counted' /\ pending' \in [Lanes -> Nat]
  BY ReleaseFacts, CurrentFacts, JobFacts, DispatcherFacts DEF Inv, TypeOK, SendTimesOut,
     requestFrame, jobVars, workerVars, requestVars, CancelJob, Answer, JobOK, Unmade,
     Waiting
<1>1. TypeOK'
  <2>1. slotted' \subseteq Jobs /\ cancelled' \subseteq Jobs
    BY <1>a DEF Inv, TypeOK, SendTimesOut, Release, CancelJob
  <2> QED  BY <1>0, <1>a, <2>1 DEF Inv, TypeOK, SendTimesOut, Answer, requestFrame, workerVars
<1>2. Counted'
  BY <1>0, CountedKept DEF Inv, TypeOK, SendTimesOut, requestFrame, jobVars, workerVars,
     requestVars, CancelJob, Answer
<1>3. DispatcherOK'
  BY <1>a, DispatcherFacts DEF Inv, TypeOK, DispatcherOK, SendTimesOut, Release, requestFrame
<1>4. ReserveOK'
  BY ReserveKept, CurrentFacts, JobFacts, DispatcherFacts DEF Inv, TypeOK, SendTimesOut,
     requestFrame, jobVars, workerVars, requestVars, CancelJob, Answer, Taken, Closed,
     Connected, WorkerOK
<1>5. \A i \in Jobs : JobOK(i)'
  BY CurrentFacts, JobFacts, DispatcherFacts DEF Inv, TypeOK, SendTimesOut, requestFrame,
     jobVars, workerVars, requestVars, CancelJob, Answer, Release, JobOK, Unmade, Waiting,
     DispatcherOK, WorkerOK, AttemptOK, Idle, Holding
<1>6. \A s \in Requests : AttemptOK(s)'
  BY AttemptsKept, CurrentFacts, JobFacts, DispatcherFacts DEF Inv, TypeOK, SendTimesOut,
     requestFrame, jobVars, workerVars, requestVars, CancelJob, Answer, JobOK, WorkerOK,
     DispatcherOK
<1>7. \A v \in Workers : WorkerOK(v)'
  BY CurrentFacts, JobFacts, DispatcherFacts DEF Inv, TypeOK, SendTimesOut, requestFrame,
     jobVars, workerVars, requestVars, CancelJob, Answer, WorkerOK, JobOK, Unmade, Waiting,
     Idle, Holding, Connected, Closed
<1> QED  BY <1>1, <1>2, <1>3, <1>4, <1>5, <1>6, <1>7 DEF Inv

LEMMA AssignedInv == ASSUME Inv, NEW r \in Requests, Assigned(r) PROVE Inv'
<1>1. TypeOK'
  BY CurrentFacts, JobFacts, DispatcherFacts DEF Inv, TypeOK, Assigned, requestFrame,
     jobVars, workerVars, requestVars, GoTo, Idle, Holding
<1>2. Counted'
  BY CountedKept DEF Inv, TypeOK, Assigned, requestFrame, jobVars, workerVars, requestVars, GoTo
<1>3. DispatcherOK'
  BY CurrentFacts, JobFacts, DispatcherFacts DEF Inv, TypeOK, Assigned, requestFrame,
     jobVars, workerVars, requestVars, GoTo, DispatcherOK, Idle, Holding, WorkerOK
<1>4. ReserveOK'
  BY ReserveKept, CurrentFacts, JobFacts, DispatcherFacts DEF Inv, TypeOK, Assigned,
     requestFrame, jobVars, workerVars, requestVars, GoTo, Taken, Closed, Connected,
     WorkerOK
<1>5. \A i \in Jobs : JobOK(i)'
  BY CurrentFacts, JobFacts, DispatcherFacts DEF Inv, TypeOK, Assigned, requestFrame,
     jobVars, workerVars, requestVars, GoTo, JobOK, Unmade, Waiting, DispatcherOK, WorkerOK,
     AttemptOK, Idle, Holding
<1>6. \A s \in Requests : AttemptOK(s)'
  BY AttemptsKept, CurrentFacts, JobFacts, DispatcherFacts DEF Inv, TypeOK, Assigned,
     requestFrame, jobVars, workerVars, requestVars, GoTo, JobOK, WorkerOK, DispatcherOK
<1>7. \A v \in Workers : WorkerOK(v)'
  BY CurrentFacts, JobFacts, DispatcherFacts DEF Inv, TypeOK, Assigned, requestFrame,
     jobVars, workerVars, requestVars, GoTo, WorkerOK, JobOK, Unmade, Waiting, Idle,
     Holding, Connected, Closed
<1> QED  BY <1>1, <1>2, <1>3, <1>4, <1>5, <1>6, <1>7 DEF Inv

LEMMA AssignTimesOutInv == ASSUME Inv, NEW r \in Requests, AssignTimesOut(r) PROVE Inv'
<1>1. TypeOK'
  BY CurrentFacts, JobFacts, DispatcherFacts DEF Inv, TypeOK, AssignTimesOut, requestFrame,
     jobVars, workerVars, requestVars, CancelJob, Answer, Idle, Holding
<1>2. Counted'
  BY CountedKept DEF Inv, TypeOK, AssignTimesOut, requestFrame, jobVars, workerVars,
     requestVars, CancelJob, Answer
<1>3. DispatcherOK'
  BY CurrentFacts, JobFacts, DispatcherFacts DEF Inv, TypeOK, AssignTimesOut, requestFrame,
     jobVars, workerVars, requestVars, CancelJob, Answer, DispatcherOK, Idle, Holding,
     WorkerOK
<1>4. ReserveOK'
  BY ReserveKept, CurrentFacts, JobFacts, DispatcherFacts DEF Inv, TypeOK, AssignTimesOut,
     requestFrame, jobVars, workerVars, requestVars, CancelJob, Answer, Taken, Closed,
     Connected, WorkerOK
<1>5. \A i \in Jobs : JobOK(i)'
  BY CurrentFacts, JobFacts, DispatcherFacts DEF Inv, TypeOK, AssignTimesOut, requestFrame,
     jobVars, workerVars, requestVars, CancelJob, Answer, JobOK, Unmade, Waiting,
     DispatcherOK, WorkerOK, AttemptOK, Idle, Holding
<1>6. \A s \in Requests : AttemptOK(s)'
  BY AttemptsKept, CurrentFacts, JobFacts, DispatcherFacts DEF Inv, TypeOK, AssignTimesOut,
     requestFrame, jobVars, workerVars, requestVars, CancelJob, Answer, JobOK, WorkerOK,
     DispatcherOK
<1>7. \A v \in Workers : WorkerOK(v)'
  BY CurrentFacts, JobFacts, DispatcherFacts DEF Inv, TypeOK, AssignTimesOut, requestFrame,
     jobVars, workerVars, requestVars, CancelJob, Answer, WorkerOK, JobOK, Unmade, Waiting,
     Idle, Holding, Connected, Closed
<1> QED  BY <1>1, <1>2, <1>3, <1>4, <1>5, <1>6, <1>7 DEF Inv

LEMMA HeadArrivesInv == ASSUME Inv, NEW r \in Requests, HeadArrives(r) PROVE Inv'
<1>1. TypeOK'
  BY CurrentFacts, JobFacts, DispatcherFacts DEF Inv, TypeOK, HeadArrives, requestFrame,
     jobVars, workerVars, requestVars, Idle, Holding
<1>2. Counted'
  BY CountedKept DEF Inv, TypeOK, HeadArrives, requestFrame, jobVars, workerVars, requestVars
<1>3. DispatcherOK'
  BY CurrentFacts, JobFacts, DispatcherFacts DEF Inv, TypeOK, HeadArrives, requestFrame,
     jobVars, workerVars, requestVars, DispatcherOK, Idle, Holding, WorkerOK
<1>4. ReserveOK'
  BY ReserveKept, CurrentFacts, JobFacts, DispatcherFacts DEF Inv, TypeOK, HeadArrives,
     requestFrame, jobVars, workerVars, requestVars, Taken, Closed, Connected, WorkerOK
<1>5. \A i \in Jobs : JobOK(i)'
  BY CurrentFacts, JobFacts, DispatcherFacts DEF Inv, TypeOK, HeadArrives, requestFrame,
     jobVars, workerVars, requestVars, JobOK, Unmade, Waiting, DispatcherOK, WorkerOK,
     AttemptOK, Idle, Holding
<1>6. \A s \in Requests : AttemptOK(s)'
  BY AttemptsKept, CurrentFacts, JobFacts, DispatcherFacts DEF Inv, TypeOK, HeadArrives,
     requestFrame, jobVars, workerVars, requestVars, JobOK, WorkerOK, DispatcherOK
<1>7. \A v \in Workers : WorkerOK(v)'
  BY CurrentFacts, JobFacts, DispatcherFacts DEF Inv, TypeOK, HeadArrives, requestFrame,
     jobVars, workerVars, requestVars, WorkerOK, JobOK, Unmade, Waiting, Idle, Holding,
     Connected, Closed
<1> QED  BY <1>1, <1>2, <1>3, <1>4, <1>5, <1>6, <1>7 DEF Inv

LEMMA HeadFailsInv == ASSUME Inv, NEW r \in Requests, HeadFails(r) PROVE Inv'
<1>1. TypeOK'
  BY CurrentFacts, JobFacts, DispatcherFacts DEF Inv, TypeOK, HeadFails, requestFrame,
     jobVars, workerVars, requestVars, CancelJob, MayRetry, MaxAttempts, Answer, Idle,
     Holding
<1>2. Counted'
  BY CountedKept DEF Inv, TypeOK, HeadFails, requestFrame, jobVars, workerVars, requestVars,
     CancelJob, MayRetry, MaxAttempts, Answer
<1>3. DispatcherOK'
  BY CurrentFacts, JobFacts, DispatcherFacts DEF Inv, TypeOK, HeadFails, requestFrame,
     jobVars, workerVars, requestVars, CancelJob, MayRetry, MaxAttempts, Answer,
     DispatcherOK, Idle, Holding, WorkerOK
<1>4. ReserveOK'
  BY ReserveKept, CurrentFacts, JobFacts, DispatcherFacts DEF Inv, TypeOK, HeadFails,
     requestFrame, jobVars, workerVars, requestVars, CancelJob, MayRetry, MaxAttempts,
     Answer, Taken, Closed, Connected, WorkerOK
<1>5. \A i \in Jobs : JobOK(i)'
  BY CurrentFacts, JobFacts, DispatcherFacts DEF Inv, TypeOK, HeadFails, requestFrame,
     jobVars, workerVars, requestVars, CancelJob, MayRetry, MaxAttempts, Answer, JobOK,
     Unmade, Waiting, DispatcherOK, WorkerOK, AttemptOK, Idle, Holding
<1>6. \A s \in Requests : AttemptOK(s)'
  <2>1. place[Current(r)] = "gone"
    BY CurrentFacts DEF Inv, HeadFails, JobOK
  <2>2. attempt'[r] = 2 => attempt[r] = 2 \/ (r \in Repeatable /\ Current(r) = <<r, 1>>)
    BY DEF Inv, TypeOK, HeadFails, MayRetry, MaxAttempts, Answer, Current
  <2>3. \A s \in Requests \ {r} : attempt'[s] = attempt[s]
    BY DEF Inv, TypeOK, HeadFails, Answer
  <2> QED  BY <2>1, <2>2, <2>3 DEF Inv, HeadFails, AttemptOK
<1>7. \A v \in Workers : WorkerOK(v)'
  BY CurrentFacts, JobFacts, DispatcherFacts DEF Inv, TypeOK, HeadFails, requestFrame,
     jobVars, workerVars, requestVars, CancelJob, MayRetry, MaxAttempts, Answer, WorkerOK,
     JobOK, Unmade, Waiting, Idle, Holding, Connected, Closed
<1> QED  BY <1>1, <1>2, <1>3, <1>4, <1>5, <1>6, <1>7 DEF Inv

LEMMA HeadTimesOutInv == ASSUME Inv, NEW r \in Requests, HeadTimesOut(r) PROVE Inv'
<1>1. TypeOK'
  BY CurrentFacts, JobFacts, DispatcherFacts DEF Inv, TypeOK, HeadTimesOut, requestFrame,
     jobVars, workerVars, requestVars, CancelJob, Answer, Idle, Holding
<1>2. Counted'
  BY CountedKept DEF Inv, TypeOK, HeadTimesOut, requestFrame, jobVars, workerVars,
     requestVars, CancelJob, Answer
<1>3. DispatcherOK'
  BY CurrentFacts, JobFacts, DispatcherFacts DEF Inv, TypeOK, HeadTimesOut, requestFrame,
     jobVars, workerVars, requestVars, CancelJob, Answer, DispatcherOK, Idle, Holding,
     WorkerOK
<1>4. ReserveOK'
  BY ReserveKept, CurrentFacts, JobFacts, DispatcherFacts DEF Inv, TypeOK, HeadTimesOut,
     requestFrame, jobVars, workerVars, requestVars, CancelJob, Answer, Taken, Closed,
     Connected, WorkerOK
<1>5. \A i \in Jobs : JobOK(i)'
  BY CurrentFacts, JobFacts, DispatcherFacts DEF Inv, TypeOK, HeadTimesOut, requestFrame,
     jobVars, workerVars, requestVars, CancelJob, Answer, JobOK, Unmade, Waiting,
     DispatcherOK, WorkerOK, AttemptOK, Idle, Holding
<1>6. \A s \in Requests : AttemptOK(s)'
  BY AttemptsKept, CurrentFacts, JobFacts, DispatcherFacts DEF Inv, TypeOK, HeadTimesOut,
     requestFrame, jobVars, workerVars, requestVars, CancelJob, Answer, JobOK, WorkerOK,
     DispatcherOK
<1>7. \A v \in Workers : WorkerOK(v)'
  BY CurrentFacts, JobFacts, DispatcherFacts DEF Inv, TypeOK, HeadTimesOut, requestFrame,
     jobVars, workerVars, requestVars, CancelJob, Answer, WorkerOK, JobOK, Unmade, Waiting,
     Idle, Holding, Connected, Closed
<1> QED  BY <1>1, <1>2, <1>3, <1>4, <1>5, <1>6, <1>7 DEF Inv

LEMMA CallerLeavesInv == ASSUME Inv, NEW r \in Requests, CallerLeaves(r) PROVE Inv'
<1>a. /\ Current(r) \in Jobs /\ Current(r)[1] = r /\ Current(r)[2] = attempt[r]
      /\ phase[r] = "sending" => place[Current(r)] = "request" /\ Current(r) \in slotted
  BY CurrentFacts DEF Inv, CallerLeaves, JobOK, Waiting
<1>0. Counted' /\ pending' \in [Lanes -> Nat]
  BY ReleaseFacts, CurrentFacts, JobFacts, DispatcherFacts DEF Inv, TypeOK, CallerLeaves,
     requestFrame, jobVars, workerVars, requestVars, JobOK, Unmade, Waiting
<1>1. TypeOK'
  <2>1. slotted' \subseteq Jobs /\ answer' \in [Requests -> {"none", "ok", "503", "502",
     "504", "left"}]
    BY <1>a DEF Inv, TypeOK, CallerLeaves, Release
  <2>2. place' \in [Jobs -> {"none", "request", "channel", "queue", "dispatcher", "worker",
     "gone"}]
    BY <1>a DEF Inv, TypeOK, CallerLeaves
  <2> QED  BY <1>0, <2>1, <2>2 DEF Inv, TypeOK, CallerLeaves, requestFrame, workerVars
<1>2. Counted'
  BY <1>0, CountedKept DEF Inv, TypeOK, CallerLeaves, requestFrame, jobVars, workerVars,
     requestVars
<1>3. DispatcherOK'
  BY <1>a, DispatcherFacts DEF Inv, TypeOK, DispatcherOK, CallerLeaves, Release, requestFrame
<1>4. ReserveOK'
  BY ReserveKept, CurrentFacts, JobFacts, DispatcherFacts DEF Inv, TypeOK, CallerLeaves,
     requestFrame, jobVars, workerVars, requestVars, Taken, Closed, Connected, WorkerOK
<1>5. \A i \in Jobs : JobOK(i)'
  BY CurrentFacts, JobFacts, DispatcherFacts DEF Inv, TypeOK, CallerLeaves, requestFrame,
     jobVars, workerVars, requestVars, Release, JobOK, Unmade, Waiting, DispatcherOK,
     WorkerOK, AttemptOK, Idle, Holding
<1>6. \A s \in Requests : AttemptOK(s)'
  BY AttemptsKept, CurrentFacts, JobFacts, DispatcherFacts DEF Inv, TypeOK, CallerLeaves,
     requestFrame, jobVars, workerVars, requestVars, JobOK, WorkerOK, DispatcherOK
<1>7. \A v \in Workers : WorkerOK(v)'
  BY CurrentFacts, JobFacts, DispatcherFacts DEF Inv, TypeOK, CallerLeaves, requestFrame,
     jobVars, workerVars, requestVars, WorkerOK, JobOK, Unmade, Waiting, Idle, Holding,
     Connected, Closed
<1> QED  BY <1>1, <1>2, <1>3, <1>4, <1>5, <1>6, <1>7 DEF Inv

LEMMA BodyEndsInv == ASSUME Inv, NEW r \in Requests, BodyEnds(r) PROVE Inv'
<1>1. TypeOK'
  BY CurrentFacts, JobFacts, DispatcherFacts DEF Inv, TypeOK, BodyEnds, requestFrame,
     jobVars, workerVars, requestVars, GoTo, Idle, Holding
<1>2. Counted'
  BY CountedKept DEF Inv, TypeOK, BodyEnds, requestFrame, jobVars, workerVars, requestVars, GoTo
<1>3. DispatcherOK'
  BY CurrentFacts, JobFacts, DispatcherFacts DEF Inv, TypeOK, BodyEnds, requestFrame,
     jobVars, workerVars, requestVars, GoTo, DispatcherOK, Idle, Holding, WorkerOK
<1>4. ReserveOK'
  BY ReserveKept, CurrentFacts, JobFacts, DispatcherFacts DEF Inv, TypeOK, BodyEnds,
     requestFrame, jobVars, workerVars, requestVars, GoTo, Taken, Closed, Connected,
     WorkerOK
<1>5. \A i \in Jobs : JobOK(i)'
  BY CurrentFacts, JobFacts, DispatcherFacts DEF Inv, TypeOK, BodyEnds, requestFrame,
     jobVars, workerVars, requestVars, GoTo, JobOK, Unmade, Waiting, DispatcherOK, WorkerOK,
     AttemptOK, Idle, Holding
<1>6. \A s \in Requests : AttemptOK(s)'
  BY AttemptsKept, CurrentFacts, JobFacts, DispatcherFacts DEF Inv, TypeOK, BodyEnds,
     requestFrame, jobVars, workerVars, requestVars, GoTo, JobOK, WorkerOK, DispatcherOK
<1>7. \A v \in Workers : WorkerOK(v)'
  BY CurrentFacts, JobFacts, DispatcherFacts DEF Inv, TypeOK, BodyEnds, requestFrame,
     jobVars, workerVars, requestVars, GoTo, WorkerOK, JobOK, Unmade, Waiting, Idle,
     Holding, Connected, Closed
<1> QED  BY <1>1, <1>2, <1>3, <1>4, <1>5, <1>6, <1>7 DEF Inv

LEMMA PairInv == ASSUME Inv, NEW j \in Jobs, NEW w \in Workers, Pair(j, w) PROVE Inv'
<1>a. place[j] = "queue" /\ w \in idle
  BY DEF Pair, NextJobs, AtLane, At
<1>b. dispatcher' \in {dispatcher, Holding("checked", j, w)} /\ slotted' \subseteq slotted
      /\ place' = [place EXCEPT ![j] = IF Abandoned(j) THEN "gone" ELSE "dispatcher"]
  BY DEF Pair, Release
<1>0. Counted' /\ pending' \in [Lanes -> Nat]
  <2>1. CASE Abandoned(j)
    BY <2>1, ReleaseFacts DEF Inv, Pair
  <2>2. CASE ~ Abandoned(j)
    BY <2>2, CountedKept DEF Inv, TypeOK, Pair
  <2> QED  BY <2>1, <2>2
<1>1. TypeOK'
  <2>1. dispatcher' \in {Idle} \cup [pc : {"checked", "sent"}, job : Jobs, worker : Workers]
    BY <1>b DEF Inv, TypeOK, Holding
  <2>2. place' \in [Jobs -> {"none", "request", "channel", "queue", "dispatcher", "worker",
     "gone"}]
    BY <1>b DEF Inv, TypeOK
  <2>3. slotted' \subseteq Jobs /\ idle' \subseteq Workers
    BY <1>b DEF Inv, TypeOK, Pair
  <2> QED  BY <1>0, <2>1, <2>2, <2>3 DEF Inv, TypeOK, Pair, dispatchFrame, requestVars
<1>2. Counted'
  BY <1>0, CountedKept DEF Inv, TypeOK, Pair, dispatchFrame, requestVars, workerVars
<1>3. DispatcherOK'
  BY JobFacts, DispatcherFacts DEF Inv, TypeOK, Pair, dispatchFrame, requestVars,
     workerVars, Release, DispatcherOK, Idle, Holding, WorkerOK
<1>4. ReserveOK'
  <2>1. CASE Abandoned(j)
    BY <2>1, ReserveKept DEF Inv, Pair, Taken, Closed, Connected
  <2>2. CASE ~ Abandoned(j)
    <3>1. /\ dispatcher.pc = "pair" /\ idle' = idle \ {w} /\ IsFiniteSet(idle')
          /\ dispatcher'.pc = "checked" /\ dispatcher'.job = j /\ dispatcher'.worker = w
          /\ Connected' = Connected /\ Closed' = Closed
      BY <2>2, FS_RemoveElement DEF Inv, ReserveOK, Pair, Holding, Connected, Closed
    <3>2. Taken' = IF JobLane(j) = "execution" THEN Taken \cup {w} ELSE Taken
      BY <3>1 DEF Taken, Pair
    <3>3. CASE JobLane(j) # "execution"
      BY <3>1, <3>2, <3>3 DEF Inv, ReserveOK
    <3>4. CASE JobLane(j) = "execution" /\ Closed = {} /\ Cardinality(Connected) > 1
      <4>1. Cardinality(idle) > 1
        <5>1. j \notin AtLane("queue", "control")
          BY <3>4 DEF AtLane
        <5> QED  BY <3>4, <5>1 DEF Pair, NextJobs, ExecutionMayRun, ReserveWorkers
      <4>2. PICK v \in idle : v # w
        <5>1. idle # {w}
          BY <4>1, FS_Singleton
        <5> QED  BY <1>a, <5>1
      <4>3. v \in Workers /\ worker[v] = "idle" /\ runs[v] = None
        BY <3>4 DEF Inv, TypeOK, WorkerOK, Closed
      <4>4. v \in Connected /\ v \notin Taken
        BY <3>1, <4>3 DEF Connected, Taken
      <4> QED  BY <3>1, <3>2, <4>2, <4>4 DEF ReserveOK
    <3> QED  BY <3>1, <3>3, <3>4 DEF ReserveOK
  <2> QED  BY <2>1, <2>2
<1>5. \A i \in Jobs : JobOK(i)'
  <2>1. CASE Abandoned(j)
    BY <1>a, <2>1, JobFacts, DispatcherFacts
    DEF Inv, TypeOK, Pair, Release, JobOK, Unmade, Waiting, dispatchFrame, requestVars
  <2>2. CASE ~ Abandoned(j)
    BY <1>a, <2>2, JobFacts, DispatcherFacts
    DEF Inv, TypeOK, Pair, JobOK, Unmade, Waiting, Holding, dispatchFrame, requestVars
  <2> QED  BY <2>1, <2>2
<1>6. \A s \in Requests : AttemptOK(s)'
  BY <1>a, <1>b, AttemptsKept DEF Inv, TypeOK, Pair, dispatchFrame, requestVars
<1>7. \A v \in Workers : WorkerOK(v)'
  <2>1. CASE Abandoned(j)
    BY <1>a, <2>1 DEF Inv, TypeOK, Pair, WorkerOK
  <2>2. CASE ~ Abandoned(j)
    BY <1>a, <2>2, DispatcherFacts DEF Inv, TypeOK, Pair, WorkerOK, Holding
  <2> QED  BY <2>1, <2>2
<1> QED  BY <1>1, <1>2, <1>3, <1>4, <1>5, <1>6, <1>7 DEF Inv

LEMMA AssignInv == ASSUME Inv, Assign PROVE Inv'
<1>a. dispatcher.pc = "checked" /\ dispatcher.job \in Jobs /\ dispatcher.worker \in Workers
  BY DispatcherFacts DEF Inv, Assign
<1>b. /\ place[dispatcher.job] = "dispatcher" /\ dispatcher.job \in slotted
      /\ runs[dispatcher.worker] = None
  BY <1>a DEF Inv, JobOK, Waiting, WorkerOK
<1>1. TypeOK'
  BY JobFacts, DispatcherFacts DEF Inv, TypeOK, Assign, dispatchFrame, requestVars,
     workerVars, Holding, Idle, Holding
<1>2. Counted'
  BY CountedKept DEF Inv, TypeOK, Assign, dispatchFrame, requestVars, workerVars, Holding
<1>3. DispatcherOK'
  <2>1. CASE worker[dispatcher.worker] = "gone"
    BY <2>1 DEF Assign, DispatcherOK, Idle
  <2>2. CASE worker[dispatcher.worker] # "gone"
    <3>1. dispatcher' = [dispatcher EXCEPT !.pc = "sent"] /\ dispatcher'.job = dispatcher.job
      BY <1>a, <2>2, DispatcherFacts DEF Inv, TypeOK, Assign, Idle
    <3> QED  BY <1>a, <1>b, <2>2, <3>1 DEF Inv, TypeOK, Assign, DispatcherOK
  <2> QED  BY <2>1, <2>2
<1>4. ReserveOK'
  <2>1. CASE worker[dispatcher.worker] = "gone"
    <3>1. dispatcher.worker \in Closed' /\ idle' = idle \ Closed
      BY <1>a, <2>1 DEF Assign, Closed
    <3> QED  BY <3>1, FS_Difference DEF Inv, ReserveOK
  <2>2. CASE worker[dispatcher.worker] # "gone"
    <3>1. /\ dispatcher'.pc = "sent" /\ idle' = idle
          /\ Connected' = Connected /\ Closed' = Closed
      BY <1>a, <2>2 DEF Inv, TypeOK, WorkerOK, Assign, Connected, Closed, Idle
    <3>2. Taken' \subseteq Taken
      BY <1>a, <2>2, <3>1 DEF Inv, TypeOK, Assign, Taken
    <3> QED  BY <3>1, <3>2, ReserveKept DEF Inv
  <2> QED  BY <2>1, <2>2
<1>5. \A i \in Jobs : JobOK(i)'
  BY JobFacts, DispatcherFacts DEF Inv, TypeOK, Assign, dispatchFrame, requestVars,
     workerVars, Holding, JobOK, Unmade, Waiting, DispatcherOK, WorkerOK, AttemptOK, Idle,
     Holding
<1>6. \A s \in Requests : AttemptOK(s)'
  BY AttemptsKept, JobFacts, DispatcherFacts DEF Inv, TypeOK, Assign, dispatchFrame,
     requestVars, workerVars, Holding, JobOK, WorkerOK, DispatcherOK
<1>7. \A v \in Workers : WorkerOK(v)'
  BY JobFacts, DispatcherFacts DEF Inv, TypeOK, Assign, dispatchFrame, requestVars,
     workerVars, Holding, WorkerOK, JobOK, Unmade, Waiting, Idle, Holding, Connected, Closed
<1> QED  BY <1>1, <1>2, <1>3, <1>4, <1>5, <1>6, <1>7 DEF Inv

LEMMA SettleInv == ASSUME Inv, Settle PROVE Inv'
<1>0. Counted' /\ pending' \in [Lanes -> Nat]
  BY ReleaseFacts, JobFacts, DispatcherFacts DEF Inv, TypeOK, Settle, dispatchFrame,
     requestVars, workerVars, JobOK, Unmade, Waiting
<1>1. TypeOK'
  <2>1. dispatcher.job \in Jobs /\ slotted' \subseteq slotted
    BY DispatcherFacts DEF Inv, Settle, Release
  <2> QED  BY <1>0, <2>1 DEF Inv, TypeOK, Settle, dispatchFrame, requestVars
<1>2. Counted'
  BY <1>0, CountedKept DEF Inv, TypeOK, Settle, dispatchFrame, requestVars, workerVars
<1>3. DispatcherOK'
  BY JobFacts, DispatcherFacts DEF Inv, TypeOK, Settle, dispatchFrame, requestVars,
     workerVars, Release, DispatcherOK, Idle, Holding, WorkerOK
<1>4. ReserveOK'
  BY ReserveKept DEF Inv, Settle, Taken, Closed, Connected, Idle
<1>5. \A i \in Jobs : JobOK(i)'
  BY JobFacts, DispatcherFacts DEF Inv, TypeOK, Settle, dispatchFrame, requestVars,
     workerVars, Release, JobOK, Unmade, Waiting, DispatcherOK, WorkerOK, AttemptOK, Idle,
     Holding
<1>6. \A s \in Requests : AttemptOK(s)'
  BY AttemptsKept, JobFacts, DispatcherFacts DEF Inv, TypeOK, Settle, dispatchFrame,
     requestVars, workerVars, JobOK, WorkerOK, DispatcherOK
<1>7. \A v \in Workers : WorkerOK(v)'
  BY JobFacts, DispatcherFacts DEF Inv, TypeOK, Settle, dispatchFrame, requestVars,
     workerVars, WorkerOK, JobOK, Unmade, Waiting, Idle, Holding, Connected, Closed
<1> QED  BY <1>1, <1>2, <1>3, <1>4, <1>5, <1>6, <1>7 DEF Inv

LEMMA ReceiveInv == ASSUME Inv, Receive PROVE Inv'
<1>a. PICK J \in SUBSET At("channel"), W \in SUBSET offers :
        /\ IsFiniteSet(W) /\ offers' = offers \ W /\ idle' = (idle \cup W) \ Closed
        /\ LET kept == At("queue") \cup J
               dropped == {j \in kept : Abandoned(j)}
           IN /\ Release(dropped)
              /\ place' = [j \in Jobs |-> IF j \in dropped THEN "gone"
                                          ELSE IF j \in kept THEN "queue" ELSE place[j]]
  <2>1. /\ \A j : j \in AtLane("channel", "control") \cup AtLane("channel", "execution")
               => {j} \in SUBSET At("channel")
        /\ {} \in SUBSET At("channel") /\ {} \in SUBSET offers
        /\ \A w \in offers : {w} \in SUBSET offers
    BY DEF AtLane
  <2>2. IsFiniteSet({}) /\ \A w : IsFiniteSet({w})
    <3>1. \A w : IsFiniteSet({w})
      BY FS_Singleton
    <3>2. IsFiniteSet({})
      BY FS_EmptySet
    <3> QED  BY <3>1, <3>2
  <2>3. PICK J \in {{j} : j \in IF AtLane("channel", "control") # {} THEN AtLane("channel",
     "control")
                                  ELSE AtLane("channel", "execution")} \cup {{}},
             W \in {{w} : w \in offers} \cup {{}} :
          /\ offers' = offers \ W /\ idle' = (idle \cup W) \ Closed
          /\ LET kept == At("queue") \cup J
                 dropped == {j \in kept : Abandoned(j)}
             IN /\ Release(dropped)
                /\ place' = [j \in Jobs |-> IF j \in dropped THEN "gone"
                                            ELSE IF j \in kept THEN "queue" ELSE place[j]]
    BY DEF Receive
  <2>4. J \in SUBSET At("channel") /\ W \in SUBSET offers /\ IsFiniteSet(W)
    BY <2>1, <2>2
  <2> QED  BY <2>3, <2>4
<1> DEFINE kept == At("queue") \cup J
           dropped == {j \in kept : Abandoned(j)}
<1>b. kept \subseteq Jobs /\ dropped \subseteq kept /\ \A j \in kept :
                                                     place[j] \in {"queue", "channel"}
  BY <1>a DEF At
<1>c. Release(dropped) /\ slotted' = slotted \ dropped
  BY <1>a DEF Release
<1>d. /\ \A j \in dropped : place'[j] = "gone"
      /\ \A j \in kept \ dropped : place'[j] = "queue"
      /\ \A j \in Jobs \ kept : place'[j] = place[j]
      /\ place' \in [Jobs -> {"none", "request", "channel", "queue", "dispatcher", "worker",
                             "gone"}]
  BY <1>a, <1>b DEF Inv, TypeOK
<1>e. /\ W \subseteq offers /\ IsFiniteSet(W)
      /\ offers' = offers \ W /\ idle' = (idle \cup W) \ Closed
  BY <1>a
<1>f. /\ dispatcher = Idle /\ dispatcher.pc = "pair"
      /\ UNCHANGED <<requestVars, head, cancelled, dispatcher, assigned, worker, runs>>
  BY DEF Receive, dispatchFrame, Idle
<1> HIDE DEF kept, dropped
<1>0. Counted' /\ pending' \in [Lanes -> Nat]
  BY <1>c, ReleaseFacts DEF Inv
<1>1. TypeOK'
  BY <1>0, <1>c, <1>d, <1>e, <1>f DEF Inv, TypeOK, requestVars
<1>2. Counted'
  BY <1>0, CountedKept DEF Inv, TypeOK, Receive, dispatchFrame, requestVars, workerVars
<1>3. DispatcherOK'
  BY <1>f DEF DispatcherOK
<1>4. ReserveOK'
  <2>1. IsFiniteSet(idle')
    BY <1>e, FS_Union, FS_Difference DEF Inv, ReserveOK
  <2> QED  BY <1>f, <2>1 DEF Inv, ReserveOK, Taken, Closed, Connected
<1>5. \A j \in Jobs : JobOK(j)'
  BY <1>b, <1>c, <1>d, <1>f DEF Inv, JobOK, Unmade, Waiting, requestVars
<1>6. \A s \in Requests : AttemptOK(s)'
  BY <1>b, <1>d, <1>f, AttemptsKept DEF Inv, requestVars
<1>7. \A w \in Workers : WorkerOK(w)'
  BY <1>b, <1>d, <1>e, <1>f DEF Inv, TypeOK, WorkerOK
<1> QED  BY <1>1, <1>2, <1>3, <1>4, <1>5, <1>6, <1>7 DEF Inv

LEMMA ConnectInv == ASSUME Inv, NEW w \in Workers, Connect(w) PROVE Inv'
<1>1. TypeOK'
  BY JobFacts, DispatcherFacts DEF Inv, TypeOK, Connect, workerFrame, requestVars,
     workerVars, Move, Idle, Holding
<1>2. Counted'
  BY CountedKept DEF Inv, TypeOK, Connect, workerFrame, requestVars, workerVars, Move
<1>3. DispatcherOK'
  BY JobFacts, DispatcherFacts DEF Inv, TypeOK, Connect, workerFrame, requestVars,
     workerVars, Move, DispatcherOK, Idle, Holding, WorkerOK
<1>4. ReserveOK'
  <2>1. w \in Connected' /\ w \notin Taken' /\ Closed' = Closed
    BY DispatcherFacts DEF Inv, TypeOK, Connect, Move, workerFrame, WorkerOK, Connected,
     Closed, Taken
  <2> QED  BY <2>1 DEF Inv, ReserveOK, Connect, workerFrame
<1>5. \A i \in Jobs : JobOK(i)'
  BY JobFacts, DispatcherFacts DEF Inv, TypeOK, Connect, workerFrame, requestVars,
     workerVars, Move, JobOK, Unmade, Waiting, DispatcherOK, WorkerOK, AttemptOK, Idle,
     Holding
<1>6. \A s \in Requests : AttemptOK(s)'
  BY AttemptsKept, JobFacts, DispatcherFacts DEF Inv, TypeOK, Connect, workerFrame,
     requestVars, workerVars, Move, JobOK, WorkerOK, DispatcherOK
<1>7. \A v \in Workers : WorkerOK(v)'
  BY JobFacts, DispatcherFacts DEF Inv, TypeOK, Connect, workerFrame, requestVars,
     workerVars, Move, WorkerOK, JobOK, Unmade, Waiting, Idle, Holding, Connected, Closed
<1> QED  BY <1>1, <1>2, <1>3, <1>4, <1>5, <1>6, <1>7 DEF Inv

LEMMA ReadyInv == ASSUME Inv, NEW w \in Workers, Ready(w) PROVE Inv'
<1>1. TypeOK'
  BY JobFacts, DispatcherFacts DEF Inv, TypeOK, Ready, workerFrame, requestVars, workerVars,
     Move, Idle, Holding
<1>2. Counted'
  BY CountedKept DEF Inv, TypeOK, Ready, workerFrame, requestVars, workerVars, Move
<1>3. DispatcherOK'
  BY JobFacts, DispatcherFacts DEF Inv, TypeOK, Ready, workerFrame, requestVars, workerVars,
     Move, DispatcherOK, Idle, Holding, WorkerOK
<1>4. ReserveOK'
  BY ReserveKept, JobFacts, DispatcherFacts DEF Inv, TypeOK, Ready, workerFrame,
     requestVars, workerVars, Move, Taken, Closed, Connected, WorkerOK
<1>5. \A i \in Jobs : JobOK(i)'
  BY JobFacts, DispatcherFacts DEF Inv, TypeOK, Ready, workerFrame, requestVars, workerVars,
     Move, JobOK, Unmade, Waiting, DispatcherOK, WorkerOK, AttemptOK, Idle, Holding
<1>6. \A s \in Requests : AttemptOK(s)'
  BY AttemptsKept, JobFacts, DispatcherFacts DEF Inv, TypeOK, Ready, workerFrame,
     requestVars, workerVars, Move, JobOK, WorkerOK, DispatcherOK
<1>7. \A v \in Workers : WorkerOK(v)'
  BY JobFacts, DispatcherFacts DEF Inv, TypeOK, Ready, workerFrame, requestVars, workerVars,
     Move, WorkerOK, JobOK, Unmade, Waiting, Idle, Holding, Connected, Closed
<1> QED  BY <1>1, <1>2, <1>3, <1>4, <1>5, <1>6, <1>7 DEF Inv

LEMMA BeginInv == ASSUME Inv, NEW w \in Workers, Begin(w) PROVE Inv'
<1>1. TypeOK'
  BY JobFacts, DispatcherFacts DEF Inv, TypeOK, Begin, workerFrame, requestVars, workerVars,
     Move, Idle, Holding
<1>2. Counted'
  BY CountedKept DEF Inv, TypeOK, Begin, workerFrame, requestVars, workerVars, Move
<1>3. DispatcherOK'
  BY JobFacts, DispatcherFacts DEF Inv, TypeOK, Begin, workerFrame, requestVars, workerVars,
     Move, DispatcherOK, Idle, Holding, WorkerOK
<1>4. ReserveOK'
  BY ReserveKept, JobFacts, DispatcherFacts DEF Inv, TypeOK, Begin, workerFrame,
     requestVars, workerVars, Move, Taken, Closed, Connected, WorkerOK
<1>5. \A i \in Jobs : JobOK(i)'
  BY JobFacts, DispatcherFacts DEF Inv, TypeOK, Begin, workerFrame, requestVars, workerVars,
     Move, JobOK, Unmade, Waiting, DispatcherOK, WorkerOK, AttemptOK, Idle, Holding
<1>6. \A s \in Requests : AttemptOK(s)'
  BY AttemptsKept, JobFacts, DispatcherFacts DEF Inv, TypeOK, Begin, workerFrame,
     requestVars, workerVars, Move, JobOK, WorkerOK, DispatcherOK
<1>7. \A v \in Workers : WorkerOK(v)'
  BY JobFacts, DispatcherFacts DEF Inv, TypeOK, Begin, workerFrame, requestVars, workerVars,
     Move, WorkerOK, JobOK, Unmade, Waiting, Idle, Holding, Connected, Closed
<1> QED  BY <1>1, <1>2, <1>3, <1>4, <1>5, <1>6, <1>7 DEF Inv

LEMMA ResponseHeadInv == ASSUME Inv, NEW w \in Workers, ResponseHead(w) PROVE Inv'
<1>1. TypeOK'
  BY JobFacts, DispatcherFacts DEF Inv, TypeOK, ResponseHead, workerFrame, requestVars,
     workerVars, Move, Idle, Holding
<1>2. Counted'
  BY CountedKept DEF Inv, TypeOK, ResponseHead, workerFrame, requestVars, workerVars, Move
<1>3. DispatcherOK'
  BY JobFacts, DispatcherFacts DEF Inv, TypeOK, ResponseHead, workerFrame, requestVars,
     workerVars, Move, DispatcherOK, Idle, Holding, WorkerOK
<1>4. ReserveOK'
  BY ReserveKept, JobFacts, DispatcherFacts DEF Inv, TypeOK, ResponseHead, workerFrame,
     requestVars, workerVars, Move, Taken, Closed, Connected, WorkerOK
<1>5. \A i \in Jobs : JobOK(i)'
  BY JobFacts, DispatcherFacts DEF Inv, TypeOK, ResponseHead, workerFrame, requestVars,
     workerVars, Move, JobOK, Unmade, Waiting, DispatcherOK, WorkerOK, AttemptOK, Idle,
     Holding
<1>6. \A s \in Requests : AttemptOK(s)'
  BY AttemptsKept, JobFacts, DispatcherFacts DEF Inv, TypeOK, ResponseHead, workerFrame,
     requestVars, workerVars, Move, JobOK, WorkerOK, DispatcherOK
<1>7. \A v \in Workers : WorkerOK(v)'
  BY JobFacts, DispatcherFacts DEF Inv, TypeOK, ResponseHead, workerFrame, requestVars,
     workerVars, Move, WorkerOK, JobOK, Unmade, Waiting, Idle, Holding, Connected, Closed
<1> QED  BY <1>1, <1>2, <1>3, <1>4, <1>5, <1>6, <1>7 DEF Inv

LEMMA ResponseEndInv == ASSUME Inv, NEW w \in Workers, ResponseEnd(w) PROVE Inv'
<1>1. TypeOK'
  BY JobFacts, DispatcherFacts DEF Inv, TypeOK, ResponseEnd, workerFrame, requestVars,
     workerVars, Move, Finish, Idle, Holding
<1>2. Counted'
  BY CountedKept DEF Inv, TypeOK, ResponseEnd, workerFrame, requestVars, workerVars, Move,
     Finish
<1>3. DispatcherOK'
  BY JobFacts, DispatcherFacts DEF Inv, TypeOK, ResponseEnd, workerFrame, requestVars,
     workerVars, Move, Finish, DispatcherOK, Idle, Holding, WorkerOK
<1>4. ReserveOK'
  BY ReserveKept, JobFacts, DispatcherFacts DEF Inv, TypeOK, ResponseEnd, workerFrame,
     requestVars, workerVars, Move, Finish, Taken, Closed, Connected, WorkerOK
<1>5. \A i \in Jobs : JobOK(i)'
  BY JobFacts, DispatcherFacts DEF Inv, TypeOK, ResponseEnd, workerFrame, requestVars,
     workerVars, Move, Finish, JobOK, Unmade, Waiting, DispatcherOK, WorkerOK, AttemptOK,
     Idle, Holding
<1>6. \A s \in Requests : AttemptOK(s)'
  BY AttemptsKept, JobFacts, DispatcherFacts DEF Inv, TypeOK, ResponseEnd, workerFrame,
     requestVars, workerVars, Move, Finish, JobOK, WorkerOK, DispatcherOK
<1>7. \A v \in Workers : WorkerOK(v)'
  BY JobFacts, DispatcherFacts DEF Inv, TypeOK, ResponseEnd, workerFrame, requestVars,
     workerVars, Move, Finish, WorkerOK, JobOK, Unmade, Waiting, Idle, Holding, Connected,
     Closed
<1> QED  BY <1>1, <1>2, <1>3, <1>4, <1>5, <1>6, <1>7 DEF Inv

LEMMA SeesCancelInv == ASSUME Inv, NEW w \in Workers, SeesCancel(w) PROVE Inv'
<1>1. TypeOK'
  BY JobFacts, DispatcherFacts DEF Inv, TypeOK, SeesCancel, workerFrame, requestVars,
     workerVars, Move, Finish, Idle, Holding
<1>2. Counted'
  BY CountedKept DEF Inv, TypeOK, SeesCancel, workerFrame, requestVars, workerVars, Move, Finish
<1>3. DispatcherOK'
  BY JobFacts, DispatcherFacts DEF Inv, TypeOK, SeesCancel, workerFrame, requestVars,
     workerVars, Move, Finish, DispatcherOK, Idle, Holding, WorkerOK
<1>4. ReserveOK'
  BY ReserveKept, JobFacts, DispatcherFacts DEF Inv, TypeOK, SeesCancel, workerFrame,
     requestVars, workerVars, Move, Finish, Taken, Closed, Connected, WorkerOK
<1>5. \A i \in Jobs : JobOK(i)'
  BY JobFacts, DispatcherFacts DEF Inv, TypeOK, SeesCancel, workerFrame, requestVars,
     workerVars, Move, Finish, JobOK, Unmade, Waiting, DispatcherOK, WorkerOK, AttemptOK,
     Idle, Holding
<1>6. \A s \in Requests : AttemptOK(s)'
  BY AttemptsKept, JobFacts, DispatcherFacts DEF Inv, TypeOK, SeesCancel, workerFrame,
     requestVars, workerVars, Move, Finish, JobOK, WorkerOK, DispatcherOK
<1>7. \A v \in Workers : WorkerOK(v)'
  BY JobFacts, DispatcherFacts DEF Inv, TypeOK, SeesCancel, workerFrame, requestVars,
     workerVars, Move, Finish, WorkerOK, JobOK, Unmade, Waiting, Idle, Holding, Connected,
     Closed
<1> QED  BY <1>1, <1>2, <1>3, <1>4, <1>5, <1>6, <1>7 DEF Inv

LEMMA LoseInv == ASSUME Inv, NEW w \in Workers, Lose(w) PROVE Inv'
<1>1. TypeOK'
  BY JobFacts, DispatcherFacts DEF Inv, TypeOK, Lose, workerFrame, requestVars, workerVars,
     Move, Finish, Idle, Holding
<1>2. Counted'
  BY CountedKept DEF Inv, TypeOK, Lose, workerFrame, requestVars, workerVars, Move, Finish
<1>3. DispatcherOK'
  BY JobFacts, DispatcherFacts DEF Inv, TypeOK, Lose, workerFrame, requestVars, workerVars,
     Move, Finish, DispatcherOK, Idle, Holding, WorkerOK
<1>4. ReserveOK'
  BY ReserveKept, JobFacts, DispatcherFacts DEF Inv, TypeOK, Lose, workerFrame, requestVars,
     workerVars, Move, Finish, Taken, Closed, Connected, WorkerOK
<1>5. \A i \in Jobs : JobOK(i)'
  BY JobFacts, DispatcherFacts DEF Inv, TypeOK, Lose, workerFrame, requestVars, workerVars,
     Move, Finish, JobOK, Unmade, Waiting, DispatcherOK, WorkerOK, AttemptOK, Idle, Holding
<1>6. \A s \in Requests : AttemptOK(s)'
  BY AttemptsKept, JobFacts, DispatcherFacts DEF Inv, TypeOK, Lose, workerFrame,
     requestVars, workerVars, Move, Finish, JobOK, WorkerOK, DispatcherOK
<1>7. \A v \in Workers : WorkerOK(v)'
  BY JobFacts, DispatcherFacts DEF Inv, TypeOK, Lose, workerFrame, requestVars, workerVars,
     Move, Finish, WorkerOK, JobOK, Unmade, Waiting, Idle, Holding, Connected, Closed
<1> QED  BY <1>1, <1>2, <1>3, <1>4, <1>5, <1>6, <1>7 DEF Inv

-----------------------------------------------------------------------------
(* The theorems                                                            *)

LEMMA StepInv == Inv /\ [Next]_vars => Inv'
<1> SUFFICES ASSUME Inv, [Next]_vars PROVE Inv'  OBVIOUS
<1>1. CASE UNCHANGED vars
  BY <1>1
  DEF vars, requestVars, jobVars, workerVars, Inv, TypeOK, Counted, DispatcherOK, ReserveOK,
      Taken, Closed, Connected, JobOK, Unmade, AttemptOK, WorkerOK
<1>2. ASSUME NEW r \in Requests, Request(r) PROVE Inv'
  BY <1>2, ArriveInv, GraceEndsInv, AcquireInv, AcquireTimesOutInv, SendInv, SendTimesOutInv,
     AssignedInv, AssignTimesOutInv, HeadArrivesInv, HeadFailsInv, HeadTimesOutInv,
     CallerLeavesInv, BodyEndsInv
  DEF Request, Progress, Deadline
<1>3. CASE Dispatch
  BY <1>3, PairInv, AssignInv, SettleInv, ReceiveInv DEF Dispatch
<1>4. ASSUME NEW w \in Workers, WorkerTask(w) \/ Agent(w) PROVE Inv'
  BY <1>4, ConnectInv, ReadyInv, BeginInv, ResponseHeadInv, ResponseEndInv, SeesCancelInv, LoseInv
  DEF WorkerTask, Agent
<1> QED  BY <1>1, <1>2, <1>3, <1>4 DEF Next

\* At the start there are no jobs and nothing is connected.
LEMMA InitInv == Init => Inv
<1> SUFFICES ASSUME Init PROVE Inv  OBVIOUS
<1>1. TypeOK
  BY DEF Init, TypeOK, Idle
<1>2. Counted
  <2>1. \A l \in Lanes : {j \in slotted : JobLane(j) = l} = {}
    BY DEF Init
  <2> QED  BY <2>1, FS_EmptySet, ProxyAssumption DEF Init, Counted
<1>3. DispatcherOK /\ ReserveOK
  <2>1. Connected = {}
    BY DEF Init, Connected
  <2> QED  BY <2>1, FS_EmptySet DEF Init, DispatcherOK, ReserveOK, Idle
<1>4. \A j \in Jobs : JobOK(j)
  BY JobFacts DEF Init, JobOK, Unmade, Waiting, Idle
<1>5. (\A r \in Requests : AttemptOK(r)) /\ \A w \in Workers : WorkerOK(w)
  BY DEF Init, AttemptOK, WorkerOK, Idle
<1> QED  BY <1>1, <1>2, <1>3, <1>4, <1>5 DEF Inv

LEMMA InvHolds == Spec => []Inv
  BY InitInv, StepInv, PTL DEF Spec

\* For any requests, workers and limits, the requests, jobs and workers keep their types.
THEOREM WellTyped == Spec => []TypeOK
  BY InvHolds, PTL DEF Inv

\* However requests time out, leave or are pushed back: the counter of a lane is the number
\* of slots its jobs hold, within the limit, and a job has its slot exactly while it waits
\* for a worker (PendingRequestSlot).
THEOREM SlotsAreConserved == Spec => []SlotsConserved
<1>1. Inv => SlotsConserved
  <2> SUFFICES ASSUME Inv PROVE SlotsConserved  OBVIOUS
  <2>1. \A j \in slotted : j \in Jobs
    BY DEF Inv, TypeOK
  <2>2. \A l \in Lanes :
          /\ pending[l] = Cardinality({j \in slotted : JobLane(j) = l})
          /\ pending[l] <= PendingLimit[l]
    BY DEF Inv, Counted
  <2>3. \A j \in Jobs :
          /\ place[j] \in Waiting => j \in slotted
          /\ j \in slotted =>
               place[j] \in Waiting \/ (dispatcher.pc = "sent" /\ dispatcher.job = j)
    <3> TAKE j \in Jobs
    <3>1. JobOK(j)
      BY DEF Inv
    <3> QED  BY <3>1 DEF JobOK
  <2>4. \A j \in slotted :
          \/ place[j] \in {"request", "channel", "queue", "dispatcher"}
          \/ dispatcher.pc = "sent" /\ dispatcher.job = j
    BY <2>1, <2>3 DEF Waiting
  <2>5. \A j \in Jobs :
          place[j] \in {"request", "channel", "queue", "dispatcher"} => j \in slotted
    BY <2>3 DEF Waiting
  <2> QED  BY <2>2, <2>4, <2>5 DEF SlotsConserved
<1> QED  BY <1>1, InvHolds, PTL

\* A request without a retry class is sent once, and two workers never run one request at
\* the same time (proxy_request, automatic_retry_class).
THEOREM RepeatsAreSafe == Spec => []RepeatedSafely
<1>1. Inv => RepeatedSafely
  <2> SUFFICES ASSUME Inv PROVE RepeatedSafely  OBVIOUS
  <2>1. \A r \in Requests \ Repeatable : place[<<r, 2>>] = "none"
    <3>1. \A r \in Requests \ Repeatable : attempt[r] = 1
      <4> TAKE r \in Requests \ Repeatable
      <4>1. attempt[r] \in 1 .. 2 /\ AttemptOK(r)
        BY DEF Inv, TypeOK
      <4> QED  BY <4>1 DEF AttemptOK
    <3>2. \A r \in Requests \ Repeatable : Unmade(<<r, 2>>)
      BY <3>1, JobFacts DEF Unmade
    <3> QED  BY <3>2, JobFacts DEF Inv, JobOK
  <2>2. ASSUME NEW r \in Requests, NEW v \in Workers, NEW w \in Workers,
               Executes(v, r), Executes(w, r)
        PROVE  v = w
    <3>1. /\ runs[v] \in Jobs /\ runs[v][1] = r /\ place[runs[v]] = "worker"
          /\ runs[w] \in Jobs /\ runs[w][1] = r /\ place[runs[w]] = "worker"
      BY <2>2 DEF Inv, TypeOK, WorkerOK, Executes
    <3>2. /\ runs[v][2] = 1 => runs[v] = <<r, 1>>
          /\ runs[w][2] = 1 => runs[w] = <<r, 1>>
      BY <3>1, JobFacts
    <3>3. runs[v][2] = attempt[r] /\ runs[w][2] = attempt[r]
      <4>1. ~ Unmade(runs[v]) /\ ~ Unmade(runs[w])
        BY <3>1 DEF Inv, JobOK
      <4>2. attempt[r] \in {1, 2} /\ runs[v][2] \in {1, 2} /\ runs[w][2] \in {1, 2}
        BY <3>1, JobFacts DEF Inv, TypeOK
      <4>3. runs[v][2] <= attempt[r] /\ runs[w][2] <= attempt[r]
        BY <3>1, <4>1, <4>2 DEF Unmade
      <4>4. attempt[r] = 2 => place[<<r, 1>>] = "gone"
        BY DEF Inv, AttemptOK
      <4> QED  BY <3>1, <3>2, <4>2, <4>3, <4>4
    <3>4. runs[v] = runs[w]
      BY <3>1, <3>3, JobFacts
    <3> QED  BY <3>1, <3>4, JobFacts DEF Inv, WorkerOK
  <2> QED  BY <2>1, <2>2 DEF RepeatedSafely
<1> QED  BY <1>1, InvHolds, PTL

\* While no worker was lost, executions never hold all of several connected workers
\* (dispatch_requests, CONTROL_WORKER_RESERVE).
THEOREM ReserveIsKept == Spec => []ControlReserve
<1>1. Inv => ControlReserve
  <2> SUFFICES ASSUME Inv, Closed = {}, Cardinality(Connected) > 1
               PROVE  \E w \in Connected : runs[w] = None \/ JobLane(runs[w]) = "control"
    BY DEF ControlReserve
  <2>1. PICK w \in Connected : w \notin Taken
    BY DEF Inv, ReserveOK
  <2>2. w \in Workers
    BY DEF Connected
  <2>3. runs[w] # None => JobLane(runs[w]) \in {"control", "execution"}
    BY <2>2, JobFacts, ProxyAssumption DEF Inv, TypeOK, JobLane
  <2> QED  BY <2>1, <2>2, <2>3 DEF Taken
<1> QED  BY <1>1, InvHolds, PTL

-----------------------------------------------------------------------------
(* Refinement of JobDelivery                                               *)

\* A step that moves no job.
LEMMA Unmoved ==
  ASSUME UNCHANGED <<WaitingJobs, HandedJobs, RunningJobs, At("gone")>>
  PROVE  UNCHANGED Delivery!vars
  BY DEF Delivery!vars

LEMMA NothingMoves ==
  ASSUME UNCHANGED <<place, worker, runs>>
  PROVE  UNCHANGED Delivery!vars
  BY Unmoved DEF WaitingJobs, HandedJobs, RunningJobs, At

\* A job nobody has yet is dropped with all that are dropped with it.
LEMMA WaitingEnd ==
  ASSUME Inv, NEW J \in SUBSET Jobs, J \subseteq WaitingJobs, UNCHANGED <<worker, runs>>,
         WaitingJobs' = WaitingJobs \ J, At("gone")' = At("gone") \cup J
  PROVE  Delivery!Next
<1>1. HandedJobs' = HandedJobs /\ RunningJobs' = RunningJobs
  BY DEF HandedJobs, RunningJobs
<1>2. \A w \in Workers : worker[w] \in {"given", "busy"} => runs[w] \notin WaitingJobs
  BY DEF Inv, WorkerOK, WaitingJobs
<1>3. HandedJobs \cap J = {}
  BY <1>2 DEF HandedJobs
<1>4. \A w \in Workers : RunningJobs[w] \notin J
  BY <1>2, JobFacts DEF RunningJobs
<1>5. RunningJobs = [w \in Workers |-> IF RunningJobs[w] \in J THEN None ELSE RunningJobs[w]]
  BY <1>4 DEF RunningJobs
<1>6. Delivery!End(J)
  BY <1>1, <1>3, <1>5 DEF Delivery!End
<1> QED  BY <1>6 DEF Delivery!Next

\* A worker gives its job back, or is lost with it.
LEMMA WorkerEnds ==
  ASSUME Inv, NEW w \in Workers, worker[w] \in {"given", "busy"},
         worker' = [worker EXCEPT ![w] = worker'[w]], worker'[w] \in {"connected", "gone"},
         Finish(w)
  PROVE  Delivery!Next
<1> DEFINE j == runs[w]
<1>1. j \in Jobs /\ place[j] = "worker" /\ \A v \in Workers : runs[v] = j => v = w
  BY DEF Inv, TypeOK, WorkerOK
<1>2. /\ place' = [place EXCEPT ![j] = "gone"] /\ runs' = [runs EXCEPT ![w] = None]
      /\ \A v \in Workers \ {w} : worker'[v] = worker[v] /\ runs'[v] = runs[v]
  BY DEF Inv, TypeOK, Finish
<1>3. WaitingJobs' = WaitingJobs \ {j} /\ At("gone")' = At("gone") \cup {j}
  BY <1>1, <1>2 DEF Inv, TypeOK, WaitingJobs, At
<1>4. HandedJobs' = HandedJobs \ {j}
  BY <1>1, <1>2 DEF HandedJobs
<1>5. RunningJobs' = [v \in Workers |-> IF RunningJobs[v] \in {j} THEN None ELSE RunningJobs[v]]
  BY <1>1, <1>2, JobFacts DEF RunningJobs
<1>6. {j} \subseteq WaitingJobs \cup HandedJobs \cup Delivery!Run
  BY <1>1, JobFacts DEF HandedJobs, RunningJobs, Delivery!Run
<1>7. Delivery!End({j})
  BY <1>3, <1>4, <1>5, <1>6 DEF Delivery!End
<1> QED  BY <1>1, <1>7 DEF Delivery!Next

LEMMA RequestDelivers ==
  ASSUME Inv, NEW r \in Requests, Request(r)
  PROVE  [Delivery!Next]_(Delivery!vars)
<1> DEFINE c == Current(r)
<1>1. c \in Jobs /\ c[1] = r /\ c[2] = attempt[r] /\ JobOK(c)
  BY CurrentFacts DEF Inv
<1>2. CASE Acquire(r)
  <2>1. place[c] = "none" /\ place' = [place EXCEPT ![c] = "request"] /\ UNCHANGED <<worker, runs>>
    BY <1>1, <1>2 DEF Acquire, JobOK, Unmade, requestFrame, workerVars
  <2>2. WaitingJobs' = WaitingJobs \cup {c} /\ UNCHANGED <<HandedJobs, RunningJobs, At("gone")>>
    BY <1>1, <2>1 DEF Inv, TypeOK, WaitingJobs, HandedJobs, RunningJobs, At
  <2>3. \A w \in Workers : worker[w] \in {"given", "busy"} => runs[w] # c
    BY <2>1 DEF Inv, WorkerOK
  <2>4. c \notin WaitingJobs \cup HandedJobs \cup Delivery!Run \cup At("gone")
    BY <2>1, <2>3, <1>1, JobFacts DEF WaitingJobs, HandedJobs, RunningJobs, Delivery!Run, At
  <2>5. Delivery!Send(c)
    BY <2>2, <2>4 DEF Delivery!Send
  <2> QED  BY <1>1, <2>5 DEF Delivery!Next
<1>3. CASE Send(r)
  <2>1. place[c] = "request" /\ place' = [place EXCEPT ![c] = "channel"] /\ UNCHANGED <<worker, runs>>
    BY <1>1, <1>3 DEF Send, JobOK, requestFrame, workerVars
  <2> QED  BY <1>1, <2>1, Unmoved DEF Inv, TypeOK, WaitingJobs, HandedJobs, RunningJobs, At
<1>4. CASE SendTimesOut(r) \/ (CallerLeaves(r) /\ phase[r] = "sending")
  <2>1. place[c] = "request" /\ place' = [place EXCEPT ![c] = "gone"] /\ UNCHANGED <<worker, runs>>
    BY <1>1, <1>4 DEF SendTimesOut, CallerLeaves, JobOK, requestFrame, workerVars
  <2>2. /\ {c} \in SUBSET Jobs /\ {c} \subseteq WaitingJobs
        /\ WaitingJobs' = WaitingJobs \ {c} /\ At("gone")' = At("gone") \cup {c}
    BY <1>1, <2>1 DEF Inv, TypeOK, WaitingJobs, At
  <2> QED  BY <2>1, <2>2, WaitingEnd
<1>5. CASE UNCHANGED <<place, worker, runs>>
  BY <1>5, NothingMoves
<1>6. CASE CallerLeaves(r) /\ phase[r] # "sending"
  BY <1>5, <1>6 DEF CallerLeaves, requestFrame, workerVars
<1>7. CASE Arrive(r) \/ GraceEnds(r) \/ AcquireTimesOut(r) \/ Assigned(r) \/ AssignTimesOut(r)
  BY <1>5, <1>7 DEF Arrive, GraceEnds, AcquireTimesOut, Assigned, AssignTimesOut, requestFrame,
                    jobVars, workerVars
<1>8. CASE HeadArrives(r) \/ HeadFails(r) \/ HeadTimesOut(r) \/ BodyEnds(r)
  BY <1>5, <1>8 DEF HeadArrives, HeadFails, HeadTimesOut, BodyEnds, requestFrame, jobVars, workerVars
<1> QED
  BY <1>2, <1>3, <1>4, <1>6, <1>7, <1>8 DEF Request, Progress, Deadline

\* The dispatcher hands a job to one worker, puts it back, or drops jobs.
LEMMA DispatchDelivers ==
  ASSUME Inv, Dispatch
  PROVE  [Delivery!Next]_(Delivery!vars)
<1>1. ASSUME NEW j \in Jobs, NEW w \in Workers, Pair(j, w)
      PROVE  [Delivery!Next]_(Delivery!vars)
  <2>1. /\ place[j] = "queue" /\ UNCHANGED <<worker, runs>>
        /\ place' = [place EXCEPT ![j] = IF Abandoned(j) THEN "gone" ELSE "dispatcher"]
    BY <1>1 DEF Pair, NextJobs, AtLane, At
  <2>2. CASE Abandoned(j)
    <3>1. /\ {j} \in SUBSET Jobs /\ {j} \subseteq WaitingJobs
          /\ WaitingJobs' = WaitingJobs \ {j} /\ At("gone")' = At("gone") \cup {j}
      BY <2>1, <2>2 DEF Inv, TypeOK, WaitingJobs, At
    <3> QED  BY <2>1, <3>1, WaitingEnd
  <2>3. CASE ~ Abandoned(j)
    BY <2>1, <2>3, Unmoved DEF Inv, TypeOK, WaitingJobs, HandedJobs, RunningJobs, At
  <2> QED  BY <2>2, <2>3
<1>2. CASE Assign
  <2> DEFINE j == dispatcher.job  w == dispatcher.worker
  <2>1. dispatcher.pc = "checked" /\ j \in Jobs /\ w \in Workers
    BY <1>2, DispatcherFacts DEF Inv, Assign
  <2>2. place[j] = "dispatcher" /\ worker[w] \in {"idle", "gone"} /\ runs[w] = None
    BY <2>1 DEF Inv, JobOK, WorkerOK
  <2>3. CASE worker[w] = "gone"
    <3>1. place' = [place EXCEPT ![j] = "queue"] /\ UNCHANGED <<worker, runs>>
      BY <1>2, <2>3 DEF Assign
    <3> QED
      BY <2>1, <2>2, <3>1, Unmoved DEF Inv, TypeOK, WaitingJobs, HandedJobs, RunningJobs, At
  <2>4. CASE worker[w] # "gone"
    <3>1. /\ place' = [place EXCEPT ![j] = "worker"] /\ worker' = [worker EXCEPT ![w] = "given"]
          /\ runs' = [runs EXCEPT ![w] = j]
      BY <1>2, <2>4 DEF Assign
    <3>2. j \in WaitingJobs /\ WaitingJobs' = WaitingJobs \ {j} /\ At("gone")' = At("gone")
      BY <2>1, <2>2, <3>1 DEF Inv, TypeOK, WaitingJobs, At
    <3>3. worker'[w] = "given" /\ runs'[w] = j /\ worker[w] = "idle"
          /\ \A v \in Workers \ {w} : worker'[v] = worker[v] /\ runs'[v] = runs[v]
      BY <2>1, <2>2, <2>4, <3>1 DEF Inv, TypeOK
    <3>4. HandedJobs' = HandedJobs \cup {j}
      BY <2>1, <3>3 DEF HandedJobs
    <3>5. RunningJobs' = RunningJobs
      BY <2>1, <3>3 DEF RunningJobs
    <3>6. Delivery!Hand(j)
      BY <3>2, <3>4, <3>5 DEF Delivery!Hand
    <3> QED  BY <2>1, <3>6 DEF Delivery!Next
  <2> QED  BY <2>3, <2>4
<1>3. CASE Settle
  BY <1>3, NothingMoves DEF Settle
<1>4. CASE Receive
  <2>1. PICK kept, dropped :
          /\ kept \subseteq At("queue") \cup At("channel") /\ At("queue") \subseteq kept
          /\ dropped \subseteq kept
          /\ place' = [j \in Jobs |-> IF j \in dropped THEN "gone"
                                      ELSE IF j \in kept THEN "queue" ELSE place[j]]
    <3>1. PICK J \in {{j} : j \in IF AtLane("channel", "control") # {}
                                    THEN AtLane("channel", "control")
                                    ELSE AtLane("channel", "execution")} \cup {{}} :
            LET kept == At("queue") \cup J
                dropped == {j \in kept : Abandoned(j)}
            IN place' = [j \in Jobs |-> IF j \in dropped THEN "gone"
                                        ELSE IF j \in kept THEN "queue" ELSE place[j]]
      BY <1>4 DEF Receive
    <3>2. J \subseteq At("channel")
      BY DEF AtLane
    <3> DEFINE kept == At("queue") \cup J  dropped == {j \in kept : Abandoned(j)}
    <3>3. /\ kept \subseteq At("queue") \cup At("channel") /\ At("queue") \subseteq kept
          /\ dropped \subseteq kept
      BY <3>2
    <3> QED  BY <3>1, <3>3
  <2>2. UNCHANGED <<worker, runs>>
    BY <1>4 DEF Receive
  <2>3. dropped \in SUBSET Jobs /\ dropped \subseteq WaitingJobs
    BY <2>1 DEF At, WaitingJobs
  <2>4. WaitingJobs' = WaitingJobs \ dropped
    BY <2>1 DEF At, WaitingJobs
  <2>5. At("gone")' = At("gone") \cup dropped
    BY <2>1 DEF At
  <2> QED  BY <2>2, <2>3, <2>4, <2>5, WaitingEnd
<1> QED  BY <1>1, <1>2, <1>3, <1>4 DEF Dispatch

\* A worker that begins has the job it was given, and nothing else gives it one.
LEMMA WorkerDelivers ==
  ASSUME Inv, NEW w \in Workers, WorkerTask(w) \/ Agent(w)
  PROVE  [Delivery!Next]_(Delivery!vars)
<1>1. CASE Begin(w)
  <2> DEFINE j == runs[w]
  <2>1. /\ worker[w] = "given" /\ worker' = [worker EXCEPT ![w] = "busy"]
        /\ UNCHANGED <<place, runs>>
    BY <1>1 DEF Begin, Move, workerFrame
  <2>2. j \in Jobs /\ \A v \in Workers : runs[v] = j => v = w
    BY <2>1 DEF Inv, TypeOK, WorkerOK
  <2>3. UNCHANGED <<WaitingJobs, At("gone")>>
    BY <2>1 DEF WaitingJobs, At
  <2>4. worker'[w] = "busy" /\ \A v \in Workers \ {w} : worker'[v] = worker[v]
    BY <2>1 DEF Inv, TypeOK
  <2>5. j \in HandedJobs /\ HandedJobs' = HandedJobs \ {j}
    BY <2>1, <2>2, <2>4 DEF HandedJobs
  <2>6. RunningJobs[w] = None /\ RunningJobs' = [RunningJobs EXCEPT ![w] = j]
    BY <2>1, <2>4 DEF RunningJobs
  <2>7. Delivery!Start(j, w)
    BY <2>3, <2>5, <2>6 DEF Delivery!Start
  <2> QED  BY <2>2, <2>7 DEF Delivery!Next
<1>2. CASE SeesCancel(w) \/ ResponseEnd(w) \/ (Lose(w) /\ runs[w] # None)
  <2>1. /\ worker[w] \in {"given", "busy"} /\ Finish(w)
        /\ worker' = [worker EXCEPT ![w] = worker'[w]] /\ worker'[w] \in {"connected", "gone"}
    BY <1>2 DEF SeesCancel, ResponseEnd, Lose, Move, Inv, TypeOK, WorkerOK
  <2> QED  BY <2>1, WorkerEnds
<1>3. CASE ResponseHead(w)
  BY <1>3, NothingMoves DEF ResponseHead, workerVars
<1>4. CASE Connect(w) \/ Ready(w) \/ (Lose(w) /\ runs[w] = None)
  <2>1. /\ worker[w] \notin {"given", "busy"} /\ UNCHANGED <<place, runs>>
        /\ worker' = [worker EXCEPT ![w] = worker'[w]] /\ worker'[w] \notin {"given", "busy"}
    BY <1>4 DEF Connect, Ready, Lose, Move, Inv, TypeOK, WorkerOK
  <2>2. \A v \in Workers \ {w} : worker'[v] = worker[v]
    BY <2>1 DEF Inv, TypeOK
  <2>3. HandedJobs' = HandedJobs /\ RunningJobs' = RunningJobs
    BY <2>1, <2>2 DEF HandedJobs, RunningJobs
  <2>4. UNCHANGED <<WaitingJobs, At("gone")>>
    BY <2>1 DEF WaitingJobs, At
  <2> QED  BY <2>3, <2>4, Unmoved
<1> QED  BY <1>1, <1>2, <1>3, <1>4 DEF WorkerTask, Agent

\* Every attempt of every request is handed to at most one worker, once, and is over once;
\* what fails, times out or loses its worker after that is never queued again
\* (dispatch_requests, proxy_job_over_socket).
THEOREM DeliveredOnce == Spec => DeliverySpec
<1>1. Init => Delivery!Init
  BY DEF Init, Delivery!Init, WaitingJobs, HandedJobs, RunningJobs, At
<1>2. Inv /\ [Next]_vars => [Delivery!Next]_(Delivery!vars)
  <2> SUFFICES ASSUME Inv, [Next]_vars PROVE [Delivery!Next]_(Delivery!vars)  OBVIOUS
  <2>1. CASE UNCHANGED vars
    BY <2>1, NothingMoves DEF vars, jobVars, workerVars
  <2> QED  BY <2>1, RequestDelivers, DispatchDelivers, WorkerDelivers DEF Next
<1> QED  BY InvHolds, <1>1, <1>2, PTL DEF Spec, DeliverySpec, Delivery!Spec
=============================================================================
