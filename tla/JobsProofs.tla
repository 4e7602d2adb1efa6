----------------------------- MODULE JobsProofs ------------------------------
(***************************************************************************)
(* Theorems about Jobs for any requests, keys, attempts, concurrency and   *)
(* number of store faults: its types, one process step per idempotency     *)
(* key, and an audit trail that is true.                                   *)
(***************************************************************************)
EXTENDS Jobs, TLAPS

-----------------------------------------------------------------------------
(* The inductive invariant                                                 *)

\* What the store says of a job, by where its request and its run are: a job
\* that has a document owns its key, and only such a job is processed; the record
\* says SUCCEEDED when the event is written, and a run goes on after it only
\* because the write threw.
JobIsTrue(r) ==
    /\ job[r] # "ABSENT" => keyDoc[KeyOf[r]] = r
    /\ poster[r] = "start" => job[r] = "ABSENT"
    /\ poster[r] \in {"start", "send"} => run[r].at = "none"
    /\ r \in processed \/ run[r].at = "process" => job[r] # "ABSENT"
    /\ run[r].at \in {"none", "queued", "process"} => r \notin processed
    /\ run[r].at \in {"succeed", "audit"} => r \in processed
    /\ run[r].at = "audit" => job[r] = "SUCCEEDED"
    /\ run[r].at = "ended" => job[r] = "SUCCEEDED" /\ r \in audit
    /\ r \in audit =>
          /\ r \in processed
          /\ job[r] \in {"RUNNING", "SUCCEEDED"}
          /\ run[r].errors > 0 \/ run[r].at \in {"letter", "dropped", "ended"}

JobsInv == TypeOK /\ \A r \in Requests : JobIsTrue(r)

-----------------------------------------------------------------------------
(* Type correctness                                                        *)

LEMMA InitType == Init => TypeOK
  BY JobsAssumption DEF Init, TypeOK, JobStatus, PosterPhase, Run, RunPhase

\* A store write keeps the types of what it writes.
LEMMA WriteType ==
  ASSUME TypeOK, NEW r \in Requests, Write(r)
  PROVE  /\ keyDoc' = keyDoc
         /\ job' \in [Requests -> JobStatus]
         /\ audit' \subseteq Requests
  BY DEF TypeOK, Write, Update, Log, JobStatus

LEMMA TypeStep ==
  ASSUME TypeOK, [Next]_vars
  PROVE  TypeOK'
<1> USE JobsAssumption
<1>1. ASSUME NEW r \in Requests, Create(r) \/ CrashPoster(r)
      PROVE  TypeOK'
  BY <1>1 DEF Create, CrashPoster, TypeOK, store, PosterPhase, JobStatus
<1>2. ASSUME NEW r \in Requests, Send(r) \/ Deliver(r) \/ Process(r) \/ HandleFailure(r)
      PROVE  TypeOK'
  <2>1. {"queued", "begin", "dropped"} \subseteq RunPhase
    BY DEF RunPhase, WorkerPhase
  <2>2. run' \in [Requests -> Run]
    BY <1>2, <2>1 DEF Send, Deliver, Process, HandleFailure, GoTo, TypeOK, Run
  <2> QED
    BY <1>2, <2>2 DEF Send, Deliver, Process, HandleFailure, TypeOK, store, PosterPhase
<1>3. ASSUME NEW r \in Requests, Begin(r) \/ Succeed(r) \/ AuditSuccess(r)
      PROVE  TypeOK'
  <2>1. Write(r) /\ UNCHANGED <<poster, processed, faults>>
    BY <1>3 DEF Begin, Succeed, AuditSuccess
  <2>2. \E phase \in RunPhase : GoOn(r, phase) \/ GoTo(r, phase)
    BY <1>3 DEF Begin, Succeed, AuditSuccess, RunPhase, WorkerPhase
  <2>3. run' \in [Requests -> Run]
    BY <2>2 DEF GoOn, GoTo, TypeOK, Run
  <2> QED
    BY <2>1, <2>3, WriteType DEF TypeOK
<1>4. ASSUME NEW r \in Requests, Rethrow(r)
      PROVE  run' \in [Requests -> Run]
  <2>1. {"begin", "letter"} \subseteq RunPhase
    BY DEF RunPhase, WorkerPhase
  <2> QED
    BY <1>4, <2>1 DEF Rethrow, TypeOK, Run
<1>5. ASSUME NEW r \in Requests, Throw(r) PROVE TypeOK'
  BY <1>4, <1>5 DEF Throw, TypeOK, store
<1>6. ASSUME NEW r \in Requests, StoreFault(r) PROVE TypeOK'
  <2>1. /\ keyDoc' = keyDoc
        /\ job' \in [Requests -> JobStatus]
        /\ audit' \subseteq Requests
    BY <1>6, WriteType DEF StoreFault, store, TypeOK
  <2>2. faults' \in 0..MaxFaults
    BY <1>6 DEF StoreFault, TypeOK
  <2> QED
    BY <1>4, <1>6, <2>1, <2>2 DEF StoreFault, TypeOK
<1>7. CASE UNCHANGED vars
  BY <1>7 DEF vars, store, TypeOK
<1> QED
  BY <1>1, <1>2, <1>3, <1>5, <1>6, <1>7 DEF Next, Worker

\* Every reachable state has its types: TypeOK.
THEOREM JobsTypeCorrect == Spec => []TypeOK
<1>1. TypeOK /\ [Next]_vars => TypeOK'
  BY TypeStep
<1> QED
  BY <1>1, InitType, PTL DEF Spec

-----------------------------------------------------------------------------
(* The store and the runs                                                  *)

LEMMA JobsInit == Init => JobsInv
<1> SUFFICES ASSUME Init PROVE JobsInv
  OBVIOUS
<1>1. \A r \in Requests : JobIsTrue(r)
  BY DEF Init, JobIsTrue
<1> QED
  BY <1>1, InitType DEF JobsInv

\* A step of one request leaves the others' jobs, events and runs alone.
LEMMA Frame ==
  ASSUME JobsInv, NEW r \in Requests,
         Create(r) \/ Send(r) \/ CrashPoster(r) \/ Worker(r) \/ StoreFault(r)
  PROVE  /\ \A s \in Requests : s # r =>
                /\ job'[s] = job[s] /\ run'[s] = run[s] /\ poster'[s] = poster[s]
                /\ s \in processed' <=> s \in processed
                /\ s \in audit' <=> s \in audit
         /\ \A s \in Requests : keyDoc[KeyOf[s]] # NoJob => keyDoc'[KeyOf[s]] = keyDoc[KeyOf[s]]
<1> USE JobsAssumption DEF JobsInv, TypeOK
<1>1. CASE Create(r) \/ Send(r) \/ CrashPoster(r)
  BY <1>1 DEF Create, Send, CrashPoster, store
<1>2. ASSUME Write(r)
      PROVE  /\ \A s \in Requests : s # r => job'[s] = job[s] /\ (s \in audit' <=> s \in audit)
             /\ keyDoc' = keyDoc
  BY <1>2 DEF Write, Update, Log
<1>3. CASE Begin(r) \/ Succeed(r) \/ AuditSuccess(r)
  <2>1. Write(r) /\ UNCHANGED <<poster, processed>>
    BY <1>3 DEF Begin, Succeed, AuditSuccess
  <2>2. \A s \in Requests : s # r => run'[s] = run[s]
    BY <1>3 DEF Begin, Succeed, AuditSuccess, GoOn, GoTo
  <2> QED
    BY <1>2, <2>1, <2>2
<1>4. CASE Deliver(r) \/ Process(r) \/ HandleFailure(r)
  BY <1>4 DEF Deliver, Process, HandleFailure, GoTo, store
<1>5. CASE Throw(r) \/ StoreFault(r)
  <2>1. \A s \in Requests : s # r => run'[s] = run[s]
    BY <1>5 DEF Throw, StoreFault, Rethrow
  <2>2. UNCHANGED store \/ Write(r)
    BY <1>5 DEF Throw, StoreFault
  <2>3. UNCHANGED <<poster, processed>>
    BY <1>5 DEF Throw, StoreFault
  <2> QED
    BY <1>2, <2>1, <2>2, <2>3 DEF store
<1> QED
  BY <1>1, <1>3, <1>4, <1>5 DEF Worker

\* What a store write makes of its own job: a job that is not there stays so, an
\* event is written in the audit phase alone.
LEMMA WriteTo ==
  ASSUME JobsInv, NEW r \in Requests, Write(r)
  PROVE  /\ job[r] # "ABSENT" <=> job'[r] # "ABSENT"
         /\ run[r].at = "begin" => job'[r] = "RUNNING"
         /\ run[r].at = "succeed" => job'[r] = "SUCCEEDED"
         /\ run[r].at = "audit" => job'[r] = job[r] /\ r \in audit'
         /\ run[r].at # "audit" => (r \in audit' <=> r \in audit)
         /\ run[r].at \in {"begin", "succeed", "audit"}
  BY DEF Write, Update, Log, JobsInv, TypeOK

\* A step of a request keeps what is true of its own job: one case per action.
LEMMA OwnJob ==
  ASSUME JobsInv, NEW r \in Requests,
         Create(r) \/ Send(r) \/ CrashPoster(r) \/ Worker(r) \/ StoreFault(r)
  PROVE  JobIsTrue(r)'
<1> USE JobsAssumption
<1>0. /\ TypeOK /\ JobIsTrue(r)
      /\ run[r] \in Run /\ run[r].errors \in Nat
  BY DEF JobsInv, TypeOK, Run
<1>1. CASE Create(r)
  BY <1>0, <1>1 DEF Create, TypeOK, JobIsTrue
<1>2. CASE Send(r) \/ CrashPoster(r)
  BY <1>0, <1>2 DEF Send, CrashPoster, TypeOK, JobIsTrue, store, Run
<1>3. CASE Deliver(r) \/ Process(r) \/ HandleFailure(r)
  BY <1>0, <1>3 DEF Deliver, Process, HandleFailure, GoTo, TypeOK, JobIsTrue, store
<1>4. CASE Begin(r) \/ Succeed(r) \/ AuditSuccess(r)
  <2>1. Write(r) /\ UNCHANGED <<poster, processed>> /\ keyDoc' = keyDoc
    BY <1>0, <1>4, WriteType DEF Begin, Succeed, AuditSuccess
  <2>2. \/ /\ run[r].at = "begin"
           /\ run'[r] = [at |-> IF r \in processed THEN "succeed" ELSE "process",
                         errors |-> run[r].errors]
        \/ run[r].at = "succeed" /\ run'[r] = [at |-> "audit", errors |-> run[r].errors]
        \/ run[r].at = "audit" /\ run'[r] = [at |-> "ended", errors |-> 0]
    BY <1>0, <1>4 DEF Begin, Succeed, AuditSuccess, GoOn, GoTo, TypeOK, Run
  <2>3. /\ job[r] # "ABSENT" /\ job'[r] # "ABSENT"
        /\ keyDoc'[KeyOf[r]] = r /\ poster'[r] \notin {"start", "send"}
    BY <1>0, <2>1, <2>2, WriteTo DEF JobIsTrue, Write, Update
  <2>4. CASE run[r].at = "begin"
    BY <1>0, <2>1, <2>2, <2>3, <2>4, WriteTo DEF JobIsTrue
  <2>5. CASE run[r].at = "succeed"
    BY <1>0, <2>1, <2>2, <2>3, <2>5, WriteTo DEF JobIsTrue
  <2>6. CASE run[r].at = "audit"
    BY <1>0, <2>1, <2>2, <2>3, <2>6, WriteTo DEF JobIsTrue
  <2> QED
    BY <2>2, <2>4, <2>5, <2>6
<1>5. CASE Throw(r) \/ StoreFault(r)
  <2>1. /\ UNCHANGED store \/ (Write(r) /\ keyDoc' = keyDoc)
        /\ UNCHANGED <<poster, processed>>
        /\ Rethrow(r)
    BY <1>0, <1>5, WriteType DEF Throw, StoreFault, store
  <2>2. /\ run[r].at \in {"begin", "process", "succeed", "audit"}
        /\ \/ run'[r].at = "begin" /\ run'[r].errors > 0
           \/ run'[r].at = "letter"
    BY <1>0, <2>1 DEF Rethrow, WorkerPhase, TypeOK
  <2> QED
    BY <1>0, <2>1, <2>2, WriteTo DEF JobIsTrue, store
<1> QED
  BY <1>1, <1>2, <1>3, <1>4, <1>5 DEF Worker

LEMMA OtherJob ==
  ASSUME JobsInv, NEW r \in Requests, NEW s \in Requests, s # r,
         Create(r) \/ Send(r) \/ CrashPoster(r) \/ Worker(r) \/ StoreFault(r)
  PROVE  JobIsTrue(s)'
<1>1. JobIsTrue(s)
  BY DEF JobsInv
<1> QED
  BY <1>1, Frame, JobsAssumption DEF JobIsTrue

LEMMA JobsStep == JobsInv /\ [Next]_vars => JobsInv'
<1> SUFFICES ASSUME JobsInv, [Next]_vars PROVE JobsInv'
  OBVIOUS
<1>1. TypeOK'
  BY TypeStep DEF JobsInv
<1>2. ASSUME NEW s \in Requests PROVE JobIsTrue(s)'
  <2>1. CASE UNCHANGED vars
    BY <2>1 DEF JobsInv, vars, store, JobIsTrue
  <2> QED
    BY <2>1, OwnJob, OtherJob DEF Next
<1> QED
  BY <1>1, <1>2 DEF JobsInv

-----------------------------------------------------------------------------
(* Theorems                                                                *)

\* ProcessedOnce: of the requests that repeat one idempotency key, only the one
\* that claimed it is ever processed.
THEOREM ProcessedOnceHolds == Spec => []ProcessedOnce
<1>1. JobsInv => ProcessedOnce
  BY DEF JobsInv, JobIsTrue, ProcessedOnce, TypeOK
<1> QED
  BY <1>1, JobsInit, JobsStep, PTL DEF Spec

\* AuditIsTrue: JOB_SUCCEEDED is only written of a job that was processed and is
\* recorded SUCCEEDED, and a run that ended has written both; the record changes
\* after it only in a call that follows an error of that write.
THEOREM AuditIsTrueHolds == Spec => []AuditIsTrue
<1>1. JobsInv => AuditIsTrue
  <2> SUFFICES ASSUME JobsInv, NEW r \in Requests
               PROVE  /\ r \in audit =>
                            /\ r \in processed
                            /\ \/ job[r] = "SUCCEEDED"
                               \/ /\ job[r] = "RUNNING"
                                  /\ run[r].errors > 0 \/ run[r].at \in {"letter", "dropped"}
                      /\ run[r].at = "ended" => job[r] = "SUCCEEDED" /\ r \in audit
    BY DEF AuditIsTrue
  <2>1. JobIsTrue(r)
    BY DEF JobsInv
  <2> QED
    BY <2>1 DEF JobIsTrue
<1> QED
  BY <1>1, JobsInit, JobsStep, PTL DEF Spec
=============================================================================
