-------------------------------- MODULE Jobs --------------------------------
(***************************************************************************)
(* The durable job system: POST /api/jobs, the job records of              *)
(* lib/jobs/job-repo.ts, the queue workers and their failure handler of    *)
(* inngest/functions.ts.  Inngest (external) delivers an event, calls the  *)
(* worker's function from its first line again after a step has been       *)
(* memoised and after an error, up to the queue's attempts, and calls the  *)
(* failure handler when they are spent.                                    *)
(*                                                                         *)
(* A request is one POST; generateId gives each its own job id, so a job   *)
(* id is the request that made it, and its event and its run are its own.  *)
(***************************************************************************)
EXTENDS Naturals, FiniteSets

CONSTANTS
    Requests,       \* POSTs, and the job ids they generate
    Keys,           \* idempotency keys
    KeyOf,          \* the key of each request
    Directive,      \* the payload's failure directive
    MaxAttempts,    \* the queue's attempts
    Concurrency,    \* runs of the queue at once
    MaxFaults,      \* bound: store writes that throw
    NoJob

ASSUME JobsAssumption ==
    /\ KeyOf \in [Requests -> Keys]
    /\ Directive \in [Requests -> {"none", "retryable", "terminal"}]
    /\ {MaxAttempts, Concurrency} \subseteq Nat \ {0}
    /\ MaxFaults \in Nat
    /\ NoJob \notin Requests

VARIABLES
    keyDoc,     \* jobs/byIdempotency/keys: the job that claimed the key
    job,        \* jobs/{jobId}.status
    audit,      \* jobs with a JOB_SUCCEEDED event
    poster,     \* where each request is
    run,        \* where each job's run is, and the errors at that position
    processed,  \* jobs whose process step is memoised
    faults      \* store writes that threw so far

store == <<keyDoc, job, audit>>
vars  == <<store, poster, run, processed, faults>>

-----------------------------------------------------------------------------
JobStatus == {"ABSENT", "QUEUED", "RUNNING", "SUCCEEDED", "DEAD_LETTER"}
PosterPhase == {"start", "send", "ok", "crashed"}
WorkerPhase == {"begin", "process", "succeed", "audit"}
RunPhase == {"none", "queued", "letter", "ended", "dropped"} \cup WorkerPhase
Run == [at : RunPhase, errors : Nat]

Init ==
    /\ keyDoc = [k \in Keys |-> NoJob]
    /\ job = [r \in Requests |-> "ABSENT"]
    /\ audit = {}
    /\ poster = [r \in Requests |-> "start"]
    /\ run = [r \in Requests |-> [at |-> "none", errors |-> 0]]
    /\ processed = {}
    /\ faults = 0

-----------------------------------------------------------------------------
(* POST /api/jobs                                                          *)

\* *Mutant*: the transaction does not look whether the key is claimed.
CreateAlways(r) ==
    /\ poster[r] = "start"
    /\ poster' = [poster EXCEPT ![r] = "send"]
    /\ keyDoc' = [keyDoc EXCEPT ![KeyOf[r]] = r]
    /\ job' = [job EXCEPT ![r] = "QUEUED"]
    /\ UNCHANGED <<audit, run, processed, faults>>

\* createJobRecord: the transaction claims the key or does nothing, and either
\* way the answer is { created: true, job } with the request's own job id.
Create(r) ==
    /\ poster[r] = "start"
    /\ poster' = [poster EXCEPT ![r] = "send"]
    /\ IF keyDoc[KeyOf[r]] = NoJob
       THEN /\ keyDoc' = [keyDoc EXCEPT ![KeyOf[r]] = r]
            /\ job' = [job EXCEPT ![r] = "QUEUED"]
       ELSE UNCHANGED <<keyDoc, job>>
    /\ UNCHANGED <<audit, run, processed, faults>>

Send(r) ==
    /\ poster[r] = "send"
    /\ poster' = [poster EXCEPT ![r] = "ok"]
    /\ run' = [run EXCEPT ![r].at = "queued"]
    /\ UNCHANGED <<store, processed, faults>>

\* The transaction or the send throws, or the process dies.
CrashPoster(r) ==
    /\ poster[r] \in {"start", "send"}
    /\ poster' = [poster EXCEPT ![r] = "crashed"]
    /\ UNCHANGED <<store, run, processed, faults>>

-----------------------------------------------------------------------------
(* The worker                                                              *)

Running == {r \in Requests : run[r].at \in WorkerPhase}

GoTo(r, phase) == run' = [run EXCEPT ![r] = [at |-> phase, errors |-> 0]]
GoOn(r, phase) == run' = [run EXCEPT ![r].at = phase]

Deliver(r) ==
    /\ run[r].at = "queued"
    /\ Cardinality(Running) < Concurrency
    /\ GoTo(r, "begin")
    /\ UNCHANGED <<store, poster, processed, faults>>

\* updateJobStatus: update() of a job that is not there throws.
Update(r, status) ==
    /\ job[r] # "ABSENT"
    /\ job' = [job EXCEPT ![r] = status]
    /\ UNCHANGED <<keyDoc, audit>>

\* *Mutant*: the event names the idempotency key for the job.
LogsKey(r) ==
    /\ audit' = audit \cup {KeyOf[r]}
    /\ UNCHANGED <<keyDoc, job>>

Log(r) ==
    /\ audit' = audit \cup {r}
    /\ UNCHANGED <<keyDoc, job>>

\* *Mutant*: the event is written before the record.
LogsFirst(r) ==
    \/ run[r].at = "begin" /\ Update(r, "RUNNING")
    \/ run[r].at = "succeed" /\ Log(r)
    \/ run[r].at = "audit" /\ Update(r, "SUCCEEDED")

\* The store write of each phase.
Write(r) ==
    \/ run[r].at = "begin" /\ Update(r, "RUNNING")
    \/ run[r].at = "succeed" /\ Update(r, "SUCCEEDED")
    \/ run[r].at = "audit" /\ Log(r)

\* RUNNING, at the top of every call of the function.
Begin(r) ==
    /\ run[r].at = "begin"
    /\ Write(r)
    /\ GoOn(r, IF r \in processed THEN "succeed" ELSE "process")
    /\ UNCHANGED <<poster, processed, faults>>

\* The directive fails while attempt <= its count; attempt comes with the event
\* and is 1 every time.
Fails(r) == Directive[r] # "none"

\* step.run: once it has succeeded the function is called again from the top.
Process(r) ==
    /\ run[r].at = "process"
    /\ ~Fails(r)
    /\ processed' = processed \cup {r}
    /\ GoTo(r, "begin")
    /\ UNCHANGED <<store, poster, faults>>

Succeed(r) ==
    /\ run[r].at = "succeed"
    /\ Write(r)
    /\ GoOn(r, "audit")
    /\ UNCHANGED <<poster, processed, faults>>

AuditSuccess(r) ==
    /\ run[r].at = "audit"
    /\ Write(r)
    /\ GoTo(r, "ended")
    /\ UNCHANGED <<poster, processed, faults>>

\* handleFailure looks for the job's id in the data of the event it is called
\* with, which is inngest/function.failed and holds the failed event one level
\* down: the update of no document throws, in every attempt of its own, before
\* anything is written.
HandleFailure(r) ==
    /\ run[r].at = "letter"
    /\ GoTo(r, "dropped")
    /\ UNCHANGED <<store, poster, processed, faults>>

-----------------------------------------------------------------------------
(* Errors                                                                  *)

\* *Mutant*: the queue's attempts are taken for its retries, less one.
RethrowEarly(r) ==
    /\ run[r].at \in WorkerPhase
    /\ run' = [run EXCEPT ![r] =
                 IF @.errors + 2 < MaxAttempts THEN [at |-> "begin", errors |-> @.errors + 1]
                                               ELSE [at |-> "letter", errors |-> 0]]

\* What the next call of the function starts from, or the failure handler.
Rethrow(r) ==
    /\ run[r].at \in WorkerPhase
    /\ run' = [run EXCEPT ![r] =
                 IF @.errors + 1 < MaxAttempts THEN [at |-> "begin", errors |-> @.errors + 1]
                                               ELSE [at |-> "letter", errors |-> 0]]

\* What throws by itself: an update of a missing document, a failing directive.
MustThrow(r) ==
    \/ run[r].at = "begin" /\ job[r] = "ABSENT"
    \/ run[r].at = "process" /\ Fails(r)

Throw(r) ==
    /\ MustThrow(r)
    /\ Rethrow(r)
    /\ UNCHANGED <<store, poster, processed, faults>>

\* A store write throws; its effect may be there all the same.
StoreFault(r) ==
    /\ faults < MaxFaults
    /\ run[r].at \in WorkerPhase \ {"process"}
    /\ Rethrow(r)
    /\ faults' = faults + 1
    /\ UNCHANGED store \/ Write(r)
    /\ UNCHANGED <<poster, processed>>

-----------------------------------------------------------------------------
Worker(r) ==
    \/ Deliver(r) \/ Begin(r) \/ Process(r) \/ Succeed(r) \/ AuditSuccess(r)
    \/ HandleFailure(r) \/ Throw(r)

Next == \E r \in Requests : Create(r) \/ Send(r) \/ CrashPoster(r)
                            \/ Worker(r) \/ StoreFault(r)

\* Inngest goes on calling a run until it ends, and a request that has made its
\* job sends the event or dies.
Spec ==
    /\ Init /\ [][Next]_vars
    /\ \A r \in Requests : WF_vars(Worker(r)) /\ WF_vars(Send(r) \/ CrashPoster(r))

-----------------------------------------------------------------------------
(* Properties                                                              *)

\* The state has its types.
TypeOK ==
    /\ keyDoc \in [Keys -> Requests \cup {NoJob}]
    /\ job \in [Requests -> JobStatus]
    /\ audit \subseteq Requests
    /\ poster \in [Requests -> PosterPhase]
    /\ run \in [Requests -> Run]
    /\ processed \subseteq Requests
    /\ faults \in 0..MaxFaults

\* Duplicate execution protection: however requests with one idempotency key
\* race, crash and repeat, the process step runs for one of them, the one that
\* claimed the key.  The route dispatches the others all the same, under a job
\* id with no document; what stops them is the worker's first update.
ProcessedOnce == \A r \in processed : keyDoc[KeyOf[r]] = r

\* The audit trail and the record agree: JOB_SUCCEEDED is only written of a job
\* that was processed and whose record said SUCCEEDED; the record says so still,
\* unless the write of the event threw and the function was called again, or has
\* no call left.  A run that ended has written both.
AuditIsTrue ==
    \A r \in Requests :
        /\ r \in audit =>
              /\ r \in processed
              /\ \/ job[r] = "SUCCEEDED"
                 \/ /\ job[r] = "RUNNING"
                    /\ run[r].errors > 0 \/ run[r].at \in {"letter", "dropped"}
        /\ run[r].at = "ended" => job[r] = "SUCCEEDED" /\ r \in audit

\* A job that is QUEUED ends SUCCEEDED, unless its directive fails it or at least
\* as many store writes threw as the queue has attempts, or its request died
\* before it sent the event: then it stays as it is for ever, and a request that
\* repeats its key sends an event of a job that has no document.
JobsEnd ==
    \A r \in Requests :
        job[r] = "QUEUED" ~>
            \/ job[r] = "SUCCEEDED" /\ run[r].at = "ended"
            \/ run[r].at = "dropped" /\ (Fails(r) \/ faults >= MaxAttempts)
            \/ poster[r] = "crashed" /\ run[r].at = "none"
=============================================================================
