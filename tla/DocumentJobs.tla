----------------------------- MODULE DocumentJobs -----------------------------
(***************************************************************************)
(* The processing of one uploaded document: the in-process job queue       *)
(* (jobs/inproc.py), the handler that loads and extracts the document      *)
(* (jobs/tasks.py) and the requests that pause, resume, reprocess and      *)
(* delete it (services/document_service.py).  Workers and requests are     *)
(* tasks of one event loop; each has a database session of its own and     *)
(* keeps what it read across every await.  The rows survive a stop of the  *)
(* process, the queue, the retry timers and the tasks do not.              *)
(*                                                                         *)
(* A session writes only the columns it changed: a status column is left   *)
(* alone when the session's own copy already has the value, and a payload  *)
(* is one JSON column, always written whole.                               *)
(***************************************************************************)
EXTENDS Integers, Sequences, FiniteSets

CONSTANTS
    Worker,      \* the job_concurrency worker tasks
    Client,      \* concurrent requests on the document
    Ops,         \* which operations each client may request
    Chunks,      \* number of chunks the document is loaded into
    MaxAttempts, \* settings.job_max_attempts
    SlowCommit,  \* may a retry timer fire before the commit that precedes it?
    MaxJobs,     \* bound: job rows of the document
    MaxOps,      \* bound: requests
    MaxCrashes,  \* bound: stops of the process
    MaxFaults,   \* bound: failures of the parser, the engine or the model
    MaxLost      \* bound: commits that raise when a worker settles its job

Operation == {"pause", "resume", "reprocess", "delete"}

ASSUME ClientAssumption == Ops \in [Client -> SUBSET Operation]
ASSUME SizeAssumption == Chunks \in Nat \ {0} /\ MaxJobs \in Nat \ {0}
ASSUME CommitAssumption == SlowCommit \in BOOLEAN
ASSUME LimitAssumption ==
    /\ MaxAttempts \in Nat /\ MaxOps \in Nat /\ MaxCrashes \in Nat
    /\ MaxFaults \in Nat /\ MaxLost \in Nat

VARIABLES
    doc,      \* the documents row: its status, and whether sag_source_id is set
    job,      \* the jobs rows of the document; numbers follow created_at
    queue,    \* InProcessAsyncQueue._queue
    timers,   \* pending retry timers of each job
    worker,   \* what each worker holds between two awaits
    client,   \* what each request holds between two awaits
    up,       \* is the process running?
    ops, crashes, faults, lost   \* counters of the bounded actions

vars == <<doc, job, queue, timers, worker, client, up, ops, crashes, faults, lost>>

JobId == 1 .. MaxJobs

Active  == {"queued", "running"}
Settled == {"succeeded", "failed"}
JobStatus == Active \union Settled \union {"none", "paused"}
DocStatus == {"none", "pending", "loading", "extracting", "paused", "ready",
              "failed", "deleted"}
Pausable == {"pending", "loading", "extracting"}

\* process_checkpoint of a payload: the number of processed chunks, or absent.
Unloaded == -1
Saved == Unloaded .. Chunks
Payload == [saved : Saved, pause : BOOLEAN, resume : BOOLEAN]
JobRow  == [status : JobStatus, attempts : Nat, payload : Payload]

NoPayload == [saved |-> Unloaded, pause |-> FALSE, resume |-> FALSE]
NoRow == [status |-> "none", attempts |-> 0, payload |-> NoPayload]
IdleWorker == [pc |-> "idle", job |-> 1, row |-> NoRow, done |-> 0,
               seen |-> "none", retryable |-> FALSE]
IdleClient == [pc |-> "idle", job |-> 1, rows |-> [j \in JobId |-> NoRow],
               seen |-> "none", loaded |-> FALSE]

Init ==
    /\ doc = [status |-> "none", loaded |-> FALSE]
    /\ job = [j \in JobId |-> NoRow]
    /\ queue = << >>
    /\ timers = [j \in JobId |-> 0]
    /\ worker = [w \in Worker |-> IdleWorker]
    /\ client = [c \in Client |-> IdleClient]
    /\ up = TRUE
    /\ ops = 0 /\ crashes = 0 /\ faults = 0 /\ lost = 0

Exists(j) == job[j].status # "none"
DocExists == doc.status \notin {"none", "deleted"}
NewestIn(S, j) == /\ job[j].status \in S
                  /\ \A k \in JobId : job[k].status \in S => k <= j

\* The session that read the status seen commits the status new.
Assigned(seen, new) == IF seen = new THEN doc ELSE [doc EXCEPT !.status = new]

-------------------------------------------------------------------------------
(* Workers.  A worker takes a job, claims it and runs its handler.           *)

Step(w, pc) == worker' = [worker EXCEPT ![w].pc = pc]
Idle(w) == worker' = [worker EXCEPT ![w] = IdleWorker]
Job(w) == worker[w].job
At(w, pcs) == up /\ worker[w].pc \in pcs

Pop(w) ==
    /\ At(w, {"idle"})
    /\ queue # << >>
    /\ queue' = Tail(queue)
    /\ worker' = [worker EXCEPT ![w].pc = "popped", ![w].job = Head(queue)]
    /\ UNCHANGED <<doc, job, timers, client, up, ops, crashes, faults, lost>>

\* Only a queued job may start.
ReadJob(w) ==
    /\ At(w, {"popped"})
    /\ IF job[Job(w)].status = "queued"
       THEN worker' = [worker EXCEPT ![w].pc = "claim", ![w].row = job[Job(w)]]
       ELSE Idle(w)
    /\ UNCHANGED <<doc, job, queue, timers, client, up, ops, crashes, faults, lost>>

\* Mutant: the claim does not repeat the test of the read.
ClaimableAlways(j) == Exists(j)

Claimable(j) == job[j].status = "queued"

\* One UPDATE ... WHERE status = QUEUED; the handler starts with what it wrote.
Claim(w) ==
    LET j == Job(w)
        read == worker[w].row
    IN  /\ At(w, {"claim"})
        /\ IF Claimable(j)
           THEN /\ job' = [job EXCEPT ![j] =
                      [status |-> "running",
                       attempts |-> read.attempts + (IF read.payload.resume THEN 0 ELSE 1),
                       payload |-> [read.payload EXCEPT !.resume = FALSE]]]
                /\ worker' = [worker EXCEPT ![w] =
                      [IdleWorker EXCEPT !.pc = IF read.payload.saved = Unloaded
                                                THEN "parse" ELSE "extract",
                                         !.job = j,
                                         !.done = IF read.payload.saved = Unloaded
                                                  THEN 0 ELSE read.payload.saved,
                                         !.seen = doc.status]]
           ELSE Idle(w) /\ UNCHANGED job
        /\ UNCHANGED <<doc, queue, timers, client, up, ops, crashes, faults, lost>>

\* The parser reports a state to keep: the payload is read, then written whole.
ParserState(w) ==
    /\ At(w, {"parse"}) /\ Exists(Job(w))
    /\ worker' = [worker EXCEPT ![w].pc = "parsing", ![w].row = job[Job(w)]]
    /\ UNCHANGED <<doc, job, queue, timers, client, up, ops, crashes, faults, lost>>

SaveParserState(w) ==
    /\ At(w, {"parsing"}) /\ Exists(Job(w))
    /\ job' = [job EXCEPT ![Job(w)].payload = worker[w].row.payload]
    /\ doc' = Assigned(worker[w].seen, "loading")
    /\ worker' = [worker EXCEPT ![w].pc = "parsed", ![w].row = NoRow,
                                ![w].seen = "loading"]
    /\ UNCHANGED <<queue, timers, client, up, ops, crashes, faults, lost>>

OnStage(w, pcs, stage, next) ==
    /\ At(w, pcs) /\ Exists(Job(w))
    /\ doc' = Assigned(worker[w].seen, stage)
    /\ worker' = [worker EXCEPT ![w].pc = next, ![w].seen = stage]
    /\ UNCHANGED <<job, queue, timers, client, up, ops, crashes, faults, lost>>

StageLoading(w) == OnStage(w, {"parse", "parsed"}, "loading", "load")
StageExtracting(w) == OnStage(w, {"extract"}, "extracting", "check")

\* The engine loads the document, or extracts one more chunk; on_checkpoint
\* then reads the payload it will merge the checkpoint into.
LoadOrExtract(w) ==
    /\ At(w, {"load", "chunk"}) /\ Exists(Job(w))
    /\ worker' = [worker EXCEPT ![w].pc = "save",
                                ![w].row = job[Job(w)],
                                ![w].done = IF worker[w].pc = "load" THEN 0 ELSE @ + 1]
    /\ UNCHANGED <<doc, job, queue, timers, client, up, ops, crashes, faults, lost>>

SaveCheckpoint(w) ==
    /\ At(w, {"save"}) /\ Exists(Job(w))
    /\ job' = [job EXCEPT ![Job(w)].payload =
                  [worker[w].row.payload EXCEPT !.saved = worker[w].done]]
    /\ doc' = [doc EXCEPT !.loaded = TRUE]
    /\ worker' = [worker EXCEPT ![w].pc = IF worker[w].done = 0 THEN "extract" ELSE "check",
                                ![w].row = NoRow]
    /\ UNCHANGED <<queue, timers, client, up, ops, crashes, faults, lost>>

Remaining(w) == worker[w].done < Chunks

\* should_pause, in a session of its own, before every chunk.
CheckPause(w) ==
    /\ At(w, {"check"}) /\ Exists(Job(w))
    /\ Remaining(w)
    /\ Step(w, IF job[Job(w)].payload.pause THEN "paused" ELSE "chunk")
    /\ UNCHANGED <<doc, job, queue, timers, client, up, ops, crashes, faults, lost>>

\* The handler settles the document, and the worker then settles the job.
DocumentPaused(w) == OnStage(w, {"paused"}, "paused", "stop")

JobPaused(w) ==
    /\ At(w, {"stop"}) /\ Exists(Job(w))
    /\ job' = [job EXCEPT ![Job(w)].status = "paused", ![Job(w)].payload.pause = FALSE]
    /\ Idle(w)
    /\ UNCHANGED <<doc, queue, timers, client, up, ops, crashes, faults, lost>>

DocumentReady(w) ==
    /\ worker[w].done = Chunks
    /\ OnStage(w, {"check"}, "ready", "ready")

JobSucceeded(w) ==
    /\ At(w, {"ready"}) /\ Exists(Job(w))
    /\ job' = [job EXCEPT ![Job(w)].status = "succeeded"]
    /\ Idle(w)
    /\ UNCHANGED <<doc, queue, timers, client, up, ops, crashes, faults, lost>>

Failing(w, retryable) ==
    /\ faults < MaxFaults
    /\ faults' = faults + 1
    /\ worker' = [worker EXCEPT ![w] = [IdleWorker EXCEPT !.pc = "failed",
                      !.job = Job(w), !.retryable = retryable]]
    /\ UNCHANGED <<job, queue, timers, client, up, ops, crashes, lost>>

\* The parser, the engine or a database call of the handler raises.
DocumentFailed(w, retryable) ==
    /\ At(w, {"parse", "parsing", "parsed", "load", "save", "extract", "check", "chunk"})
    /\ Exists(Job(w))
    /\ Failing(w, retryable)
    /\ doc' = Assigned(worker[w].seen, "failed")

\* The commit of the ready document raises, outside the handler's own try.
ReadyRaises(w, retryable) ==
    /\ At(w, {"check"}) /\ Exists(Job(w))
    /\ worker[w].done = Chunks
    /\ Failing(w, retryable)
    /\ UNCHANGED doc

Retries(w) == worker[w].retryable /\ job[Job(w)].attempts < MaxAttempts

JobFailed(w) ==
    /\ At(w, {"failed"}) /\ Exists(Job(w))
    /\ ~Retries(w)
    /\ job' = [job EXCEPT ![Job(w)].status = "failed"]
    /\ Idle(w)
    /\ UNCHANGED <<doc, queue, timers, client, up, ops, crashes, faults, lost>>

\* The timer is started before the row is committed.
ScheduleRetry(w) ==
    /\ At(w, {"failed"}) /\ Exists(Job(w))
    /\ Retries(w)
    /\ timers' = [timers EXCEPT ![Job(w)] = @ + 1]
    /\ Step(w, "requeue")
    /\ UNCHANGED <<doc, job, queue, client, up, ops, crashes, faults, lost>>

JobRequeued(w) ==
    /\ At(w, {"requeue"}) /\ Exists(Job(w))
    /\ job' = [job EXCEPT ![Job(w)].status = "queued"]
    /\ Idle(w)
    /\ UNCHANGED <<doc, queue, timers, client, up, ops, crashes, faults, lost>>

TimerFires(j) ==
    /\ timers[j] > 0
    /\ SlowCommit \/ \A w \in Worker : ~(worker[w].pc = "requeue" /\ Job(w) = j)
    /\ timers' = [timers EXCEPT ![j] = @ - 1]
    /\ queue' = Append(queue, j)
    /\ UNCHANGED <<doc, job, worker, client, up, ops, crashes, faults, lost>>

\* The last commit of a run raises: the worker logs it and goes on.
SettleRaises(w) ==
    /\ At(w, {"stop", "ready", "failed", "requeue"})
    /\ lost < MaxLost
    /\ lost' = lost + 1
    /\ Idle(w)
    /\ UNCHANGED <<doc, job, queue, timers, client, up, ops, crashes, faults>>

\* The job row was deleted with its document: the next commit of the run raises.
JobVanished(w) ==
    /\ At(w, {"parse", "parsing", "parsed", "load", "save", "extract", "check", "chunk",
              "paused", "stop", "ready", "failed", "requeue"})
    /\ ~Exists(Job(w))
    /\ Idle(w)
    /\ UNCHANGED <<doc, job, queue, timers, client, up, ops, crashes, faults, lost>>

-------------------------------------------------------------------------------
(* Requests.  Each reads the document, then its jobs, then commits.          *)

Holds(c, pc) == up /\ client[c].pc = pc
Done(c) == client' = [client EXCEPT ![c] = IdleClient]

\* create_document_from_upload: both rows in one commit, then the enqueue.
Upload(c) ==
    /\ Holds(c, "idle") /\ doc.status = "none"
    /\ doc' = [doc EXCEPT !.status = "pending"]
    /\ job' = [job EXCEPT ![1].status = "queued"]
    /\ client' = [client EXCEPT ![c].pc = "enqueue"]
    /\ UNCHANGED <<queue, timers, worker, up, ops, crashes, faults, lost>>

Enqueue(c) ==
    /\ Holds(c, "enqueue")
    /\ queue' = Append(queue, client[c].job)
    /\ Done(c)
    /\ UNCHANGED <<doc, job, timers, worker, up, ops, crashes, faults, lost>>

\* get_document and the first test of each operation.
Admits(op) ==
    CASE op = "pause"  -> doc.status \in Pausable
      [] op = "resume" -> doc.status = "paused"
      [] OTHER         -> DocExists

Request(c, op) ==
    /\ Holds(c, "idle") /\ op \in Ops[c]
    /\ ops < MaxOps
    /\ Admits(op)
    /\ ops' = ops + 1
    /\ client' = [client EXCEPT ![c].pc = op, ![c].seen = doc.status,
                                ![c].loaded = doc.loaded]
    /\ UNCHANGED <<doc, job, queue, timers, worker, up, crashes, faults, lost>>

\* The request read row k of the jobs table, and goes on at next.
Holding(c, k, next) ==
    client' = [client EXCEPT ![c].pc = next, ![c].job = k, ![c].rows[k] = job[k]]

\* The newest job the operation works on, or a conflict when there is none.
ReadNewest(c, op, S, next) ==
    /\ Holds(c, op)
    /\ \/ \E k \in JobId : NewestIn(S, k) /\ Holding(c, k, next)
       \/ (\A k \in JobId : job[k].status \notin S) /\ Done(c)
    /\ UNCHANGED <<doc, job, queue, timers, worker, up, ops, crashes, faults, lost>>

ReadPause(c)     == ReadNewest(c, "pause", Active, "pausing")
ReadResume(c)    == ReadNewest(c, "resume", {"paused"}, "resuming")
ReadReprocess(c) == ReadNewest(c, "reprocess", JobStatus \ {"none"}, "latest")

Row(c) == client[c].rows[client[c].job]

\* Mutant: the UPDATE of a queued job does not test the status again.
StillQueuedAlways(c) == Exists(client[c].job)

StillQueued(c) == job[client[c].job].status = "queued"

\* A job read as queued is paused if it still is; otherwise it is read again.
PauseQueued(c) ==
    LET j == client[c].job
    IN  /\ Holds(c, "pausing") /\ Row(c).status = "queued"
        /\ IF StillQueued(c)
           THEN /\ job' = [job EXCEPT ![j].status = "paused"]
                /\ doc' = Assigned(client[c].seen, "paused")
                /\ Done(c)
           ELSE /\ IF job[j].status = "running" THEN Holding(c, j, "pausing") ELSE Done(c)
                /\ UNCHANGED <<doc, job>>
        /\ UNCHANGED <<queue, timers, worker, up, ops, crashes, faults, lost>>

\* A running job gets the payload that was read, with pause_requested.
PauseRunning(c) ==
    LET j == client[c].job
    IN  /\ Holds(c, "pausing") /\ Row(c).status = "running"
        /\ job' = IF Exists(j) /\ ~Row(c).payload.pause
                  THEN [job EXCEPT ![j].payload = [Row(c).payload EXCEPT !.pause = TRUE]]
                  ELSE job
        /\ Done(c)
        /\ UNCHANGED <<doc, queue, timers, worker, up, ops, crashes, faults, lost>>

Resume(c) ==
    LET j == client[c].job
        payload == [Row(c).payload EXCEPT !.pause = FALSE, !.resume = TRUE]
    IN  /\ Holds(c, "resuming")
        /\ IF Exists(j)
           THEN /\ job' = [job EXCEPT ![j].status = "queued",
                              ![j].payload = IF payload = Row(c).payload THEN @ ELSE payload]
                /\ doc' = Assigned("paused", IF payload.saved = Unloaded
                                             THEN "pending" ELSE "extracting")
                /\ client' = [client EXCEPT ![c] =
                                 [IdleClient EXCEPT !.pc = "enqueue", !.job = j]]
           ELSE Done(c) /\ UNCHANGED <<doc, job>>
        /\ UNCHANGED <<queue, timers, worker, up, ops, crashes, faults, lost>>

\* The latest job is still active or paused: correct a failed document and
\* queue the job again if it is (still) queued.
ReprocessActive(c) ==
    LET j == client[c].job
        fixes == client[c].seen = "failed"
        status == IF fixes THEN job[j].status ELSE Row(c).status
    IN  /\ Holds(c, "latest") /\ Row(c).status \in Active \union {"paused"}
        /\ doc' = IF fixes /\ DocExists
                  THEN [doc EXCEPT !.status = CASE Row(c).status = "queued"  -> "pending"
                                                [] Row(c).status = "running" -> "extracting"
                                                [] OTHER                     -> "paused"]
                  ELSE doc
        /\ IF status = "queued"
           THEN client' = [client EXCEPT ![c] =
                              [IdleClient EXCEPT !.pc = "enqueue", !.job = j]]
           ELSE Done(c)
        /\ UNCHANGED <<job, queue, timers, worker, up, ops, crashes, faults, lost>>

\* The latest job has settled: a new job goes on from its checkpoint.  A ready
\* document is refused (no route passes allow_ready).
ReprocessNew(c) ==
    LET fresh == {k \in JobId : \A i \in JobId : Exists(i) => i < k}
        payload == [Row(c).payload EXCEPT !.pause = FALSE, !.resume = FALSE]
    IN  /\ Holds(c, "latest") /\ Row(c).status \in Settled
        /\ \/ /\ client[c].seen # "ready" /\ DocExists
              /\ \E k \in fresh :
                    /\ k - 1 \notin fresh
                    /\ job' = [job EXCEPT ![k] = [status |-> "queued", attempts |-> 0,
                                                  payload |-> payload]]
                    /\ client' = [client EXCEPT ![c] =
                                     [IdleClient EXCEPT !.pc = "enqueue", !.job = k]]
              /\ doc' = Assigned(client[c].seen, "pending")
           \/ /\ client[c].seen = "ready" \/ ~DocExists
              /\ Done(c)
              /\ UNCHANGED <<doc, job>>
        /\ UNCHANGED <<queue, timers, worker, up, ops, crashes, faults, lost>>

\* delete_document: stop the active jobs, delete the data, delete the row.
ReadDelete(c) ==
    /\ Holds(c, "delete")
    /\ client' = [client EXCEPT ![c].pc = "stopping",
           ![c].rows = [k \in JobId |-> IF job[k].status \in Active THEN job[k] ELSE NoRow]]
    /\ UNCHANGED <<doc, job, queue, timers, worker, up, ops, crashes, faults, lost>>

StopJobs(c) ==
    LET read == client[c].rows
    IN  /\ Holds(c, "stopping")
        /\ job' = [k \in JobId |->
              IF read[k].status = "none" \/ ~Exists(k) THEN job[k]
              ELSE [job[k] EXCEPT
                      !.status = IF read[k].status = "queued" THEN "paused" ELSE @,
                      !.payload = IF read[k].payload.pause THEN @
                                  ELSE [read[k].payload EXCEPT !.pause = TRUE]]]
        /\ client' = [client EXCEPT ![c].pc = "erasing", ![c].rows = IdleClient.rows]
        /\ UNCHANGED <<doc, queue, timers, worker, up, ops, crashes, faults, lost>>

DeleteRow(c) ==
    /\ Holds(c, "erasing")
    /\ doc' = [doc EXCEPT !.status = "deleted"]
    /\ job' = [k \in JobId |-> NoRow]
    /\ Done(c)
    /\ UNCHANGED <<queue, timers, worker, up, ops, crashes, faults, lost>>

\* The engine or the vector table refuses the deletion of the derived data.
DeleteRaises(c) ==
    /\ Holds(c, "erasing") /\ client[c].loaded
    /\ faults < MaxFaults
    /\ faults' = faults + 1
    /\ Done(c)
    /\ UNCHANGED <<doc, job, queue, timers, worker, up, ops, crashes, lost>>

-------------------------------------------------------------------------------
(* The process.                                                              *)

Crash ==
    /\ up /\ crashes < MaxCrashes
    /\ crashes' = crashes + 1
    /\ up' = FALSE
    /\ queue' = << >>
    /\ timers' = [j \in JobId |-> 0]
    /\ worker' = [w \in Worker |-> IdleWorker]
    /\ client' = [c \in Client |-> IdleClient]
    /\ UNCHANGED <<doc, job, ops, faults, lost>>

\* Mutant: only the jobs a stop interrupted are queued again.
RecoveredRunning == {j \in JobId : job[j].status = "running"}

RecoveredJobs == {j \in JobId : job[j].status \in Active}

\* Mutant: the interrupted jobs keep their status.
RecoveredAsIs(row) == row

Recovered(row) == IF row.status = "running" THEN [row EXCEPT !.status = "queued"] ELSE row

\* start(): the rows come back in no particular order.
Recover ==
    /\ ~up
    /\ up' = TRUE
    /\ job' = [j \in JobId |-> Recovered(job[j])]
    /\ \E order \in [1 .. Cardinality(RecoveredJobs) -> RecoveredJobs] :
          /\ \A j \in RecoveredJobs : \E i \in DOMAIN order : order[i] = j
          /\ queue' = order
    /\ UNCHANGED <<doc, timers, worker, client, ops, crashes, faults, lost>>

WorkerStep(w) ==
    \/ Pop(w) \/ ReadJob(w) \/ Claim(w) \/ ParserState(w) \/ SaveParserState(w)
    \/ StageLoading(w) \/ LoadOrExtract(w) \/ SaveCheckpoint(w) \/ StageExtracting(w)
    \/ CheckPause(w) \/ DocumentPaused(w) \/ JobPaused(w) \/ DocumentReady(w)
    \/ JobSucceeded(w) \/ JobFailed(w) \/ ScheduleRetry(w) \/ JobRequeued(w)
    \/ JobVanished(w)

WorkerFault(w) ==
    \/ \E r \in BOOLEAN : DocumentFailed(w, r) \/ ReadyRaises(w, r)
    \/ SettleRaises(w)

ClientStep(c) ==
    \/ Enqueue(c) \/ ReadPause(c) \/ PauseQueued(c) \/ PauseRunning(c)
    \/ ReadResume(c) \/ Resume(c)
    \/ ReadReprocess(c) \/ ReprocessActive(c) \/ ReprocessNew(c)
    \/ ReadDelete(c) \/ StopJobs(c) \/ DeleteRow(c)

Next ==
    \/ \E w \in Worker : WorkerStep(w) \/ WorkerFault(w)
    \/ \E j \in JobId : TimerFires(j)
    \/ \E c \in Client :
          Upload(c) \/ (\E op \in Operation : Request(c, op)) \/ ClientStep(c) \/ DeleteRaises(c)
    \/ Crash \/ Recover

Spec == Init /\ [][Next]_vars

\* Started tasks run to their end and timers expire; nobody has to make a
\* request, nothing has to fail and the process need not stop.
Fairness ==
    /\ \A w \in Worker : WF_vars(WorkerStep(w))
    /\ \A j \in JobId : WF_vars(TimerFires(j))
    /\ \A c \in Client : WF_vars(ClientStep(c))
    /\ WF_vars(Recover)

LiveSpec == Spec /\ Fairness

-------------------------------------------------------------------------------
(* Properties.                                                               *)

Processing == {"parse", "parsing", "parsed", "load", "save", "extract", "check",
               "chunk", "paused", "stop", "ready", "failed", "requeue"}
Extracting == {"load", "save", "chunk"}
Runs(w, j) == worker[w].pc \in Processing /\ Job(w) = j

WorkerState == [pc : {"idle", "popped", "claim"} \union Processing, job : JobId,
                row : JobRow, done : 0 .. Chunks, seen : DocStatus, retryable : BOOLEAN]
ClientState == [pc : {"idle", "enqueue", "pausing", "resuming", "latest", "stopping",
                      "erasing"} \union Operation,
                job : JobId, rows : [JobId -> JobRow], seen : DocStatus, loaded : BOOLEAN]

TypeOK ==
    /\ doc \in [status : DocStatus, loaded : BOOLEAN]
    /\ job \in [JobId -> JobRow]
    /\ queue \in Seq(JobId)
    /\ timers \in [JobId -> Nat]
    /\ worker \in [Worker -> WorkerState]
    /\ client \in [Client -> ClientState]
    /\ up \in BOOLEAN
    /\ ops \in Nat /\ crashes \in Nat /\ faults \in Nat /\ lost \in Nat

\* A job is run by one worker at a time, whatever duplicates the queue holds
\* (inproc.py, _run: "only QUEUED may start").
OneRunPerJob ==
    \A v, w \in Worker : \A j \in JobId : Runs(v, j) /\ Runs(w, j) => v = w

\* The rows and the workers that run them (inproc.py).
RunsConsistent == TypeOK /\ OneRunPerJob

\* A queued job will reach a worker: it is in the queue, in a retry timer, in
\* the hands of a worker about to claim it or of a request about to enqueue it.
QueuedIsScheduled ==
    up => \A j \in JobId : job[j].status = "queued" =>
        \/ \E i \in DOMAIN queue : queue[i] = j
        \/ timers[j] > 0
        \/ \E w \in Worker : worker[w].pc \in {"popped", "claim"} /\ Job(w) = j
        \/ \E c \in Client : client[c].pc = "enqueue" /\ client[c].job = j

\* A running job has its worker: no row is left RUNNING with nobody to settle
\* it, unless the commit that settles it raised.
RunningIsHeld ==
    up /\ lost = 0 => \A j \in JobId : job[j].status = "running" => \E w \in Worker : Runs(w, j)

\* While the document shows as paused no worker loads or extracts it.
PausedIsIdle ==
    doc.status = "paused" => \A w \in Worker : worker[w].pc \notin Extracting

\* Every row is in the hands its status names (inproc.py, document_service.py).
JobsAttended == QueuedIsScheduled /\ RunningIsHeld /\ PausedIsIdle

\* A settled job is never revived: requests that raced its end leave it alone.
SettledForGood ==
    [][\A j \in JobId : job[j].status \in Settled => job'[j].status = job[j].status]_vars

\* "Takes no new chunk" (pause_document): a pause requested of a running job
\* stays on its row until that run ends.
PauseKept ==
    [][\A j \in JobId : job[j].status = "running" /\ job[j].payload.pause
          /\ job'[j].status = "running" => job'[j].payload.pause]_vars

\* A worker that took a job comes back for the next one, whatever was deleted,
\* paused or lost under it.
WorkerFreed == \A w \in Worker : worker[w].pc # "idle" ~> worker[w].pc = "idle"

\* Every started job settles, is paused or is deleted: the retries end.
JobsRest ==
    \A j \in JobId : job[j].status \in Active ~> job[j].status \notin Active \/ lost > 0

\* The queue comes to rest (inproc.py, _run_job).
WorkRests == JobsRest /\ WorkerFreed
===============================================================================
