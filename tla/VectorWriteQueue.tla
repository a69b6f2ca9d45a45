--------------------------- MODULE VectorWriteQueue ---------------------------
(***************************************************************************)
(* The durable vector-write queue (sag/vector_write_queue.py and           *)
(* sag/vector_write_items.py).  Document workers commit events to the      *)
(* engine database, then enqueue the vector writes of those events as rows *)
(* of the metadata database: a JOB carries a batch of record ids in its    *)
(* payload, an ITEM is one record of one job.  A single background writer  *)
(* claims the oldest due job, reads its payload, loads the events, writes  *)
(* LanceDB and marks the job.  The process may stop at any point; start()  *)
(* recovers the rows and reconciles them with the engine database.         *)
(*                                                                         *)
(* One source configuration and one job kind: the code keeps both apart in *)
(* every query.  Kind = "event_sync" splits a failed batch and is          *)
(* reconciled at startup; the auxiliary kinds do neither.                  *)
(***************************************************************************)
EXTENDS Naturals, FiniteSets, Sequences

CONSTANTS
    Event,           \* the records whose vectors are written
    Enqueuer,        \* concurrent document workers
    Kind,            \* "event_sync", or "aux" (entity_sync, event_entity_sync)
    BatchSize,       \* vector_write_job_batch_size
    ReconcileBatch,  \* _RECONCILE_BATCH_SIZE
    MaxAttempts,     \* VectorWriteJob.max_attempts
    TailFlush,       \* vector_write_tail_flush_seconds > 0
    MaxJobs,         \* bound: job rows ever created
    MaxSaves,        \* bound: batches of events handed to the queue
    MaxCrashes,      \* bound: stops of the process
    MaxFaults        \* bound: metadata-database errors while marking a job

ASSUME EventAssumption == IsFiniteSet(Event)
ASSUME KindAssumption == Kind \in {"event_sync", "aux"}
ASSUME BatchAssumption == BatchSize \in Nat \ {0} /\ ReconcileBatch \in Nat \ {0}
ASSUME FlushAssumption == TailFlush \in BOOLEAN
ASSUME BoundAssumption ==
    /\ MaxJobs \in Nat /\ MaxAttempts \in Nat /\ MaxSaves \in Nat
    /\ MaxCrashes \in Nat /\ MaxFaults \in Nat

VARIABLES
    event,        \* source_event rows of the engine database
    vectors,      \* records present in the LanceDB table
    jobs,         \* vector_write_jobs rows; row numbers follow created_at
    lastJob,      \* number of job rows created so far
    items,        \* vector_write_items rows, by job and record
    enq,          \* what each document worker holds between two awaits
    writer,       \* what the writer task holds between two awaits
    phase,        \* lifecycle of the process
    unscheduled,  \* history: saved records no enqueue was committed for
    saves, crashes, faults   \* counters of the bounded actions

vars == <<event, vectors, jobs, lastJob, items, enq, writer, phase,
          unscheduled, saves, crashes, faults>>

JobId == 1 .. MaxJobs

Pending  == {"queued", "retry"}
Inflight == {"writing"}
ActiveJob == Pending \union Inflight
Terminal == {"succeeded", "failed"}

ActiveItem == {"queued", "writing", "retry"}
ItemStatus == ActiveItem \union Terminal

\* A job row.  due: next_run_at is null or past.  count: the record_count column.
\* A startup-reconcile payload has another signature than an ingest payload.
JobRow == [status   : {"none"} \union ActiveJob \union Terminal,
           ids      : SUBSET Event,
           attempts : Nat,
           due      : BOOLEAN,
           count    : Nat,
           origin   : {"ingest", "reconcile"}]

NoJob == [status |-> "none", ids |-> {}, attempts |-> 0, due |-> FALSE,
          count |-> 0, origin |-> "ingest"]

\* What an enqueue computed from its read: the records it adds to existing
\* tail jobs, the payloads it will write for them, and its new batches.
NoPlan == [accepted |-> [j \in JobId |-> {}], payload |-> [j \in JobId |-> {}],
           fresh |-> << >>, tail |-> FALSE]

IdleEnqueuer == [pc |-> "idle", batch |-> {}, plan |-> NoPlan]
IdleWriter   == [pc |-> "idle", job |-> 0, ids |-> {}, loaded |-> {}, retryable |-> FALSE]

Init ==
    /\ event = [e \in Event |-> "absent"]
    /\ vectors = {}
    /\ jobs = [j \in JobId |-> NoJob]
    /\ lastJob = 0
    /\ items = [j \in JobId |-> [e \in Event |-> "none"]]
    /\ enq = [p \in Enqueuer |-> IdleEnqueuer]
    /\ writer = IdleWriter
    /\ phase = "up"
    /\ unscheduled = {}
    /\ saves = 0
    /\ crashes = 0
    /\ faults = 0

Live == {e \in Event : event[e] = "live"}
Jobs(S) == {j \in JobId : jobs[j].status \in S}
PayloadsOf(S) == UNION {jobs[j].ids : j \in Jobs(S)}
HasActiveItem(e) == \E j \in JobId : items[j][e] \in ActiveItem

Disjoint(f) == \A i, j \in DOMAIN f : i # j => f[i] \intersect f[j] = {}
Union(f) == UNION {f[i] : i \in DOMAIN f}

\* Consecutive slices of at most size elements; only the last may be shorter.
Batchings(S, size) ==
    LET n == (Cardinality(S) + size - 1) \div size
    IN  {f \in [1 .. n -> SUBSET S] :
            /\ Disjoint(f)
            /\ Union(f) = S
            /\ \A k \in 1 .. n - 1 : Cardinality(f[k]) = size
            /\ \A k \in 1 .. n : Cardinality(f[k]) \in 1 .. size}

NewJob(status, ids, attempts, due, origin) ==
    [status |-> status, ids |-> ids, attempts |-> attempts, due |-> due,
     count |-> Cardinality(ids), origin |-> origin]

\* Mutant: registers a record whatever active item it already has.
RegisterAlways(owned) ==
    [j \in JobId |-> [e \in Event |-> IF e \in owned[j] THEN "queued" ELSE items[j][e]]]

\* The item rows after register_job_items for owned[j], for every job j.
Register(owned) ==
    [j \in JobId |-> [e \in Event |->
        IF e \in owned[j] /\ ~HasActiveItem(e) THEN "queued" ELSE items[j][e]]]

\* The item rows of job j after every active one has moved to status s.
CompleteItems(j, s) ==
    [items EXCEPT ![j] = [e \in Event |->
        IF items[j][e] \in ActiveItem THEN s ELSE items[j][e]]]
-----------------------------------------------------------------------------
(***************************************************************************)
(* Document workers.                                                       *)
(***************************************************************************)

\* The engine commits events (new ones, or the same ones once more) and calls
\* the patched _sync_to_vector_store.
SaveEvents(p, S) ==
    /\ phase = "up"
    /\ enq[p].pc = "idle"
    /\ saves < MaxSaves
    /\ saves' = saves + 1
    /\ S # {}
    /\ \A e \in S : event[e] # "gone"
    /\ event' = [e \in Event |-> IF e \in S THEN "live" ELSE event[e]]
    /\ enq' = [enq EXCEPT ![p] = [@ EXCEPT !.pc = "saved", !.batch = S]]
    /\ UNCHANGED <<vectors, jobs, lastJob, items, writer, phase, unscheduled,
                   crashes, faults>>

\* The disk guard refuses the enqueue, or its session raises and rolls back.
EnqueueRefused(p) ==
    /\ enq[p].pc \in {"saved", "planned"}
    /\ unscheduled' = unscheduled \union enq[p].batch
    /\ enq' = [enq EXCEPT ![p] = IdleEnqueuer]
    /\ UNCHANGED <<event, vectors, jobs, lastJob, items, writer, phase, saves, crashes, faults>>

\* Pending jobs with room and the same payload signature.
TailJobs == {j \in Jobs(Pending) : jobs[j].count < BatchSize /\ jobs[j].origin = "ingest"}
\* Mutant: the room of an empty job.
RoomOfEmpty(j) == BatchSize
Room(j) == BatchSize - Cardinality(jobs[j].ids)
\* Mutant: merges although the tail flush is off.
IsTailAlways(S) == Cardinality(S) < BatchSize
IsTail(S) == TailFlush /\ Cardinality(S) < BatchSize

\* How the tail batch T fills the tail jobs in C, newest first, until it is used up.
Merges(T, C) ==
    {acc \in [JobId -> SUBSET T] :
        /\ Disjoint(acc)
        /\ \A j \in JobId : IF j \in C THEN Cardinality(acc[j]) <= Room(j) ELSE acc[j] = {}
        /\ \A j \in C : Cardinality(acc[j]) < Room(j) =>
              /\ Union(acc) = T
              /\ \A i \in C : i < j => acc[i] = {}}

\* The last batch of f goes to the tail jobs as acc says; what is left of it
\* becomes a new job that waits for the flush window.
MergedPlan(f, acc) ==
    LET rest == f[Len(f)] \ Union(acc)
        full == SubSeq(f, 1, Len(f) - 1)
    IN  [accepted |-> acc,
         payload  |-> [j \in JobId |-> IF acc[j] = {} THEN {} ELSE jobs[j].ids \union acc[j]],
         fresh    |-> IF rest = {} THEN full ELSE Append(full, rest),
         tail     |-> rest # {}]

Planned(p, plan) == enq' = [enq EXCEPT ![p] = [@ EXCEPT !.pc = "planned", !.plan = plan]]

\* The session's read of the active jobs; everything up to flush() follows from
\* it.  Only tail jobs created within the flush window (those from number c on)
\* are merged into.
EnqueuePlan(p) ==
    LET todo == enq[p].batch \ PayloadsOf(ActiveJob) IN
    /\ enq[p].pc = "saved"
    /\ \/ /\ todo = {}
          /\ enq' = [enq EXCEPT ![p] = IdleEnqueuer]
       \/ /\ todo # {}
          /\ \E f \in Batchings(todo, BatchSize) :
               \/ /\ ~IsTail(f[Len(f)])
                  /\ Planned(p, [NoPlan EXCEPT !.fresh = f])
               \/ /\ IsTail(f[Len(f)])
                  /\ \E c \in 1 .. lastJob + 1 :
                       \E acc \in Merges(f[Len(f)], {j \in TailJobs : j >= c}) :
                          Planned(p, MergedPlan(f, acc))
    /\ UNCHANGED <<event, vectors, jobs, lastJob, items, writer, phase, unscheduled,
                   saves, crashes, faults>>

\* Job number j will be the (j - lastJob)-th new job of the plan.
IsFresh(plan, j) == j > lastJob /\ j - lastJob \in DOMAIN plan.fresh
Batch(plan, j) == plan.fresh[j - lastJob]
DelayedTail(plan, j) == plan.tail /\ j - lastJob = Len(plan.fresh)

\* flush(), register_job_items and commit(): one write transaction.  The merged
\* payload is written whatever has happened to the tail job since the read.
EnqueueCommit(p) ==
    LET plan == enq[p].plan IN
    /\ enq[p].pc = "planned"
    /\ lastJob + Len(plan.fresh) <= MaxJobs
    /\ jobs' = [j \in JobId |->
          IF IsFresh(plan, j)
          THEN NewJob("queued", Batch(plan, j), 0, ~DelayedTail(plan, j), "ingest")
          ELSE IF plan.accepted[j] # {}
          THEN [jobs[j] EXCEPT !.ids = plan.payload[j],
                               !.count = Cardinality(plan.payload[j]),
                               !.due = IF Cardinality(plan.payload[j]) >= BatchSize
                                       THEN TRUE ELSE @]
          ELSE jobs[j]]
    /\ items' = Register([j \in JobId |->
                    IF IsFresh(plan, j) THEN Batch(plan, j) ELSE plan.accepted[j]])
    /\ lastJob' = lastJob + Len(plan.fresh)
    /\ enq' = [enq EXCEPT ![p] = IdleEnqueuer]
    /\ unscheduled' = unscheduled \ enq[p].batch
    /\ UNCHANGED <<event, vectors, writer, phase, saves, crashes, faults>>

\* Deleting a document removes its events, then their vectors (a failure of the
\* second is logged and ignored).
DeleteEvents(S) ==
    /\ phase = "up"
    /\ S # {} /\ S \subseteq Live
    /\ event' = [e \in Event |-> IF e \in S THEN "gone" ELSE event[e]]
    /\ vectors' \in {vectors \ S, vectors}
    /\ UNCHANGED <<jobs, lastJob, items, enq, writer, phase, unscheduled, saves, crashes, faults>>
-----------------------------------------------------------------------------
(***************************************************************************)
(* The writer.                                                             *)
(***************************************************************************)

\* next_run_at of a pending job is reached.
BecomesDue(j) ==
    /\ phase = "up"
    /\ jobs[j].status \in Pending /\ ~jobs[j].due
    /\ jobs' = [jobs EXCEPT ![j].due = TRUE]
    /\ UNCHANGED <<event, vectors, lastJob, items, enq, writer, phase, unscheduled,
                   saves, crashes, faults>>

Due(j) == jobs[j].status \in Pending /\ jobs[j].due

\* _next_due_job_id and the claim: only the writer changes the status of a
\* pending job, so what it selected is still pending when it claims.
Claim(j) ==
    /\ phase = "up"
    /\ writer.pc = "idle"
    /\ Due(j)
    /\ \A i \in JobId : i < j => ~Due(i)
    /\ jobs' = [jobs EXCEPT ![j].status = "writing", ![j].attempts = @ + 1]
    /\ items' = [items EXCEPT ![j] = [e \in Event |->
                    IF items[j][e] \in {"queued", "retry"} THEN "writing" ELSE items[j][e]]]
    /\ writer' = [IdleWriter EXCEPT !.pc = "claimed", !.job = j]
    /\ UNCHANGED <<event, vectors, lastJob, enq, phase, unscheduled, saves, crashes, faults>>

\* A session of its own takes the copy of the payload the write will use.
ReadPayload ==
    /\ writer.pc = "claimed"
    /\ writer' = [writer EXCEPT !.ids = jobs[writer.job].ids,
                                !.pc = IF jobs[writer.job].ids = {} THEN "written" ELSE "read"]
    /\ UNCHANGED <<event, vectors, jobs, lastJob, items, enq, phase, unscheduled,
                   saves, crashes, faults>>

LoadEvents ==
    /\ writer.pc = "read"
    /\ writer' = [writer EXCEPT !.loaded = writer.ids \intersect Live,
                                !.pc = IF writer.ids \intersect Live = {} THEN "written"
                                       ELSE "loaded"]
    /\ UNCHANGED <<event, vectors, jobs, lastJob, items, enq, phase, unscheduled,
                   saves, crashes, faults>>

WriteVectors ==
    /\ writer.pc = "loaded"
    /\ vectors' = vectors \union writer.loaded
    /\ writer' = [writer EXCEPT !.pc = "written"]
    /\ UNCHANGED <<event, jobs, lastJob, items, enq, phase, unscheduled, saves, crashes, faults>>

\* Mutant: the error is swallowed and the job goes on as if it were written.
ProcessSwallows(part, retryable) ==
    /\ writer.pc \in {"read", "loaded"}
    /\ part \subseteq writer.loaded
    /\ vectors' = vectors \union part
    /\ writer' = [writer EXCEPT !.pc = "written", !.retryable = retryable]
    /\ UNCHANGED <<event, jobs, lastJob, items, enq, phase, unscheduled, saves, crashes, faults>>

\* provision, the embedding calls or the LanceDB write raise; some records may
\* have been written.  The message decides whether the error is retryable.
ProcessFails(part, retryable) ==
    /\ writer.pc \in {"read", "loaded"}
    /\ part \subseteq writer.loaded
    /\ vectors' = vectors \union part
    /\ writer' = [writer EXCEPT !.pc = "failed", !.retryable = retryable]
    /\ UNCHANGED <<event, jobs, lastJob, items, enq, phase, unscheduled, saves, crashes, faults>>

MarkSucceeded ==
    /\ writer.pc = "written"
    /\ jobs' = [jobs EXCEPT ![writer.job].status = "succeeded"]
    /\ items' = CompleteItems(writer.job, "succeeded")
    /\ writer' = IdleWriter
    /\ UNCHANGED <<event, vectors, lastJob, enq, phase, unscheduled, saves, crashes, faults>>

\* _mark_succeeded raises inside the try of _run_one_due.
MarkSucceededFails(retryable) ==
    /\ writer.pc = "written"
    /\ faults < MaxFaults
    /\ faults' = faults + 1
    /\ writer' = [writer EXCEPT !.pc = "failed", !.retryable = retryable]
    /\ UNCHANGED <<event, vectors, jobs, lastJob, items, enq, phase, unscheduled, saves, crashes>>

MustSplit(j) == writer.retryable /\ Kind = "event_sync" /\ Cardinality(jobs[j].ids) > 1
Half(S) == {A \in SUBSET S : Cardinality(A) = Cardinality(S) \div 2}

\* The batch is split in two children; the parent's active items move with it
\* and any residue is closed.
MarkSplit ==
    LET j == writer.job
        c1 == lastJob + 1
        c2 == lastJob + 2
    IN
    /\ writer.pc = "failed"
    /\ MustSplit(j)
    /\ c2 <= MaxJobs
    /\ \E A \in Half(jobs[j].ids) :
         LET half == [c \in {c1, c2} |-> IF c = c1 THEN A ELSE jobs[j].ids \ A]
         IN  /\ jobs' = [i \in JobId |->
                   CASE i \in {c1, c2} ->
                           NewJob("retry", half[i], jobs[j].attempts, TRUE, jobs[j].origin)
                     [] i = j -> [jobs[j] EXCEPT !.status = "succeeded"]
                     [] OTHER -> jobs[i]]
             /\ items' = [i \in JobId |-> [e \in Event |->
                   IF items[j][e] \notin ActiveItem THEN items[i][e]
                   ELSE IF i \in {c1, c2} /\ e \in half[i] THEN "retry"
                   ELSE IF i = j THEN (IF e \in jobs[j].ids THEN "none" ELSE "failed")
                   ELSE items[i][e]]]
    /\ lastJob' = c2
    /\ writer' = IdleWriter
    /\ UNCHANGED <<event, vectors, enq, phase, unscheduled, saves, crashes, faults>>

MarkRetry ==
    LET j == writer.job IN
    /\ writer.pc = "failed"
    /\ ~MustSplit(j)
    /\ writer.retryable /\ jobs[j].attempts < MaxAttempts
    /\ jobs' = [jobs EXCEPT ![j].status = "retry", ![j].due = FALSE]
    /\ items' = CompleteItems(j, "retry")
    /\ writer' = IdleWriter
    /\ UNCHANGED <<event, vectors, lastJob, enq, phase, unscheduled, saves, crashes, faults>>

MarkFailed ==
    LET j == writer.job IN
    /\ writer.pc = "failed"
    /\ ~MustSplit(j)
    /\ ~(writer.retryable /\ jobs[j].attempts < MaxAttempts)
    /\ jobs' = [jobs EXCEPT ![j].status = "failed"]
    /\ items' = CompleteItems(j, "failed")
    /\ writer' = IdleWriter
    /\ UNCHANGED <<event, vectors, lastJob, enq, phase, unscheduled, saves, crashes, faults>>

\* _mark_failed_or_retry itself raises: _loop logs the error and goes on.
MarkRaises ==
    /\ writer.pc = "failed"
    /\ faults < MaxFaults
    /\ faults' = faults + 1
    /\ writer' = IdleWriter
    /\ UNCHANGED <<event, vectors, jobs, lastJob, items, enq, phase, unscheduled, saves, crashes>>
-----------------------------------------------------------------------------
(***************************************************************************)
(* Process lifecycle.                                                      *)
(***************************************************************************)

\* The process is killed, or stop() cancels the writer: local state is lost and
\* any part of a write in progress may have reached LanceDB.
Crash(part) ==
    /\ phase # "down"
    /\ crashes < MaxCrashes
    /\ crashes' = crashes + 1
    /\ part \subseteq (IF writer.pc = "loaded" THEN writer.loaded ELSE {})
    /\ vectors' = vectors \union part
    /\ phase' = "down"
    /\ unscheduled' = unscheduled \union UNION {enq[p].batch : p \in Enqueuer}
    /\ enq' = [p \in Enqueuer |-> IdleEnqueuer]
    /\ writer' = IdleWriter
    /\ UNCHANGED <<event, jobs, lastJob, items, saves, faults>>

\* Mutant: rows in flight are left alone.
RecoveredNot(j) == jobs[j]
Recovered(j) ==
    IF jobs[j].status \in Inflight
    THEN [jobs[j] EXCEPT !.status = "retry", !.due = TRUE] ELSE jobs[j]

\* start(): _recover_running.
RecoverRunning ==
    /\ phase = "down"
    /\ phase' = "recovered"
    /\ jobs' = [j \in JobId |-> Recovered(j)]
    /\ items' = [j \in JobId |-> [e \in Event |->
          IF items[j][e] = "writing" THEN "retry" ELSE items[j][e]]]
    /\ UNCHANGED <<event, vectors, lastJob, enq, writer, unscheduled, saves, crashes, faults>>

\* Mutant: a copy yields to any other active job, newer ones included.
KeptOnce(j, missing) ==
    {e \in jobs[j].ids \intersect missing :
        \A i \in Jobs(ActiveJob) : i # j => e \notin jobs[i].ids}

\* The ids of job j that stay in its payload: still missing, and not kept by an
\* older active job.
Kept(j, missing) ==
    {e \in jobs[j].ids \intersect missing :
        \A i \in Jobs(ActiveJob) : i < j => e \notin jobs[i].ids}

\* start(): _enqueue_missing_event_vectors.  An unreadable vector table counts
\* as empty.  No document worker runs before start() has returned.
Reconcile(readable) ==
    LET missing == IF readable THEN Live \ vectors ELSE Live
        todo == missing \ PayloadsOf(ActiveJob)
    IN
    /\ phase = "recovered"
    /\ Kind = "event_sync"
    /\ \E fresh \in Batchings(todo, ReconcileBatch) :
         LET n == Len(fresh)
             created(j) == j > lastJob /\ j - lastJob \in DOMAIN fresh
         IN  /\ lastJob + n <= MaxJobs
             /\ jobs' = [j \in JobId |->
                   IF created(j)
                   THEN NewJob("queued", fresh[j - lastJob], 0, TRUE, "reconcile")
                   ELSE IF jobs[j].status \in Pending /\ Kept(j, missing) # jobs[j].ids
                   THEN [jobs[j] EXCEPT !.ids = Kept(j, missing),
                                        !.status = IF Kept(j, missing) = {}
                                                   THEN "succeeded" ELSE @]
                   ELSE jobs[j]]
             /\ items' = Register([j \in JobId |->
                             IF created(j) THEN fresh[j - lastJob] ELSE {}])
             /\ lastJob' = lastJob + n
    /\ unscheduled' = {}
    /\ phase' = "up"
    /\ UNCHANGED <<event, vectors, enq, writer, saves, crashes, faults>>

\* The scan of the engine database raised, or the kind is not reconciled.
StartUnreconciled ==
    /\ phase = "recovered"
    /\ phase' = "up"
    /\ UNCHANGED <<event, vectors, jobs, lastJob, items, enq, writer, unscheduled,
                   saves, crashes, faults>>
-----------------------------------------------------------------------------
EnqueuerNext ==
    \/ \E p \in Enqueuer :
          \/ \E S \in SUBSET Event : SaveEvents(p, S)
          \/ EnqueueRefused(p)
          \/ EnqueuePlan(p)
          \/ EnqueueCommit(p)
    \/ \E S \in SUBSET Event : DeleteEvents(S)

WriterStep ==
    \/ \E j \in JobId : Claim(j)
    \/ ReadPayload
    \/ LoadEvents
    \/ WriteVectors
    \/ \E part \in SUBSET Event, r \in BOOLEAN : ProcessFails(part, r)
    \/ MarkSucceeded
    \/ \E r \in BOOLEAN : MarkSucceededFails(r)
    \/ MarkSplit
    \/ MarkRetry
    \/ MarkFailed
    \/ MarkRaises

Start == RecoverRunning \/ (\E r \in BOOLEAN : Reconcile(r)) \/ StartUnreconciled

Next ==
    \/ EnqueuerNext
    \/ WriterStep
    \/ \E j \in JobId : BecomesDue(j)
    \/ \E part \in SUBSET Event : Crash(part)
    \/ Start

Spec == Init /\ [][Next]_vars

(***************************************************************************)
(* Fairness.  The writer task loops while the process is up, wakes at      *)
(* least every poll interval, and its awaits return or raise; time passes; *)
(* a stopped application is started again.  Nothing is assumed of the      *)
(* document workers, nor that any write ever succeeds.                     *)
(***************************************************************************)
Fairness ==
    /\ WF_vars(WriterStep)
    /\ \A j \in JobId : WF_vars(BecomesDue(j))
    /\ WF_vars(Start)

FairSpec == Spec /\ Fairness
-----------------------------------------------------------------------------
\* The rows and the local copies keep their types (the models of the two
\* tables and of the fields the writer and the enqueues hold across awaits).
TypeOK ==
    /\ event \in [Event -> {"absent", "live", "gone"}]
    /\ vectors \subseteq Event
    /\ jobs \in [JobId -> JobRow]
    /\ lastJob \in 0 .. MaxJobs
    /\ items \in [JobId -> [Event -> {"none"} \union ItemStatus]]
    /\ enq \in [Enqueuer ->
          [pc : {"idle", "saved", "planned"},
           batch : SUBSET Event,
           plan : [accepted : [JobId -> SUBSET Event],
                   payload : [JobId -> SUBSET Event],
                   fresh : Seq(SUBSET Event),
                   tail : BOOLEAN]]]
    /\ writer \in [pc : {"idle", "claimed", "read", "loaded", "written", "failed"},
                   job : 0 .. MaxJobs,
                   ids : SUBSET Event,
                   loaded : SUBSET Event,
                   retryable : BOOLEAN]
    /\ phase \in {"up", "down", "recovered"}
    /\ unscheduled \subseteq Event
    /\ saves \in 0 .. MaxSaves
    /\ crashes \in 0 .. MaxCrashes
    /\ faults \in 0 .. MaxFaults

\* At most one active item exists per record, whichever jobs refer to it: what
\* register_job_items and the partial unique index promise across concurrent
\* enqueues, splits that move rows, recovery and reconciliation.
UniqueActiveItem ==
    \A e \in Event : \A i, j \in JobId :
        items[i][e] \in ActiveItem /\ items[j][e] \in ActiveItem => i = j

\* The two tables of the queue and their items (vector_write_items.py).
ItemsConsistent == TypeOK /\ UniqueActiveItem

\* While the process is up, a job in flight is the job the writer holds: no row
\* is left "writing" by a stop, a split or a failed batch.
InflightIsHeld ==
    phase = "up" =>
        \A j \in JobId : jobs[j].status \in Inflight => writer.pc # "idle" /\ writer.job = j

\* A live record without a vector is accounted for: a document worker is still
\* enqueueing it, an active job carries it, a job that carries it failed for
\* good, or its enqueue was refused or lost to a stop since the last start.
NoRecordForgotten ==
    \A e \in Live \ vectors :
        \/ e \in unscheduled
        \/ \E p \in Enqueuer : e \in enq[p].batch
        \/ e \in PayloadsOf(ActiveJob \union {"failed"})

\* A batch never outgrows the configured batch size, through tail merges,
\* splits, trims and reconciliation.
BatchBounded ==
    \A j \in JobId :
        Cardinality(jobs[j].ids) <=
            IF jobs[j].origin = "ingest" THEN BatchSize ELSE ReconcileBatch

\* "Running jobs are immutable because their vector write may already be in
\* flight" (_plan_pending_event_deduplication).
RunningJobImmutable ==
    [][\A j \in JobId :
         jobs[j].status \in Inflight /\ jobs'[j].status \in Inflight
            => jobs'[j].ids = jobs[j].ids]_vars

\* A job that has succeeded or failed is never made active again.
TerminalIsFinal ==
    [][\A j \in JobId : jobs[j].status \in Terminal => jobs'[j].status = jobs[j].status]_vars

\* What the writer has taken up or finished stays as it is (_claim_batch, _recover).
RowsKeepTheirWork == RunningJobImmutable /\ TerminalIsFinal

\* Every job that becomes active finishes, however often its batch fails.
JobsSettle ==
    \A j \in JobId : jobs[j].status \in ActiveJob ~> jobs[j].status \in Terminal

\* Every record an active job carries is written, unless the record is deleted
\* or a job that carries it fails for good.
RecordsSettle ==
    \A e \in Event :
        e \in PayloadsOf(ActiveJob) ~>
            e \in vectors \/ event[e] = "gone" \/ e \in PayloadsOf({"failed"})

\* The queue comes to rest, job by job and record by record (_run_one_due).
QueueSettles == JobsSettle /\ RecordsSettle
=============================================================================
