-------------------------- MODULE DocumentJobsProofs --------------------------
(***************************************************************************)
(* Proofs about DocumentJobs for every number of workers, clients, chunks, *)
(* jobs, requests, stops and faults.                                       *)
(***************************************************************************)
EXTENDS DocumentJobs, FiniteSetTheorems, SequenceTheorems, TLAPS

\* What the types need: a chunk is only taken while one is left.
TypeInv ==
    /\ TypeOK
    /\ \A w \in Worker : worker[w].pc = "chunk" => worker[w].done < Chunks

\* The first values of the rows and of the local copies are well typed.
LEMMA InitialTypes ==
  /\ 1 \in JobId /\ NoPayload \in Payload /\ NoRow \in JobRow
  /\ IdleWorker \in WorkerState /\ IdleClient \in ClientState
  <1>1. 1 \in JobId
    BY SizeAssumption DEF JobId
  <1>2. NoPayload \in Payload
    BY SizeAssumption DEF NoPayload, Payload, Saved, Unloaded
  <1>3. NoRow \in JobRow
    BY <1>2 DEF NoRow, JobRow, JobStatus, Active, Settled
  <1>4. IdleWorker \in WorkerState
    BY <1>1, <1>3, SizeAssumption DEF IdleWorker, WorkerState, DocStatus
  <1>5. IdleClient \in ClientState
    BY <1>1, <1>3 DEF IdleClient, ClientState, DocStatus
  <1> QED
    BY <1>1, <1>2, <1>3, <1>4, <1>5

\* The initial state is well typed.
LEMMA TypeInit == Init => TypeInv
  <1> SUFFICES ASSUME Init PROVE TypeInv
    OBVIOUS
  <1>1. TypeOK
    BY InitialTypes DEF Init, TypeOK, DocStatus
  <1>2. \A w \in Worker : worker[w].pc # "chunk"
    BY DEF Init, IdleWorker
  <1> QED
    BY <1>1, <1>2 DEF TypeInv

\* Fields of a row may be replaced by values of their types.
LEMMA RowTypes ==
  ASSUME NEW row \in JobRow, NEW p \in Payload, NEW st \in JobStatus, NEW n \in Saved,
         NEW a \in Nat, NEW b \in BOOLEAN
  PROVE  /\ [row EXCEPT !.status = st] \in JobRow
         /\ [row EXCEPT !.payload = p] \in JobRow
         /\ [row EXCEPT !.status = st, !.payload = p] \in JobRow
         /\ [row EXCEPT !.status = st, !.payload.pause = b] \in JobRow
         /\ [status |-> st, attempts |-> a, payload |-> p] \in JobRow
         /\ [p EXCEPT !.saved = n] \in Payload
         /\ [p EXCEPT !.pause = b] \in Payload
         /\ [p EXCEPT !.resume = b] \in Payload
         /\ [p EXCEPT !.pause = b, !.resume = b] \in Payload
         /\ row.payload \in Payload /\ row.status \in JobStatus /\ row.attempts \in Nat
  BY DEF JobRow, Payload

\* A document row keeps its type when a session commits a status.
LEMMA AssignedType ==
  ASSUME TypeOK, NEW s \in DocStatus, NEW t \in DocStatus
  PROVE  Assigned(s, t) \in [status : DocStatus, loaded : BOOLEAN]
  BY DEF Assigned, TypeOK

\* A worker that goes idle is well typed.
LEMMA IdleTypes ==
  ASSUME TypeInv, NEW w \in Worker, Idle(w)
  PROVE  worker' \in [Worker -> WorkerState]
         /\ \A v \in Worker : worker'[v].pc = "chunk" => worker'[v].done < Chunks
  <1>1. worker' = [worker EXCEPT ![w] = IdleWorker]
    BY DEF Idle
  <1>2. worker \in [Worker -> WorkerState]
    BY DEF TypeInv, TypeOK
  <1>3. worker' \in [Worker -> WorkerState]
    BY <1>1, <1>2, InitialTypes
  <1>4. \A v \in Worker : worker'[v] = IF v = w THEN IdleWorker ELSE worker[v]
    BY <1>1, <1>2
  <1>5. IdleWorker.pc # "chunk"
    BY DEF IdleWorker
  <1> QED
    BY <1>3, <1>4, <1>5 DEF TypeInv

\* A worker that replaces its local copy by a well-typed one is well typed.
LEMMA LocalTypes ==
  ASSUME TypeInv, NEW w \in Worker, NEW r \in WorkerState,
         r.pc = "chunk" => r.done < Chunks,
         worker' = [worker EXCEPT ![w] = r]
  PROVE  worker' \in [Worker -> WorkerState]
         /\ \A v \in Worker : worker'[v].pc = "chunk" => worker'[v].done < Chunks
  <1>1. worker \in [Worker -> WorkerState]
    BY DEF TypeInv, TypeOK
  <1>2. \A v \in Worker : worker'[v] = IF v = w THEN r ELSE worker[v]
    BY <1>1
  <1> QED
    BY <1>1, <1>2 DEF TypeInv

\* Every step of a worker keeps the types.
LEMMA WorkerTypes ==
  ASSUME TypeInv, NEW w \in Worker, WorkerStep(w) \/ WorkerFault(w)
  PROVE  TypeInv'
  <1> DEFINE r == worker[w]
             j == Job(w)
  <1>1. /\ r \in WorkerState /\ j \in JobId /\ r.row \in JobRow /\ r.row.payload \in Payload
        /\ job[j] \in JobRow /\ job[j].payload \in Payload /\ r.done \in 0 .. Chunks
        /\ r.seen \in DocStatus
    BY DEF TypeInv, TypeOK, WorkerState, JobRow, Job
  <1> USE SizeAssumption
  <1>2. CASE Pop(w)
    <2>1. Head(queue) \in JobId /\ Tail(queue) \in Seq(JobId)
      BY <1>2 DEF Pop, TypeInv, TypeOK
    <2> DEFINE s == [r EXCEPT !.pc = "popped", !.job = Head(queue)]
    <2>2. s \in WorkerState /\ s.pc # "chunk"
      BY <1>1, <2>1 DEF WorkerState
    <2>3. worker' = [worker EXCEPT ![w] = s]
      BY <1>2 DEF Pop, TypeInv, TypeOK
    <2> QED
      BY <1>2, <2>1, <2>2, <2>3, LocalTypes DEF Pop, TypeInv, TypeOK
  <1>3. CASE ReadJob(w)
    <2>1. CASE job[j].status = "queued"
      <3> DEFINE s == [r EXCEPT !.pc = "claim", !.row = job[j]]
      <3>1. s \in WorkerState /\ s.pc # "chunk"
        BY <1>1 DEF WorkerState
      <3>2. worker' = [worker EXCEPT ![w] = s]
        BY <1>3, <2>1 DEF ReadJob, TypeInv, TypeOK
      <3> QED
        BY <1>3, <3>1, <3>2, LocalTypes DEF ReadJob, TypeInv, TypeOK
    <2>2. CASE job[j].status # "queued"
      BY <1>3, <2>2, IdleTypes DEF ReadJob, TypeInv, TypeOK
    <2> QED
      BY <2>1, <2>2
  <1>4. CASE Claim(w)
    <2>1. CASE Claimable(j)
      <3> DEFINE row == [status |-> "running",
                   attempts |-> r.row.attempts + (IF r.row.payload.resume THEN 0 ELSE 1),
                   payload |-> [r.row.payload EXCEPT !.resume = FALSE]]
                 s == [IdleWorker EXCEPT
                         !.pc = IF r.row.payload.saved = Unloaded THEN "parse" ELSE "extract",
                         !.job = j,
                         !.done = IF r.row.payload.saved = Unloaded THEN 0
                                  ELSE r.row.payload.saved,
                         !.seen = doc.status]
      <3>1. row \in JobRow
        <4> DEFINE a == r.row.attempts + (IF r.row.payload.resume THEN 0 ELSE 1)
                   q == [r.row.payload EXCEPT !.resume = FALSE]
        <4>1. a \in Nat
          BY <1>1 DEF JobRow
        <4>2. q \in Payload
          BY <1>1 DEF Payload
        <4>3. "running" \in JobStatus
          BY DEF JobStatus, Active
        <4>4. \A m \in Nat : \A p \in Payload :
                 [status |-> "running", attempts |-> m, payload |-> p] \in JobRow
          BY <4>3 DEF JobRow
        <4> QED
          BY <4>1, <4>2, <4>4
      <3>2. s \in WorkerState /\ s.pc # "chunk"
        <4>1. r.row.payload.saved \in Saved
          BY <1>1 DEF Payload
        <4>2. doc.status \in DocStatus
          BY DEF TypeInv, TypeOK
        <4> DEFINE n == IF r.row.payload.saved = Unloaded THEN 0 ELSE r.row.payload.saved
                   pc == IF r.row.payload.saved = Unloaded THEN "parse" ELSE "extract"
        <4>3. n \in 0 .. Chunks
          BY <4>1 DEF Saved, Unloaded
        <4>4. pc \in Processing \ {"chunk"}
          BY DEF Processing
        <4>5. \A k \in 0 .. Chunks : \A p \in Processing : \A d \in DocStatus :
                 [IdleWorker EXCEPT !.pc = p, !.job = j, !.done = k, !.seen = d] \in WorkerState
          BY <1>1, InitialTypes DEF WorkerState
        <4>6. s.pc = pc
          BY DEF IdleWorker
        <4> QED
          BY <4>2, <4>3, <4>4, <4>5, <4>6
      <3>3. worker' = [worker EXCEPT ![w] = s] /\ job' = [job EXCEPT ![j] = row]
        BY <1>4, <2>1 DEF Claim
      <3> HIDE DEF s, row
      <3> QED
        BY <1>4, <1>1, <3>1, <3>2, <3>3, LocalTypes DEF Claim, TypeInv, TypeOK
    <2>2. CASE ~Claimable(j)
      BY <1>4, <2>2, IdleTypes DEF Claim, TypeInv, TypeOK
    <2> QED
      BY <2>1, <2>2
  <1>5. CASE ParserState(w)
    <2> DEFINE s == [r EXCEPT !.pc = "parsing", !.row = job[j]]
    <2>1. s \in WorkerState /\ s.pc # "chunk"
      BY <1>1 DEF WorkerState, Processing
    <2>2. worker' = [worker EXCEPT ![w] = s]
      BY <1>5 DEF ParserState, TypeInv, TypeOK
    <2> QED
      BY <1>5, <2>1, <2>2, LocalTypes DEF ParserState, TypeInv, TypeOK
  <1>6. CASE SaveParserState(w)
    <2> DEFINE s == [r EXCEPT !.pc = "parsed", !.row = NoRow, !.seen = "loading"]
    <2>1. s \in WorkerState /\ s.pc # "chunk"
      BY <1>1, InitialTypes DEF WorkerState, Processing, DocStatus
    <2>2. worker' = [worker EXCEPT ![w] = s]
      BY <1>6 DEF SaveParserState, TypeInv, TypeOK
    <2>3. [job[j] EXCEPT !.payload = r.row.payload] \in JobRow
      BY <1>1 DEF JobRow
    <2>4. job' \in [JobId -> JobRow]
      BY <1>6, <1>1, <2>3 DEF SaveParserState, TypeInv, TypeOK
    <2>5. doc' \in [status : DocStatus, loaded : BOOLEAN]
      BY <1>6, <1>1, AssignedType DEF SaveParserState, DocStatus, TypeInv
    <2> QED
      BY <1>6, <2>1, <2>2, <2>4, <2>5, LocalTypes DEF SaveParserState, TypeInv, TypeOK
  <1>7. ASSUME NEW pcs, NEW stage \in DocStatus, NEW next \in Processing \ {"chunk"},
               OnStage(w, pcs, stage, next)
        PROVE  TypeInv'
    <2> DEFINE s == [r EXCEPT !.pc = next, !.seen = stage]
    <2>1. s \in WorkerState /\ s.pc # "chunk"
      BY <1>1 DEF WorkerState
    <2>2. worker' = [worker EXCEPT ![w] = s]
      BY <1>7 DEF OnStage, TypeInv, TypeOK
    <2>3. doc' \in [status : DocStatus, loaded : BOOLEAN]
      BY <1>7, <1>1, AssignedType DEF OnStage, TypeInv
    <2> QED
      BY <1>7, <2>1, <2>2, <2>3, LocalTypes DEF OnStage, TypeInv, TypeOK
  <1>8. CASE \/ StageLoading(w) \/ StageExtracting(w) \/ DocumentPaused(w) \/ DocumentReady(w)
    <2>1. {"loading", "extracting", "paused", "ready"} \subseteq DocStatus
      BY DEF DocStatus
    <2>2. {"load", "check", "stop", "ready"} \subseteq Processing \ {"chunk"}
      BY DEF Processing
    <2> QED
      BY <1>7, <1>8, <2>1, <2>2
        DEF StageLoading, StageExtracting, DocumentPaused, DocumentReady
  <1>9. CASE LoadOrExtract(w)
    <2> DEFINE s == [r EXCEPT !.pc = "save", !.row = job[j],
                              !.done = IF r.pc = "load" THEN 0 ELSE r.done + 1]
    <2>1. r.pc # "load" => r.done < Chunks
      BY <1>9 DEF LoadOrExtract, At, TypeInv
    <2>2. s \in WorkerState /\ s.pc # "chunk"
      <3> DEFINE n == IF r.pc = "load" THEN 0 ELSE r.done + 1
      <3>1. n \in 0 .. Chunks
        BY <1>1, <2>1
      <3>2. \A k \in 0 .. Chunks :
               [r EXCEPT !.pc = "save", !.row = job[j], !.done = k] \in WorkerState
        BY <1>1 DEF WorkerState, Processing
      <3>3. s \in WorkerState
        BY <3>1, <3>2
      <3>4. s.pc = "save"
        BY <1>1 DEF WorkerState
      <3> QED
        BY <3>3, <3>4
    <2>3. worker' = [worker EXCEPT ![w] = s]
      BY <1>9 DEF LoadOrExtract, TypeInv, TypeOK
    <2> QED
      BY <1>9, <2>2, <2>3, LocalTypes DEF LoadOrExtract, TypeInv, TypeOK
  <1>10. CASE SaveCheckpoint(w)
    <2> DEFINE s == [r EXCEPT !.pc = IF r.done = 0 THEN "extract" ELSE "check", !.row = NoRow]
    <2>1. s \in WorkerState /\ s.pc # "chunk"
      BY <1>1, InitialTypes DEF WorkerState, Processing
    <2>2. worker' = [worker EXCEPT ![w] = s]
      BY <1>10 DEF SaveCheckpoint, TypeInv, TypeOK
    <2>3. r.done \in Saved
      BY <1>1 DEF Saved, Unloaded
    <2>4. [job[j] EXCEPT !.payload = [r.row.payload EXCEPT !.saved = r.done]] \in JobRow
      BY <1>1, <2>3 DEF JobRow, Payload
    <2>5. job' \in [JobId -> JobRow]
      BY <1>10, <1>1, <2>4 DEF SaveCheckpoint, TypeInv, TypeOK
    <2>6. doc' \in [status : DocStatus, loaded : BOOLEAN]
      BY <1>10 DEF SaveCheckpoint, TypeInv, TypeOK
    <2> QED
      BY <1>10, <2>1, <2>2, <2>5, <2>6, LocalTypes DEF SaveCheckpoint, TypeInv, TypeOK
  <1>11. CASE CheckPause(w)
    <2> DEFINE s == [r EXCEPT !.pc = IF job[j].payload.pause THEN "paused" ELSE "chunk"]
    <2>1. s \in WorkerState /\ s.done < Chunks
      BY <1>11, <1>1 DEF CheckPause, Remaining, WorkerState, Processing
    <2>2. worker' = [worker EXCEPT ![w] = s]
      BY <1>11 DEF CheckPause, Step, TypeInv, TypeOK
    <2> QED
      BY <1>11, <2>1, <2>2, LocalTypes DEF CheckPause, TypeInv, TypeOK
  <1>12. ASSUME NEW st \in JobStatus, NEW b \in BOOLEAN, Idle(w),
                \/ job' = [job EXCEPT ![j].status = st]
                \/ job' = [job EXCEPT ![j].status = st, ![j].payload.pause = b],
                UNCHANGED <<doc, queue, timers, client, up, ops, crashes, faults, lost>>
         PROVE  TypeInv'
    <2>1. /\ [job[j] EXCEPT !.status = st] \in JobRow
          /\ [job[j] EXCEPT !.status = st, !.payload.pause = b] \in JobRow
      BY <1>1 DEF JobRow, Payload
    <2>2. job' \in [JobId -> JobRow]
      BY <1>12, <1>1, <2>1 DEF TypeInv, TypeOK
    <2> QED
      BY <1>12, <2>2, IdleTypes DEF TypeInv, TypeOK
  <1>13. CASE JobPaused(w) \/ JobSucceeded(w) \/ JobFailed(w) \/ JobRequeued(w)
    <2>1. {"paused", "succeeded", "failed", "queued"} \subseteq JobStatus
      BY DEF JobStatus, Active, Settled
    <2> QED
      BY <1>12, <1>13, <2>1 DEF JobPaused, JobSucceeded, JobFailed, JobRequeued
  <1>14. CASE ScheduleRetry(w)
    <2> DEFINE s == [r EXCEPT !.pc = "requeue"]
    <2>1. s \in WorkerState /\ s.pc # "chunk"
      BY <1>1 DEF WorkerState, Processing
    <2>2. worker' = [worker EXCEPT ![w] = s]
      BY <1>14 DEF ScheduleRetry, Step, TypeInv, TypeOK
    <2>3. timers' \in [JobId -> Nat]
      BY <1>14, <1>1 DEF ScheduleRetry, TypeInv, TypeOK
    <2> QED
      BY <1>14, <2>1, <2>2, <2>3, LocalTypes DEF ScheduleRetry, TypeInv, TypeOK
  <1>15. CASE JobVanished(w) \/ SettleRaises(w)
    BY <1>15, IdleTypes DEF JobVanished, SettleRaises, TypeInv, TypeOK
  <1>16. CASE \E b \in BOOLEAN : DocumentFailed(w, b) \/ ReadyRaises(w, b)
    <2>1. PICK b \in BOOLEAN : DocumentFailed(w, b) \/ ReadyRaises(w, b)
      BY <1>16
    <2> DEFINE s == [IdleWorker EXCEPT !.pc = "failed", !.job = j, !.retryable = b]
    <2>2. s \in WorkerState /\ s.pc # "chunk"
      BY <1>1, InitialTypes DEF WorkerState, Processing
    <2>3. worker' = [worker EXCEPT ![w] = s]
      BY <2>1 DEF DocumentFailed, ReadyRaises, Failing
    <2>4. doc' \in [status : DocStatus, loaded : BOOLEAN]
      <3>1. "failed" \in DocStatus
        BY DEF DocStatus
      <3>2. doc' = doc \/ doc' = Assigned(r.seen, "failed")
        BY <2>1 DEF DocumentFailed, ReadyRaises
      <3> QED
        BY <1>1, <3>1, <3>2, AssignedType DEF TypeInv, TypeOK
    <2>5. faults' \in Nat
      BY <2>1 DEF DocumentFailed, ReadyRaises, Failing, TypeInv, TypeOK
    <2> QED
      BY <2>1, <2>2, <2>3, <2>4, <2>5, LocalTypes
        DEF DocumentFailed, ReadyRaises, Failing, TypeInv, TypeOK
  <1> QED
    BY <1>2, <1>3, <1>4, <1>5, <1>6, <1>8, <1>9, <1>10, <1>11, <1>13, <1>14, <1>15, <1>16
      DEF WorkerStep, WorkerFault

\* Every step of a request keeps the types.
LEMMA ClientTypes ==
  ASSUME TypeInv, NEW c \in Client,
         \/ Upload(c) \/ (\E op \in Operation : Request(c, op)) \/ ClientStep(c) \/ DeleteRaises(c)
  PROVE  TypeInv'
  <1> DEFINE r == client[c]
             j == client[c].job
  <1>1. /\ r \in ClientState /\ j \in JobId /\ Row(c) \in JobRow /\ Row(c).payload \in Payload
        /\ \A k \in JobId : job[k] \in JobRow /\ job[k].payload \in Payload
        /\ r.seen \in DocStatus /\ doc.status \in DocStatus /\ doc.loaded \in BOOLEAN
        /\ r.rows \in [JobId -> JobRow]
    BY DEF TypeInv, TypeOK, ClientState, JobRow, Row
  <1>2. ASSUME NEW s \in ClientState, client' = [client EXCEPT ![c] = s]
        PROVE  client' \in [Client -> ClientState]
    BY <1>2 DEF TypeInv, TypeOK
  <1>3. ASSUME Done(c) PROVE client' \in [Client -> ClientState]
    BY <1>3, <1>2, InitialTypes DEF Done
  <1>4. ASSUME NEW k \in JobId, NEW next \in {"pausing", "resuming", "latest"},
               Holding(c, k, next)
        PROVE  client' \in [Client -> ClientState]
    <2> DEFINE s == [r EXCEPT !.pc = next, !.job = k, !.rows = [r.rows EXCEPT ![k] = job[k]]]
    <2>1. [r.rows EXCEPT ![k] = job[k]] \in [JobId -> JobRow]
      BY <1>1
    <2>2. s \in ClientState
      BY <1>1, <2>1 DEF ClientState
    <2>3. client' = [client EXCEPT ![c] = s]
      BY <1>4 DEF Holding, TypeInv, TypeOK, ClientState
    <2> QED
      BY <1>2, <2>2, <2>3
  <1>5. \A k \in JobId : [IdleClient EXCEPT !.pc = "enqueue", !.job = k] \in ClientState
    BY InitialTypes DEF ClientState
  <1>6. CASE Upload(c)
    <2>1. [r EXCEPT !.pc = "enqueue"] \in ClientState
      BY <1>1 DEF ClientState
    <2>2. client' = [client EXCEPT ![c] = [r EXCEPT !.pc = "enqueue"]]
      BY <1>6 DEF Upload, TypeInv, TypeOK
    <2>3. [job[1] EXCEPT !.status = "queued"] \in JobRow
      BY <1>1, InitialTypes DEF JobRow, JobStatus, Active
    <2>4. job' \in [JobId -> JobRow]
      BY <1>6, <2>3, InitialTypes DEF Upload, TypeInv, TypeOK
    <2>5. doc' \in [status : DocStatus, loaded : BOOLEAN]
      BY <1>6 DEF Upload, TypeInv, TypeOK, DocStatus
    <2> QED
      BY <1>6, <1>2, <2>1, <2>2, <2>4, <2>5 DEF Upload, TypeInv, TypeOK
  <1>7. CASE \E op \in Operation : Request(c, op)
    <2>1. PICK op \in Operation : Request(c, op)
      BY <1>7
    <2> DEFINE s == [r EXCEPT !.pc = op, !.seen = doc.status, !.loaded = doc.loaded]
    <2>2. s \in ClientState
      BY <1>1 DEF ClientState
    <2>3. client' = [client EXCEPT ![c] = s]
      BY <2>1 DEF Request, TypeInv, TypeOK
    <2>4. client' \in [Client -> ClientState]
      BY <1>2, <2>2, <2>3
    <2>5. ops' \in Nat
      <3>1. ops' = ops + 1
        BY <2>1 DEF Request
      <3>2. ops \in Nat
        BY DEF TypeInv, TypeOK
      <3> QED
        BY <3>1, <3>2
    <2>6. UNCHANGED <<doc, job, queue, timers, worker, up, crashes, faults, lost>>
      BY <2>1 DEF Request
    <2> QED
      BY <2>4, <2>5, <2>6 DEF TypeInv, TypeOK
  <1>8. CASE Enqueue(c)
    <2>1. queue' \in Seq(JobId)
      BY <1>8, <1>1 DEF Enqueue, TypeInv, TypeOK
    <2> QED
      BY <1>8, <1>3, <2>1 DEF Enqueue, TypeInv, TypeOK
  <1>9. CASE ReadPause(c) \/ ReadResume(c) \/ ReadReprocess(c)
    <2>1. PICK next \in {"pausing", "resuming", "latest"} :
            \/ \E k \in JobId : Holding(c, k, next)
            \/ Done(c)
      BY <1>9 DEF ReadPause, ReadResume, ReadReprocess, ReadNewest
    <2>2. client' \in [Client -> ClientState]
      BY <2>1, <1>3, <1>4
    <2> QED
      BY <1>9, <2>2 DEF ReadPause, ReadResume, ReadReprocess, ReadNewest, TypeInv, TypeOK
  <1>10. CASE PauseQueued(c)
    <2>1. client' \in [Client -> ClientState]
      BY <1>10, <1>1, <1>3, <1>4 DEF PauseQueued
    <2>2. "paused" \in DocStatus
      BY DEF DocStatus
    <2>3. doc' \in [status : DocStatus, loaded : BOOLEAN]
      BY <1>10, <1>1, <2>2, AssignedType DEF PauseQueued, TypeInv, TypeOK
    <2>4. [job[j] EXCEPT !.status = "paused"] \in JobRow
      BY <1>1 DEF JobRow, JobStatus
    <2>5. job' \in [JobId -> JobRow]
      BY <1>10, <1>1, <2>4 DEF PauseQueued, TypeInv, TypeOK
    <2> QED
      BY <1>10, <2>1, <2>3, <2>5 DEF PauseQueued, TypeInv, TypeOK
  <1>11. CASE PauseRunning(c)
    <2> DEFINE p == [Row(c).payload EXCEPT !.pause = TRUE]
    <2>1. [job[j] EXCEPT !.payload = p] \in JobRow
      BY <1>1 DEF JobRow, Payload
    <2>2. job' \in [JobId -> JobRow]
      BY <1>11, <1>1, <2>1 DEF PauseRunning, TypeInv, TypeOK
    <2> QED
      BY <1>11, <1>3, <2>2 DEF PauseRunning, TypeInv, TypeOK
  <1>12. CASE Resume(c)
    <2> DEFINE p == [Row(c).payload EXCEPT !.pause = FALSE, !.resume = TRUE]
               row == [job[j] EXCEPT !.status = "queued",
                          !.payload = IF p = Row(c).payload THEN job[j].payload ELSE p]
    <2>1. p \in Payload
      BY <1>1 DEF Payload
    <2>2. row \in JobRow
      <3>1. \A q \in Payload : [job[j] EXCEPT !.status = "queued", !.payload = q] \in JobRow
        BY <1>1 DEF JobRow, JobStatus, Active
      <3> QED
        BY <1>1, <2>1, <3>1
    <2>3. CASE Exists(j)
      <3>1. job' = [job EXCEPT ![j] = row]
        BY <1>12, <2>3, <1>1 DEF Resume, TypeInv, TypeOK
      <3>2. job' \in [JobId -> JobRow]
        BY <1>1, <2>2, <3>1 DEF TypeInv, TypeOK
      <3>3. {"paused", "pending", "extracting"} \subseteq DocStatus
        BY DEF DocStatus
      <3>4. doc' \in [status : DocStatus, loaded : BOOLEAN]
        BY <1>12, <2>3, <3>3, AssignedType DEF Resume, TypeInv
      <3>5. client' \in [Client -> ClientState]
        BY <1>12, <2>3, <1>1, <1>2, <1>5 DEF Resume
      <3> QED
        BY <1>12, <3>2, <3>4, <3>5 DEF Resume, TypeInv, TypeOK
    <2>4. CASE ~Exists(j)
      BY <1>12, <2>4, <1>3 DEF Resume, TypeInv, TypeOK
    <2> QED
      BY <2>3, <2>4
  <1>13. CASE ReprocessActive(c)
    <2>1. client' \in [Client -> ClientState]
      BY <1>13, <1>1, <1>2, <1>3, <1>5 DEF ReprocessActive
    <2>2. \A st \in {"pending", "extracting", "paused"} :
             [doc EXCEPT !.status = st] \in [status : DocStatus, loaded : BOOLEAN]
      BY DEF DocStatus, TypeInv, TypeOK
    <2>3. doc' \in [status : DocStatus, loaded : BOOLEAN]
      BY <1>13, <2>2 DEF ReprocessActive, TypeInv, TypeOK
    <2> QED
      BY <1>13, <2>1, <2>3 DEF ReprocessActive, TypeInv, TypeOK
  <1>14. CASE ReprocessNew(c)
    <2> DEFINE p == [Row(c).payload EXCEPT !.pause = FALSE, !.resume = FALSE]
    <2>1. [status |-> "queued", attempts |-> 0, payload |-> p] \in JobRow
      BY <1>1 DEF JobRow, Payload, JobStatus, Active
    <2>2. job' \in [JobId -> JobRow]
      BY <1>14, <2>1 DEF ReprocessNew, TypeInv, TypeOK
    <2>3. "pending" \in DocStatus
      BY DEF DocStatus
    <2>4. doc' \in [status : DocStatus, loaded : BOOLEAN]
      <3>1. doc' = doc \/ doc' = Assigned(r.seen, "pending")
        BY <1>14 DEF ReprocessNew
      <3> QED
        BY <1>1, <2>3, <3>1, AssignedType DEF TypeInv, TypeOK
    <2>5. client' \in [Client -> ClientState]
      BY <1>14, <1>2, <1>3, <1>5 DEF ReprocessNew
    <2> QED
      BY <1>14, <2>2, <2>4, <2>5 DEF ReprocessNew, TypeInv, TypeOK
  <1>15. CASE ReadDelete(c)
    <2> DEFINE rows == [k \in JobId |-> IF job[k].status \in Active THEN job[k] ELSE NoRow]
               s == [r EXCEPT !.pc = "stopping", !.rows = rows]
    <2>1. rows \in [JobId -> JobRow]
      BY <1>1, InitialTypes
    <2>2. s \in ClientState
      BY <1>1, <2>1 DEF ClientState
    <2>3. client' = [client EXCEPT ![c] = s]
      BY <1>15 DEF ReadDelete, TypeInv, TypeOK
    <2> QED
      BY <1>15, <1>2, <2>2, <2>3 DEF ReadDelete, TypeInv, TypeOK
  <1>16. CASE StopJobs(c)
    <2> DEFINE s == [r EXCEPT !.pc = "erasing", !.rows = IdleClient.rows]
    <2>1. s \in ClientState
      BY <1>1, InitialTypes DEF ClientState
    <2>2. client' = [client EXCEPT ![c] = s]
      BY <1>16 DEF StopJobs, TypeInv, TypeOK
    <2>3. \A k \in JobId : job'[k] \in JobRow
      <3> TAKE k \in JobId
      <3>1. r.rows[k] \in JobRow /\ r.rows[k].payload \in Payload
        BY <1>1 DEF JobRow
      <3>2. [r.rows[k].payload EXCEPT !.pause = TRUE] \in Payload
        BY <3>1 DEF Payload
      <3>3. \A st \in JobStatus : \A q \in Payload :
              [job[k] EXCEPT !.status = st, !.payload = q] \in JobRow
        BY <1>1 DEF JobRow
      <3>4. job[k].status \in JobStatus /\ "paused" \in JobStatus
        BY <1>1 DEF JobRow, JobStatus
      <3> QED
        BY <1>1, <1>16, <3>2, <3>3, <3>4 DEF StopJobs
    <2>4. job' \in [JobId -> JobRow]
      BY <1>16, <2>3 DEF StopJobs
    <2> QED
      BY <1>16, <1>2, <2>1, <2>2, <2>4 DEF StopJobs, TypeInv, TypeOK
  <1>17. CASE DeleteRow(c)
    <2>1. job' \in [JobId -> JobRow]
      BY <1>17, InitialTypes DEF DeleteRow
    <2>2. doc' \in [status : DocStatus, loaded : BOOLEAN]
      BY <1>17 DEF DeleteRow, TypeInv, TypeOK, DocStatus
    <2> QED
      BY <1>17, <1>3, <2>1, <2>2 DEF DeleteRow, TypeInv, TypeOK
  <1>18. CASE DeleteRaises(c)
    BY <1>18, <1>3 DEF DeleteRaises, TypeInv, TypeOK
  <1> QED
    BY <1>6, <1>7, <1>8, <1>9, <1>10, <1>11, <1>12, <1>13, <1>14, <1>15, <1>16, <1>17, <1>18
      DEF ClientStep

\* Timers, stops and starts keep the types.
LEMMA ProcessTypes ==
  ASSUME TypeInv, Crash \/ Recover \/ (\E j \in JobId : TimerFires(j))
  PROVE  TypeInv'
  <1>1. CASE Crash
    <2>1. worker' \in [Worker -> WorkerState] /\ client' \in [Client -> ClientState]
      BY <1>1, InitialTypes DEF Crash
    <2>2. \A w \in Worker : worker'[w].pc # "chunk"
      BY <1>1 DEF Crash, IdleWorker
    <2>3. crashes' \in Nat /\ timers' \in [JobId -> Nat] /\ queue' \in Seq(JobId)
      BY <1>1 DEF Crash, TypeInv, TypeOK
    <2> QED
      BY <1>1, <2>1, <2>2, <2>3 DEF Crash, TypeInv, TypeOK
  <1>2. CASE Recover
    <2>1. RecoveredJobs \subseteq JobId
      BY DEF RecoveredJobs
    <2>2. queue' \in Seq(JobId)
      <3>1. IsFiniteSet(JobId)
        BY FS_Interval, SizeAssumption DEF JobId
      <3>2. Cardinality(RecoveredJobs) \in Nat
        BY <2>1, <3>1, FS_Subset, FS_CardinalityType
      <3>3. queue' \in [1 .. Cardinality(RecoveredJobs) -> JobId]
        BY <1>2, <2>1 DEF Recover
      <3> QED
        BY <3>2, <3>3
    <2>3. \A row \in JobRow : Recovered(row) \in JobRow
      BY DEF Recovered, JobRow, JobStatus, Active
    <2>4. job' \in [JobId -> JobRow]
      BY <1>2, <2>3 DEF Recover, TypeInv, TypeOK
    <2> QED
      BY <1>2, <2>2, <2>4 DEF Recover, TypeInv, TypeOK
  <1>3. CASE \E j \in JobId : TimerFires(j)
    BY <1>3 DEF TimerFires, TypeInv, TypeOK
  <1> QED
    BY <1>1, <1>2, <1>3

\* Every step keeps the types.
LEMMA TypeStep == TypeInv /\ [Next]_vars => TypeInv'
  <1> SUFFICES ASSUME TypeInv, [Next]_vars PROVE TypeInv'
    OBVIOUS
  <1>1. CASE UNCHANGED vars
    BY <1>1 DEF vars, TypeInv, TypeOK
  <1>2. CASE Next
    BY <1>2, WorkerTypes, ClientTypes, ProcessTypes DEF Next
  <1> QED
    BY <1>1, <1>2

\* TypeOK, for every value of the constants: rows, queue and every local copy
\* that a worker or a request keeps across an await (jobs/inproc.py, jobs/tasks.py,
\* services/document_service.py).
THEOREM TypeCorrect == Spec => []TypeOK
  <1>1. TypeInv => TypeOK
    BY DEF TypeInv
  <1> QED
    BY <1>1, TypeInit, TypeStep, PTL DEF Spec

----------------------------------------------------------------------------
(***************************************************************************)
(* One run per job, for every number of workers, requests, stops and       *)
(* faults.  The code does not grant it to every mix of requests: two       *)
(* resumes of one document, or a resume after a deletion that failed,      *)
(* start a second run.  The first theorems hold when at most one client    *)
(* resumes and none deletes.  The last two are about attention: with any   *)
(* mix of requests a job that waits is scheduled and one that runs is      *)
(* held, and with one client that revives jobs no worker works on a        *)
(* document that shows as paused.                                          *)
(***************************************************************************)

OneResumer == \A c, d \in Client : "resume" \in Ops[c] /\ "resume" \in Ops[d] => c = d
NoDeletion == \A c \in Client : "delete" \notin Ops[c]

RunningIfRun == \A w \in Worker : \A j \in JobId : Runs(w, j) => job[j].status = "running"
AllowedClient ==
    \A c \in Client : /\ client[c].pc \notin {"delete", "stopping", "erasing"}
                      /\ client[c].pc \in {"resume", "resuming"} => "resume" \in Ops[c]
PausedIfResuming ==
    \A c \in Client : client[c].pc = "resuming" => job[client[c].job].status = "paused"
NoJobBefore == doc.status = "none" => \A j \in JobId : job[j].status = "none"
IdleWhenDown == ~up => \A w \in Worker : worker[w].pc = "idle"

\* The inductive invariant: what a worker runs is RUNNING, so that a claim,
\* which needs QUEUED, never meets a run; what a request is about to resume is
\* PAUSED, so that a resume never takes a job away from its run.
RunsInv ==
    /\ TypeInv /\ OneRunPerJob /\ RunningIfRun
    /\ AllowedClient /\ PausedIfResuming /\ NoJobBefore

\* Nobody runs or resumes anything at first.
LEMMA RunsInit == Init => RunsInv
  <1> SUFFICES ASSUME Init PROVE RunsInv
    OBVIOUS
  <1>1. TypeInv
    BY TypeInit
  <1>2. \A w \in Worker : \A j \in JobId : ~Runs(w, j)
    BY DEF Init, IdleWorker, Runs, Processing
  <1>3. \A c \in Client : client[c].pc = "idle"
    BY DEF Init, IdleClient
  <1>4. NoJobBefore
    BY DEF Init, NoRow, NoJobBefore
  <1> QED
    BY <1>1, <1>2, <1>3, <1>4
      DEF RunsInv, OneRunPerJob, RunningIfRun, AllowedClient, PausedIfResuming

\* A job status that the steps below compare.
Same(j) == job'[j].status = job[j].status

\* A step of worker w that leaves the statuses of the jobs alone and does not
\* start a run keeps the invariant.
LEMMA StatusKept ==
  ASSUME RunsInv, TypeInv', NEW w \in Worker,
         \A j \in JobId : Same(j),
         \A v \in Worker : v # w => worker'[v] = worker[v],
         worker'[w].pc \notin Processing
           \/ (worker[w].pc \in Processing /\ worker'[w].job = worker[w].job),
         client' = client, doc'.status = "none" => doc.status = "none"
  PROVE  RunsInv'
  <1>1. \A v \in Worker : \A j \in JobId : Runs(v, j)' => Runs(v, j)
    BY DEF Runs, Job
  <1>2. OneRunPerJob' /\ RunningIfRun'
    BY <1>1 DEF RunsInv, OneRunPerJob, RunningIfRun, Same
  <1>3. AllowedClient' /\ NoJobBefore'
    BY DEF RunsInv, AllowedClient, NoJobBefore, Same
  <1>4. PausedIfResuming'
    BY DEF RunsInv, PausedIfResuming, Same, TypeInv, TypeOK, ClientState
  <1> QED
    BY <1>2, <1>3, <1>4 DEF RunsInv

\* A run that ends sets the status of its own job, which nobody else runs.
LEMMA RunEnds ==
  ASSUME RunsInv, TypeInv', NEW w \in Worker, NEW j \in JobId, Runs(w, j), Idle(w),
         \A k \in JobId \ {j} : Same(k),
         client' = client, doc' = doc
  PROVE  RunsInv'
  <1>1. \A v \in Worker : worker'[v] = IF v = w THEN IdleWorker ELSE worker[v]
    BY DEF Idle, RunsInv, TypeInv, TypeOK
  <1>2. \A v \in Worker : \A k \in JobId : Runs(v, k)' => Runs(v, k) /\ v # w
    BY <1>1 DEF Runs, Job, IdleWorker, Processing
  <1>3. \A v \in Worker : \A k \in JobId : Runs(v, k)' => Runs(v, k) /\ k # j
    BY <1>2 DEF RunsInv, OneRunPerJob
  <1>4. OneRunPerJob' /\ RunningIfRun'
    BY <1>3 DEF RunsInv, OneRunPerJob, RunningIfRun, Same
  <1>5. job[j].status = "running"
    BY DEF RunsInv, RunningIfRun
  <1>6. AllowedClient' /\ NoJobBefore'
    BY <1>5 DEF RunsInv, AllowedClient, NoJobBefore, Same
  <1>7. PausedIfResuming'
    BY <1>5 DEF RunsInv, PausedIfResuming, Same, TypeInv, TypeOK, ClientState
  <1> QED
    BY <1>4, <1>6, <1>7 DEF RunsInv

\* Every step of a worker keeps the invariant.
LEMMA WorkerRuns ==
  ASSUME RunsInv, NEW w \in Worker, WorkerStep(w) \/ WorkerFault(w)
  PROVE  RunsInv'
  <1> DEFINE j == Job(w)
  <1>1. TypeInv /\ TypeInv'
    BY WorkerTypes DEF RunsInv
  <1>2. j \in JobId /\ worker \in [Worker -> WorkerState] /\ job \in [JobId -> JobRow]
    BY <1>1 DEF TypeInv, TypeOK, WorkerState, Job
  <1>3. ASSUME NEW r, worker' = [worker EXCEPT ![w] = r]
        PROVE  worker'[w] = r /\ \A v \in Worker : v # w => worker'[v] = worker[v]
    BY <1>2, <1>3
  <1>4. ASSUME NEW p \in Payload, job' = [job EXCEPT ![j].payload = p]
        PROVE  \A k \in JobId : Same(k)
    BY <1>2, <1>4 DEF Same, JobRow
  <1>5. ASSUME NEW s, NEW t \in DocStatus \ {"none"}, doc' = Assigned(s, t)
        PROVE  doc'.status = "none" => doc.status = "none"
    BY <1>1, <1>5 DEF Assigned, TypeInv, TypeOK
  <1>6. CASE Idle(w) /\ job' = job /\ client' = client /\ doc' = doc
    BY <1>6, <1>1, <1>2, <1>3, StatusKept DEF Idle, IdleWorker, Processing, Same
  <1>7. CASE Pop(w)
    BY <1>7, <1>1, <1>2, StatusKept DEF Pop, Processing, Same, WorkerState
  <1>8. CASE ReadJob(w)
    <2>1. CASE Idle(w)
      BY <1>6, <1>8, <2>1 DEF ReadJob
    <2>2. CASE worker' = [worker EXCEPT ![w].pc = "claim", ![w].row = job[j]]
      BY <1>8, <2>2, <1>1, <1>2, StatusKept DEF ReadJob, Processing, Same, WorkerState
    <2> QED
      BY <1>8, <2>1, <2>2 DEF ReadJob
  <1>9. CASE Claim(w)
    <2>1. CASE ~Claimable(j)
      BY <1>6, <1>9, <2>1 DEF Claim
    <2>2. CASE Claimable(j)
      <3>1. job[j].status = "queued"
        BY <2>2 DEF Claimable
      <3>2. /\ job'[j].status = "running" /\ \A k \in JobId \ {j} : Same(k)
            /\ client' = client /\ doc' = doc
        BY <1>9, <2>2, <1>2 DEF Claim, Same
      <3>3. /\ worker'[w].job = j
            /\ \A v \in Worker : v # w => worker'[v] = worker[v]
        <4>1. PICK r : worker' = [worker EXCEPT ![w] = r] /\ r.job = j
          <5> DEFINE r == [IdleWorker EXCEPT
                  !.pc = IF worker[w].row.payload.saved = Unloaded THEN "parse" ELSE "extract",
                  !.job = j,
                  !.done = IF worker[w].row.payload.saved = Unloaded THEN 0
                           ELSE worker[w].row.payload.saved,
                  !.seen = doc.status]
          <5>1. worker' = [worker EXCEPT ![w] = r]
            BY <1>9, <2>2 DEF Claim
          <5>2. r.job = j
            BY DEF IdleWorker
          <5> QED
            BY <5>1, <5>2
        <4> QED
          BY <4>1, <1>2
      <3>4. \A v \in Worker : \A k \in JobId : Runs(v, k)' => (v = w /\ k = j) \/ Runs(v, k)
        BY <3>3 DEF Runs, Job
      <3>5. \A v \in Worker : ~Runs(v, j)
        BY <3>1, <1>2 DEF RunsInv, RunningIfRun
      <3>6. \A v \in Worker : \A k \in JobId : Runs(v, k)' =>
              (v = w /\ k = j) \/ (v # w /\ k # j /\ Runs(v, k))
        BY <3>3, <3>4, <3>5 DEF Runs, Job
      <3>7. OneRunPerJob'
        BY <3>6 DEF RunsInv, OneRunPerJob
      <3>8. RunningIfRun'
        BY <3>2, <3>6 DEF RunsInv, RunningIfRun, Same
      <3>9. AllowedClient' /\ NoJobBefore'
        BY <3>1, <3>2, <1>2 DEF RunsInv, AllowedClient, NoJobBefore
      <3>10. PausedIfResuming'
        BY <3>1, <3>2, <1>1 DEF RunsInv, PausedIfResuming, Same, TypeInv, TypeOK, ClientState
      <3> QED
        BY <1>1, <3>7, <3>8, <3>9, <3>10 DEF RunsInv
    <2> QED
      BY <2>1, <2>2
  <1>10. CASE ParserState(w) \/ LoadOrExtract(w) \/ CheckPause(w) \/ ScheduleRetry(w)
    <2>1. /\ worker[w].pc \in Processing /\ worker'[w].job = worker[w].job
          /\ \A v \in Worker : v # w => worker'[v] = worker[v]
      BY <1>10, <1>2 DEF ParserState, LoadOrExtract, CheckPause, ScheduleRetry, Step, At,
         Processing, WorkerState
    <2>2. job' = job /\ doc' = doc /\ client' = client
      BY <1>10 DEF ParserState, LoadOrExtract, CheckPause, ScheduleRetry
    <2> QED
      BY <1>1, <2>1, <2>2, StatusKept DEF Same
  <1>11. CASE SaveParserState(w) \/ SaveCheckpoint(w)
    <2>1. /\ worker[w].pc \in Processing /\ worker'[w].job = worker[w].job
          /\ \A v \in Worker : v # w => worker'[v] = worker[v]
      BY <1>11, <1>2 DEF SaveParserState, SaveCheckpoint, At, Processing, WorkerState
    <2>2. \A k \in JobId : Same(k)
      BY <1>11, <1>2 DEF SaveParserState, SaveCheckpoint, Same, JobRow
    <2>3. doc'.status = "none" => doc.status = "none"
      <3>1. "loading" \in DocStatus \ {"none"}
        BY DEF DocStatus
      <3>2. CASE SaveParserState(w)
        BY <3>1, <3>2, <1>5 DEF SaveParserState
      <3>3. CASE SaveCheckpoint(w)
        BY <3>3, <1>1 DEF SaveCheckpoint, TypeInv, TypeOK
      <3> QED
        BY <1>11, <3>2, <3>3
    <2>4. client' = client
      BY <1>11 DEF SaveParserState, SaveCheckpoint
    <2> QED
      BY <1>1, <2>1, <2>2, <2>3, <2>4, StatusKept
  <1>12. ASSUME NEW pcs \in SUBSET Processing, NEW stage \in DocStatus \ {"none"}, NEW next,
                OnStage(w, pcs, stage, next)
         PROVE  RunsInv'
    <2>1. /\ worker[w].pc \in Processing /\ worker'[w].job = worker[w].job
          /\ \A v \in Worker : v # w => worker'[v] = worker[v]
      BY <1>12, <1>2 DEF OnStage, At, WorkerState
    <2>2. job' = job /\ client' = client /\ (doc'.status = "none" => doc.status = "none")
      BY <1>5, <1>12 DEF OnStage
    <2> QED
      BY <1>1, <2>1, <2>2, StatusKept DEF Same
  <1>13. CASE StageLoading(w) \/ StageExtracting(w) \/ DocumentPaused(w) \/ DocumentReady(w)
    <2>1. {"loading", "extracting", "paused", "ready"} \subseteq DocStatus \ {"none"}
      BY DEF DocStatus
    <2>2. {"parse", "parsed", "extract", "paused", "check"} \subseteq Processing
      BY DEF Processing
    <2> QED
      BY <1>12, <1>13, <2>1, <2>2
        DEF StageLoading, StageExtracting, DocumentPaused, DocumentReady
  <1>14. CASE JobPaused(w) \/ JobSucceeded(w) \/ JobFailed(w) \/ JobRequeued(w)
    <2>1. Runs(w, j) /\ Idle(w) /\ client' = client /\ doc' = doc
      BY <1>14 DEF JobPaused, JobSucceeded, JobFailed, JobRequeued, At, Runs, Processing
    <2>2. \A k \in JobId \ {j} : Same(k)
      BY <1>14, <1>2 DEF JobPaused, JobSucceeded, JobFailed, JobRequeued, Same
    <2> QED
      BY <1>1, <1>2, <2>1, <2>2, RunEnds
  <1>15. CASE JobVanished(w) \/ SettleRaises(w)
    BY <1>6, <1>15 DEF JobVanished, SettleRaises
  <1>16. CASE \E b \in BOOLEAN : DocumentFailed(w, b) \/ ReadyRaises(w, b)
    <2>1. PICK b \in BOOLEAN : DocumentFailed(w, b) \/ ReadyRaises(w, b)
      BY <1>16
    <2>2. worker[w].pc \in Processing
      BY <2>1 DEF DocumentFailed, ReadyRaises, At, Processing
    <2>3. worker'[w].job = worker[w].job /\ \A v \in Worker : v # w => worker'[v] = worker[v]
      BY <2>1, <1>2 DEF DocumentFailed, ReadyRaises, Failing, IdleWorker, Job
    <2>4. "failed" \in DocStatus \ {"none"}
      BY DEF DocStatus
    <2>5. doc'.status = "none" => doc.status = "none"
      BY <2>1, <2>4, <1>5 DEF DocumentFailed, ReadyRaises
    <2>6. job' = job /\ client' = client
      BY <2>1 DEF DocumentFailed, ReadyRaises, Failing
    <2> QED
      BY <1>1, <2>2, <2>3, <2>5, <2>6, StatusKept DEF Same
  <1> QED
    BY <1>7, <1>8, <1>9, <1>10, <1>11, <1>13, <1>14, <1>15, <1>16 DEF WorkerStep, WorkerFault

\* A step of a request that changes no status of a running job keeps the runs.
LEMMA RequestKeepsRuns ==
  ASSUME RunsInv, worker' = worker,
         \A j \in JobId : job[j].status = "running" => Same(j)
  PROVE  OneRunPerJob' /\ RunningIfRun'
  <1>1. \A v \in Worker : \A j \in JobId : Runs(v, j)' <=> Runs(v, j)
    BY DEF Runs, Job
  <1> QED
    BY <1>1 DEF RunsInv, OneRunPerJob, RunningIfRun, Same

\* Every step of a request keeps the invariant.
LEMMA ClientRuns ==
  ASSUME OneResumer, NoDeletion, RunsInv, NEW c \in Client,
         \/ Upload(c) \/ (\E op \in Operation : Request(c, op)) \/ ClientStep(c) \/ DeleteRaises(c)
  PROVE  RunsInv'
  <1> DEFINE j == client[c].job
  <1>1. TypeInv /\ TypeInv'
    BY ClientTypes DEF RunsInv
  <1>2. /\ j \in JobId /\ client \in [Client -> ClientState] /\ job \in [JobId -> JobRow]
        /\ client[c].rows \in [JobId -> JobRow] /\ doc.status \in DocStatus
    BY <1>1 DEF TypeInv, TypeOK, ClientState
  <1>3. worker' = worker
    BY DEF Upload, Request, ClientStep, DeleteRaises, Enqueue, ReadPause, PauseQueued,
       PauseRunning, ReadResume, Resume, ReadReprocess, ReprocessActive, ReprocessNew,
       ReadDelete, StopJobs, DeleteRow, ReadNewest
  <1>4. client[c].pc \notin {"delete", "stopping", "erasing"}
    BY DEF RunsInv, AllowedClient
  \* What the other clients hold does not change.
  <1>5. ASSUME NEW r, client' = [client EXCEPT ![c] = r]
        PROVE  client'[c] = r /\ \A d \in Client : d # c => client'[d] = client[d]
    BY <1>2, <1>5
  <1>6. ASSUME \A d \in Client : d # c => client'[d] = client[d],
               client'[c].pc \notin {"delete", "stopping", "erasing", "resume", "resuming"},
               \A k \in JobId : job[k].status \in {"running", "paused"} => Same(k),
               NoJobBefore'
        PROVE  RunsInv'
    <2>1. OneRunPerJob' /\ RunningIfRun'
      BY <1>3, <1>6, RequestKeepsRuns
    <2>2. AllowedClient'
      BY <1>6 DEF RunsInv, AllowedClient
    <2>3. PausedIfResuming'
      BY <1>6, <1>2 DEF RunsInv, PausedIfResuming, Same, ClientState
    <2> QED
      BY <1>1, <1>6, <2>1, <2>2, <2>3 DEF RunsInv
  <1>7. ASSUME Done(c), job' = job, doc' = doc
        PROVE  RunsInv'
    <2>1. client'[c] = IdleClient /\ \A d \in Client : d # c => client'[d] = client[d]
      BY <1>7, <1>5 DEF Done
    <2>2. NoJobBefore'
      BY <1>7 DEF RunsInv, NoJobBefore
    <2> QED
      BY <1>6, <1>7, <2>1, <2>2 DEF IdleClient, Same
  <1>8. CASE Upload(c)
    <2>1. client'[c].pc = "enqueue" /\ \A d \in Client : d # c => client'[d] = client[d]
      BY <1>8, <1>2 DEF Upload, ClientState
    <2>2. \A k \in JobId : job[k].status = "none"
      BY <1>8 DEF Upload, RunsInv, NoJobBefore
    <2>3. doc'.status = "pending"
      BY <1>8, <1>1 DEF Upload, TypeInv, TypeOK
    <2> QED
      BY <1>6, <2>1, <2>2, <2>3 DEF NoJobBefore
  <1>9. CASE \E op \in Operation : Request(c, op)
    <2>1. PICK op \in Operation : Request(c, op)
      BY <1>9
    <2>2. /\ client'[c].pc = op /\ op \in Ops[c]
          /\ \A d \in Client : d # c => client'[d] = client[d]
      BY <2>1, <1>2 DEF Request, ClientState
    <2>3. op # "delete" /\ op \notin {"stopping", "erasing", "resuming"}
      BY <2>2 DEF NoDeletion, Operation
    <2>4. job' = job /\ doc' = doc
      BY <2>1 DEF Request
    <2>5. OneRunPerJob' /\ RunningIfRun'
      BY <1>3, <2>4, RequestKeepsRuns DEF Same
    <2>6. AllowedClient'
      BY <2>2, <2>3 DEF RunsInv, AllowedClient
    <2>7. PausedIfResuming' /\ NoJobBefore'
      BY <2>2, <2>3, <2>4 DEF RunsInv, PausedIfResuming, NoJobBefore
    <2> QED
      BY <1>1, <2>5, <2>6, <2>7 DEF RunsInv
  <1>10. CASE Enqueue(c)
    BY <1>7, <1>10 DEF Enqueue
  <1>11. ASSUME NEW k \in JobId, NEW next \in {"pausing", "latest"}, Holding(c, k, next),
                job' = job, doc' = doc
         PROVE  RunsInv'
    <2>1. client'[c].pc = next /\ \A d \in Client : d # c => client'[d] = client[d]
      BY <1>11, <1>2 DEF Holding, ClientState
    <2>2. NoJobBefore'
      BY <1>11 DEF RunsInv, NoJobBefore
    <2> QED
      BY <1>6, <1>11, <2>1, <2>2 DEF Same
  <1>12. CASE ReadPause(c) \/ ReadReprocess(c)
    <2>1. PICK next \in {"pausing", "latest"} : (\E k \in JobId : Holding(c, k, next)) \/ Done(c)
      BY <1>12 DEF ReadPause, ReadReprocess, ReadNewest
    <2>2. job' = job /\ doc' = doc
      BY <1>12 DEF ReadPause, ReadReprocess, ReadNewest
    <2> QED
      BY <1>7, <1>11, <2>1, <2>2
  <1>13. CASE ReadResume(c)
    <2>1. job' = job /\ doc' = doc /\ client[c].pc = "resume"
      BY <1>13 DEF ReadResume, ReadNewest, Holds
    <2>2. CASE Done(c)
      BY <1>7, <2>1, <2>2
    <2>3. ASSUME NEW k \in JobId, job[k].status = "paused", Holding(c, k, "resuming")
          PROVE  RunsInv'
      <3>1. /\ client'[c].pc = "resuming" /\ client'[c].job = k
            /\ \A d \in Client : d # c => client'[d] = client[d]
        BY <2>3, <1>2 DEF Holding, ClientState
      <3>2. OneRunPerJob' /\ RunningIfRun'
        BY <1>3, <2>1, RequestKeepsRuns DEF Same
      <3>3. AllowedClient'
        BY <3>1, <2>1 DEF RunsInv, AllowedClient
      <3>4. PausedIfResuming' /\ NoJobBefore'
        BY <3>1, <2>1, <2>3 DEF RunsInv, PausedIfResuming, NoJobBefore
      <3> QED
        BY <1>1, <3>2, <3>3, <3>4 DEF RunsInv
    <2> QED
      BY <1>13, <2>2, <2>3 DEF ReadResume, ReadNewest, NewestIn
  <1>14. CASE PauseQueued(c)
    <2>1. CASE StillQueued(c)
      <3>1. client'[c] = IdleClient /\ \A d \in Client : d # c => client'[d] = client[d]
        BY <1>14, <2>1, <1>5 DEF PauseQueued, Done
      <3>2. job[j].status = "queued" /\ \A k \in JobId \ {j} : Same(k)
        BY <1>14, <2>1, <1>2 DEF PauseQueued, StillQueued, Same
      <3>3. doc'.status # "none"
        <4>1. doc.status # "none"
          BY <3>2, <1>2 DEF RunsInv, NoJobBefore
        <4>2. doc' = Assigned(client[c].seen, "paused")
          BY <1>14, <2>1 DEF PauseQueued
        <4> QED
          BY <4>1, <4>2, <1>1 DEF Assigned, TypeInv, TypeOK
      <3> QED
        BY <1>6, <3>1, <3>2, <3>3 DEF IdleClient, NoJobBefore
    <2>2. CASE ~StillQueued(c)
      BY <1>14, <2>2, <1>2, <1>7, <1>11 DEF PauseQueued
    <2> QED
      BY <2>1, <2>2
  <1>15. CASE PauseRunning(c)
    <2>1. client'[c] = IdleClient /\ \A d \in Client : d # c => client'[d] = client[d]
      BY <1>15, <1>5 DEF PauseRunning, Done
    <2>2. \A k \in JobId : Same(k)
      BY <1>15, <1>2 DEF PauseRunning, Same, JobRow
    <2>3. NoJobBefore'
      BY <1>15, <2>2 DEF PauseRunning, RunsInv, NoJobBefore, Same
    <2> QED
      BY <1>6, <2>1, <2>2, <2>3 DEF IdleClient
  <1>16. CASE Resume(c)
    <2>1. CASE ~Exists(j)
      BY <1>7, <1>16, <2>1 DEF Resume
    <2>2. CASE Exists(j)
      <3>1. client'[c].pc = "enqueue" /\ \A d \in Client : d # c => client'[d] = client[d]
        <4> DEFINE r == [IdleClient EXCEPT !.pc = "enqueue", !.job = j]
        <4>1. r.pc = "enqueue"
          BY DEF IdleClient
        <4>2. client' = [client EXCEPT ![c] = r]
          BY <1>16, <2>2 DEF Resume
        <4> HIDE DEF r
        <4> QED
          BY <4>1, <4>2, <1>5
      <3>2. job[j].status = "paused" /\ \A k \in JobId \ {j} : Same(k)
        BY <1>16, <1>2 DEF Resume, Holds, RunsInv, PausedIfResuming, Same
      <3>3. "resume" \in Ops[c]
        BY <1>16 DEF Resume, Holds, RunsInv, AllowedClient
      <3>4. \A d \in Client : client'[d].pc # "resuming"
        BY <3>1, <3>3 DEF OneResumer, RunsInv, AllowedClient
      <3>5. OneRunPerJob' /\ RunningIfRun'
        BY <1>3, <3>2, RequestKeepsRuns
      <3>6. AllowedClient'
        BY <3>1 DEF RunsInv, AllowedClient
      <3>7. PausedIfResuming'
        BY <3>4 DEF PausedIfResuming
      <3>8. doc'.status # "none"
        BY <1>16, <2>2, <1>1 DEF Resume, Assigned, TypeInv, TypeOK
      <3> QED
        BY <1>1, <3>5, <3>6, <3>7, <3>8 DEF RunsInv, NoJobBefore
    <2> QED
      BY <2>1, <2>2
  <1>17. CASE ReprocessActive(c)
    <2>1. /\ client'[c].pc \in {"enqueue", "idle"}
          /\ \A d \in Client : d # c => client'[d] = client[d]
      <3> DEFINE r == [IdleClient EXCEPT !.pc = "enqueue", !.job = j]
      <3>1. CASE Done(c)
        <4>1. IdleClient.pc = "idle"
          BY DEF IdleClient
        <4> QED
          BY <3>1, <4>1, <1>5 DEF Done
      <3>2. CASE client' = [client EXCEPT ![c] = r]
        <4>1. r.pc = "enqueue"
          BY DEF IdleClient
        <4> HIDE DEF r
        <4> QED
          BY <3>2, <4>1, <1>5
      <3> QED
        BY <1>17, <3>1, <3>2 DEF ReprocessActive
    <2>2. job' = job
      BY <1>17 DEF ReprocessActive
    <2>3. doc'.status = "none" => doc.status = "none"
      BY <1>17, <1>1 DEF ReprocessActive, TypeInv, TypeOK
    <2>4. NoJobBefore'
      BY <2>2, <2>3 DEF RunsInv, NoJobBefore
    <2> QED
      BY <1>6, <2>1, <2>2, <2>4 DEF Same
  <1>18. CASE ReprocessNew(c)
    <2>1. CASE Done(c) /\ UNCHANGED <<doc, job>>
      BY <1>7, <2>1
    <2>2. CASE ~(Done(c) /\ UNCHANGED <<doc, job>>)
      <3>1. /\ client'[c].pc = "enqueue" /\ \A d \in Client : d # c => client'[d] = client[d]
        BY <1>18, <2>2, <1>2 DEF ReprocessNew, IdleClient
      <3>2. PICK k \in JobId : ~Exists(k) /\ \A i \in JobId \ {k} : Same(i)
        <4>1. PICK k \in JobId : /\ \A i \in JobId : Exists(i) => i < k
                                 /\ \A i \in JobId \ {k} : Same(i)
          BY <1>18, <2>2, <1>2 DEF ReprocessNew, Same
        <4>2. ~(k < k)
          BY <4>1 DEF JobId
        <4> QED
          BY <4>1, <4>2
      <3>3. \A i \in JobId : job[i].status \in {"running", "paused"} => Same(i)
        BY <3>2 DEF Exists
      <3>4. doc'.status # "none"
        <4>1. DocExists /\ doc' = Assigned(client[c].seen, "pending")
          BY <1>18, <2>2 DEF ReprocessNew
        <4> QED
          BY <4>1, <1>1 DEF DocExists, Assigned, TypeInv, TypeOK
      <3> QED
        BY <1>6, <3>1, <3>3, <3>4 DEF NoJobBefore
    <2> QED
      BY <2>1, <2>2
  <1>19. ~(ReadDelete(c) \/ StopJobs(c) \/ DeleteRow(c) \/ DeleteRaises(c))
    BY <1>4 DEF ReadDelete, StopJobs, DeleteRow, DeleteRaises, Holds
  <1> QED
    BY <1>8, <1>9, <1>10, <1>12, <1>13, <1>14, <1>15, <1>16, <1>17, <1>18, <1>19 DEF ClientStep

\* Timers, stops and starts keep the invariant.
LEMMA ProcessRuns ==
  ASSUME RunsInv, IdleWhenDown, Crash \/ Recover \/ (\E j \in JobId : TimerFires(j))
  PROVE  RunsInv'
  <1>1. TypeInv /\ TypeInv'
    BY ProcessTypes DEF RunsInv
  <1>2. CASE Crash
    <2>1. \A v \in Worker : \A j \in JobId : ~Runs(v, j)'
      BY <1>2 DEF Crash, Runs, IdleWorker, Processing
    <2>2. \A c \in Client : client'[c].pc = "idle"
      BY <1>2 DEF Crash, IdleClient
    <2>3. NoJobBefore'
      BY <1>2 DEF Crash, RunsInv, NoJobBefore
    <2> QED
      BY <1>1, <2>1, <2>2, <2>3
        DEF RunsInv, OneRunPerJob, RunningIfRun, AllowedClient, PausedIfResuming
  <1>3. CASE Recover
    <2>1. \A v \in Worker : \A j \in JobId : ~Runs(v, j)'
      BY <1>3 DEF Recover, IdleWhenDown, Runs, Processing
    <2>2. \A j \in JobId : job'[j] = Recovered(job[j]) /\ job[j] \in JobRow
      BY <1>1, <1>3 DEF Recover, TypeInv, TypeOK
    <2>3. \A j \in JobId : job[j].status # "running" => Same(j)
      BY <2>2 DEF Recovered, Same
    <2>4. client' = client /\ doc' = doc
      BY <1>3 DEF Recover
    <2>5. AllowedClient' /\ NoJobBefore'
      BY <2>3, <2>4 DEF RunsInv, AllowedClient, NoJobBefore, Same
    <2>6. PausedIfResuming'
      BY <1>1, <2>3, <2>4 DEF RunsInv, PausedIfResuming, Same, TypeInv, TypeOK, ClientState
    <2> QED
      BY <1>1, <2>1, <2>5, <2>6 DEF RunsInv, OneRunPerJob, RunningIfRun
  <1>4. CASE \E j \in JobId : TimerFires(j)
    BY <1>1, <1>4 DEF TimerFires, RunsInv, OneRunPerJob, RunningIfRun, AllowedClient,
       PausedIfResuming, NoJobBefore, Runs, Job
  <1> QED
    BY <1>2, <1>3, <1>4

\* A stop leaves no worker behind, and none works before the next start.
LEMMA DownStep == IdleWhenDown /\ [Next]_vars => IdleWhenDown'
  <1> SUFFICES ASSUME IdleWhenDown, [Next]_vars PROVE IdleWhenDown'
    OBVIOUS
  <1>1. CASE UNCHANGED vars
    BY <1>1 DEF vars, IdleWhenDown
  <1>2. ASSUME NEW w \in Worker, WorkerStep(w) \/ WorkerFault(w)
        PROVE  up'
    <2>1. up
      BY <1>2 DEF WorkerStep, WorkerFault, At, Pop, ReadJob, Claim, ParserState, SaveParserState,
         StageLoading, LoadOrExtract, SaveCheckpoint, StageExtracting, OnStage, CheckPause,
         DocumentPaused, JobPaused, DocumentReady, JobSucceeded, JobFailed, ScheduleRetry,
         JobRequeued, JobVanished, DocumentFailed, ReadyRaises, Failing, SettleRaises
    <2>2. up' = up
      BY <1>2 DEF WorkerStep, WorkerFault, At, Pop, ReadJob, Claim, ParserState, SaveParserState,
         StageLoading, LoadOrExtract, SaveCheckpoint, StageExtracting, OnStage, CheckPause,
         DocumentPaused, JobPaused, DocumentReady, JobSucceeded, JobFailed, ScheduleRetry,
         JobRequeued, JobVanished, DocumentFailed, ReadyRaises, Failing, SettleRaises
    <2> QED
      BY <2>1, <2>2
  <1>3. ASSUME NEW c \in Client,
               \/ Upload(c) \/ (\E op \in Operation : Request(c, op)) \/ ClientStep(c)
               \/ DeleteRaises(c)
        PROVE  up'
    <2>1. up
      BY <1>3 DEF ClientStep, Holds, Upload, Request, DeleteRaises, Enqueue, ReadPause,
         PauseQueued, PauseRunning, ReadResume, Resume, ReadReprocess, ReprocessActive,
         ReprocessNew, ReadDelete, StopJobs, DeleteRow, ReadNewest
    <2>2. up' = up
      BY <1>3 DEF ClientStep, Holds, Upload, Request, DeleteRaises, Enqueue, ReadPause,
         PauseQueued, PauseRunning, ReadResume, Resume, ReadReprocess, ReprocessActive,
         ReprocessNew, ReadDelete, StopJobs, DeleteRow, ReadNewest
    <2> QED
      BY <2>1, <2>2
  <1>4. CASE \E j \in JobId : TimerFires(j)
    BY <1>4 DEF TimerFires, IdleWhenDown
  <1>5. CASE Crash \/ Recover
    BY <1>5 DEF Crash, Recover, IdleWhenDown, IdleWorker
  <1> QED
    BY <1>1, <1>2, <1>3, <1>4, <1>5 DEF Next, IdleWhenDown

\* Every step keeps the invariant.
LEMMA RunsStep ==
  ASSUME OneResumer, NoDeletion
  PROVE  RunsInv /\ IdleWhenDown /\ [Next]_vars => RunsInv'
  <1> SUFFICES ASSUME RunsInv, IdleWhenDown, [Next]_vars PROVE RunsInv'
    OBVIOUS
  <1>1. CASE UNCHANGED vars
    <2>1. TypeInv'
      BY <1>1, TypeStep DEF RunsInv
    <2> QED
      BY <1>1, <2>1 DEF vars, RunsInv, OneRunPerJob, RunningIfRun, AllowedClient,
         PausedIfResuming, NoJobBefore, Runs, Job
  <1>2. CASE Next
    BY <1>2, WorkerRuns, ClientRuns, ProcessRuns DEF Next
  <1> QED
    BY <1>1, <1>2

\* OneRunPerJob: with one client that resumes and none that deletes, no job is
\* ever run by two workers, however the queue duplicates it, the retries fire,
\* the process restarts or other clients pause and reprocess (jobs/inproc.py, _run).
THEOREM OneRun ==
  ASSUME OneResumer, NoDeletion
  PROVE  Spec => []OneRunPerJob
  <1>1. Init => RunsInv /\ IdleWhenDown
    BY RunsInit DEF Init, IdleWhenDown
  <1>2. RunsInv /\ IdleWhenDown /\ [Next]_vars => RunsInv' /\ IdleWhenDown'
    BY RunsStep, DownStep
  <1>3. RunsInv => OneRunPerJob
    BY DEF RunsInv
  <1> QED
    BY <1>1, <1>2, <1>3, PTL DEF Spec

SettledKept == \A j \in JobId : job[j].status \in Settled => Same(j)

\* A worker settles only the job it runs, and claims only a queued one.
LEMMA WorkerSettles ==
  ASSUME RunsInv, NEW w \in Worker, WorkerStep(w) \/ WorkerFault(w)
  PROVE  SettledKept
  <1> DEFINE j == Job(w)
  <1>1. j \in JobId /\ job \in [JobId -> JobRow]
    BY DEF RunsInv, TypeInv, TypeOK, WorkerState, Job
  <1>2. CASE job' = job
    BY <1>2 DEF SettledKept, Same
  <1>3. CASE Claim(w)
    <2>1. CASE Claimable(j)
      <3>1. job[j].status = "queued" /\ \A k \in JobId \ {j} : Same(k)
        BY <1>1, <1>3, <2>1 DEF Claim, Claimable, Same
      <3> QED
        BY <3>1 DEF SettledKept, Settled
    <2>2. CASE ~Claimable(j)
      BY <1>2, <1>3, <2>2 DEF Claim
    <2> QED
      BY <2>1, <2>2
  <1>4. CASE SaveParserState(w) \/ SaveCheckpoint(w)
    BY <1>1, <1>4 DEF SaveParserState, SaveCheckpoint, SettledKept, Same, JobRow
  <1>5. CASE JobPaused(w) \/ JobSucceeded(w) \/ JobFailed(w) \/ JobRequeued(w)
    <2>1. Runs(w, j)
      BY <1>5 DEF JobPaused, JobSucceeded, JobFailed, JobRequeued, At, Runs, Processing
    <2>2. job[j].status = "running"
      BY <1>1, <2>1 DEF RunsInv, RunningIfRun
    <2>3. \A k \in JobId \ {j} : Same(k)
      BY <1>1, <1>5 DEF JobPaused, JobSucceeded, JobFailed, JobRequeued, Same
    <2> QED
      BY <2>2, <2>3 DEF SettledKept, Settled
  <1> QED
    BY <1>2, <1>3, <1>4, <1>5
      DEF WorkerStep, WorkerFault, Pop, ReadJob, ParserState, StageLoading, LoadOrExtract,
          StageExtracting, OnStage, CheckPause, DocumentPaused, DocumentReady, ScheduleRetry,
          JobVanished, DocumentFailed, ReadyRaises, Failing, SettleRaises

\* A request pauses only a queued job, resumes only a paused one and starts
\* over in a new row.
LEMMA ClientSettles ==
  ASSUME NoDeletion, RunsInv, NEW c \in Client,
         \/ Upload(c) \/ (\E op \in Operation : Request(c, op)) \/ ClientStep(c) \/ DeleteRaises(c)
  PROVE  SettledKept
  <1> DEFINE j == client[c].job
  <1>1. j \in JobId /\ job \in [JobId -> JobRow]
    BY DEF RunsInv, TypeInv, TypeOK, ClientState
  <1>2. CASE job' = job
    BY <1>2 DEF SettledKept, Same
  <1>3. CASE Upload(c)
    BY <1>3 DEF Upload, RunsInv, NoJobBefore, SettledKept, Settled
  <1>4. CASE PauseQueued(c)
    <2>1. CASE StillQueued(c)
      <3>1. job[j].status = "queued" /\ \A k \in JobId \ {j} : Same(k)
        BY <1>1, <1>4, <2>1 DEF PauseQueued, StillQueued, Same
      <3> QED
        BY <3>1 DEF SettledKept, Settled
    <2>2. CASE ~StillQueued(c)
      BY <1>2, <1>4, <2>2 DEF PauseQueued
    <2> QED
      BY <2>1, <2>2
  <1>5. CASE PauseRunning(c)
    BY <1>1, <1>5 DEF PauseRunning, SettledKept, Same, JobRow
  <1>6. CASE Resume(c)
    <2>1. CASE Exists(j)
      <3>1. job[j].status = "paused" /\ \A k \in JobId \ {j} : Same(k)
        BY <1>1, <1>6, <2>1 DEF Resume, Holds, RunsInv, PausedIfResuming, Same
      <3> QED
        BY <3>1 DEF SettledKept, Settled
    <2>2. CASE ~Exists(j)
      BY <1>2, <1>6, <2>2 DEF Resume
    <2> QED
      BY <2>1, <2>2
  <1>7. CASE ReprocessNew(c)
    <2>1. CASE Done(c) /\ UNCHANGED <<doc, job>>
      BY <1>2, <2>1
    <2>2. CASE ~(Done(c) /\ UNCHANGED <<doc, job>>)
      <3>1. PICK k \in JobId : /\ \A i \in JobId : Exists(i) => i < k
                               /\ \A i \in JobId \ {k} : Same(i)
        BY <1>1, <1>7, <2>2 DEF ReprocessNew, Same
      <3>2. ~Exists(k)
        <4>1. ~(k < k)
          BY DEF JobId
        <4> QED
          BY <3>1, <4>1
      <3> QED
        BY <3>1, <3>2 DEF SettledKept, Settled, Exists
    <2> QED
      BY <2>1, <2>2
  <1>8. ~(ReadDelete(c) \/ StopJobs(c) \/ DeleteRow(c) \/ DeleteRaises(c))
    BY DEF RunsInv, AllowedClient, ReadDelete, StopJobs, DeleteRow, DeleteRaises, Holds
  <1> QED
    BY <1>2, <1>3, <1>4, <1>5, <1>6, <1>7, <1>8
      DEF ClientStep, Request, Enqueue, ReadPause, ReadResume, ReadReprocess, ReprocessActive,
          ReadNewest

\* SettledForGood: under the same assumption a succeeded or failed job is never
\* revived by a pause, a resume, a reprocess, a late retry or a restart
\* (services/document_service.py, jobs/inproc.py).
THEOREM SettledStays ==
  ASSUME OneResumer, NoDeletion
  PROVE  Spec => SettledForGood
  <1>1. Init => RunsInv /\ IdleWhenDown
    BY RunsInit DEF Init, IdleWhenDown
  <1>2. RunsInv /\ IdleWhenDown /\ [Next]_vars => RunsInv' /\ IdleWhenDown'
    BY RunsStep, DownStep
  <1>3. RunsInv /\ [Next]_vars
          => [\A j \in JobId : job[j].status \in Settled => job'[j].status = job[j].status]_vars
    <2> SUFFICES ASSUME RunsInv, Next PROVE SettledKept
      BY DEF SettledKept, Same
    <2>1. CASE Crash \/ \E j \in JobId : TimerFires(j)
      BY <2>1 DEF Crash, TimerFires, SettledKept, Same
    <2>2. CASE Recover
      BY <2>2 DEF Recover, Recovered, SettledKept, Settled, Same
    <2> QED
      BY <2>1, <2>2, WorkerSettles, ClientSettles DEF Next
  <1> QED
    BY <1>1, <1>2, <1>3, PTL DEF Spec, SettledForGood

\* Every row, queue entry and local copy is well typed and a job has one run
\* (_run of inproc.py), the invariant that the runs check.
THEOREM RunsCorrect ==
  ASSUME OneResumer, NoDeletion
  PROVE  Spec => []RunsConsistent
  <1>1. TypeOK /\ OneRunPerJob => RunsConsistent
    BY DEF RunsConsistent
  <1>2. Spec => []OneRunPerJob
    BY OneRun
  <1> QED
    BY <1>1, <1>2, TypeCorrect, PTL

-------------------------------------------------------------------------------
(* What waits is scheduled and what runs is held.                            *)

\* A worker that is about to requeue its job has started the timer already.
RequeueTimed == \A w \in Worker : worker[w].pc = "requeue" => timers[Job(w)] > 0
\* A request that begins works on the first job until it has read another.
IdleClients == \A c \in Client : client[c].pc = "idle" => client[c].job = 1

\* The inductive invariant of the next theorem.
ScheduledInv == TypeInv /\ IdleWhenDown /\ QueuedIsScheduled /\ RunningIsHeld /\ RequeueTimed /\ IdleClients

\* A step of a worker touches no other worker, no request and no other job; of its
\* own job it claims a queued one or moves a running one.
LEMMA WorkerMoves ==
  ASSUME TypeInv, NEW w \in Worker, WorkerStep(w) \/ WorkerFault(w)
  PROVE  /\ \A v \in Worker \ {w} : worker'[v] = worker[v]
         /\ client' = client /\ up /\ up'
         /\ \A k \in JobId \ {Job(w)} : Same(k)
         /\ lost' = 0 => lost = 0
  <1>1. worker \in [Worker -> WorkerState] /\ job \in [JobId -> JobRow] /\ Job(w) \in JobId /\ lost \in Nat
    BY DEF TypeInv, TypeOK, WorkerState, Job
  <1>2. \A v \in Worker \ {w} : worker'[v] = worker[v]
    BY <1>1 DEF WorkerStep, WorkerFault, Pop, ReadJob, Claim, ParserState, SaveParserState,
       StageLoading, LoadOrExtract, SaveCheckpoint, StageExtracting, OnStage, CheckPause,
       DocumentPaused, JobPaused, DocumentReady, JobSucceeded, JobFailed, ScheduleRetry,
       JobRequeued, JobVanished, DocumentFailed, ReadyRaises, Failing, SettleRaises, Idle, Step
  <1>3. up /\ up' = up /\ client' = client
    BY DEF WorkerStep, WorkerFault, At, Pop, ReadJob, Claim, ParserState, SaveParserState,
       StageLoading, LoadOrExtract, SaveCheckpoint, StageExtracting, OnStage, CheckPause,
       DocumentPaused, JobPaused, DocumentReady, JobSucceeded, JobFailed, ScheduleRetry,
       JobRequeued, JobVanished, DocumentFailed, ReadyRaises, Failing, SettleRaises
  <1>4. \A k \in JobId \ {Job(w)} : Same(k)
    BY <1>1 DEF WorkerStep, WorkerFault, Same, Pop, ReadJob, Claim, ParserState, SaveParserState,
       StageLoading, LoadOrExtract, SaveCheckpoint, StageExtracting, OnStage, CheckPause,
       DocumentPaused, JobPaused, DocumentReady, JobSucceeded, JobFailed, ScheduleRetry,
       JobRequeued, JobVanished, DocumentFailed, ReadyRaises, Failing, SettleRaises
  <1>5. lost' = lost \/ lost' = lost + 1
    BY DEF WorkerStep, WorkerFault, Pop, ReadJob, Claim, ParserState, SaveParserState,
       StageLoading, LoadOrExtract, SaveCheckpoint, StageExtracting, OnStage, CheckPause,
       DocumentPaused, JobPaused, DocumentReady, JobSucceeded, JobFailed, ScheduleRetry,
       JobRequeued, JobVanished, DocumentFailed, ReadyRaises, Failing, SettleRaises
  <1> QED
    BY <1>1, <1>2, <1>3, <1>4, <1>5

\* A worker that goes idle holds no run, no claim and no retry.
LEMMA IdleHolds ==
  ASSUME TypeInv, NEW w \in Worker, Idle(w)
  PROVE  worker'[w] = IdleWorker /\ worker'[w].pc = "idle"
  BY DEF Idle, TypeInv, TypeOK, IdleWorker

\* A worker that leaves its job running goes on with it, unless the commit that
\* would have settled it raised.
LEMMA WorkerHolds ==
  ASSUME TypeInv, NEW w \in Worker, WorkerStep(w) \/ WorkerFault(w)
  PROVE  \/ Runs(w, Job(w))' /\ worker'[w].job = Job(w)
         \/ job'[Job(w)].status # "running"
         \/ worker[w].pc \notin Processing /\ Same(Job(w))
         \/ lost' # 0
  <1> DEFINE j == Job(w)
  <1>1. worker \in [Worker -> WorkerState] /\ job \in [JobId -> JobRow] /\ j \in JobId /\ lost \in Nat
    BY DEF TypeInv, TypeOK, WorkerState, Job
  <1>2. CASE Pop(w) \/ ReadJob(w)
    BY <1>2 DEF Pop, ReadJob, At, Processing, Same
  <1>3. CASE Claim(w)
    <2>1. CASE Claimable(j)
      <3> DEFINE r == [IdleWorker EXCEPT
                  !.pc = IF worker[w].row.payload.saved = Unloaded THEN "parse" ELSE "extract",
                  !.job = j,
                  !.done = IF worker[w].row.payload.saved = Unloaded THEN 0
                           ELSE worker[w].row.payload.saved,
                  !.seen = doc.status]
      <3>1. r.job = j /\ r.pc \in Processing
        BY DEF IdleWorker, Processing
      <3>2. worker' = [worker EXCEPT ![w] = r]
        BY <1>3, <2>1 DEF Claim
      <3> HIDE DEF r
      <3> QED
        BY <1>1, <3>1, <3>2 DEF Runs, Job
    <2>2. CASE ~Claimable(j)
      BY <1>3, <2>2 DEF Claim, At, Processing, Same
    <2> QED
      BY <2>1, <2>2
  <1>4. CASE JobPaused(w) \/ JobSucceeded(w) \/ JobFailed(w) \/ JobRequeued(w)
    BY <1>1, <1>4 DEF JobPaused, JobSucceeded, JobFailed, JobRequeued, JobRow
  <1>5. CASE JobVanished(w)
    BY <1>1, <1>5 DEF JobVanished, Exists
  <1>6. CASE SettleRaises(w)
    BY <1>1, <1>6 DEF SettleRaises
  <1>7. CASE \E b \in BOOLEAN : DocumentFailed(w, b) \/ ReadyRaises(w, b)
    <2>1. PICK b \in BOOLEAN : worker' = [worker EXCEPT ![w] = [IdleWorker EXCEPT !.pc = "failed",
                                   !.job = j, !.retryable = b]]
      BY <1>7 DEF DocumentFailed, ReadyRaises, Failing
    <2> QED
      BY <1>1, <2>1 DEF Runs, Job, IdleWorker, Processing
  <1>8. CASE ParserState(w) \/ SaveParserState(w) \/ StageLoading(w) \/ LoadOrExtract(w) \/ SaveCheckpoint(w)
             \/ StageExtracting(w) \/ CheckPause(w) \/ DocumentPaused(w) \/ DocumentReady(w) \/ ScheduleRetry(w)
    BY <1>1, <1>8 DEF ParserState, SaveParserState, StageLoading, LoadOrExtract, SaveCheckpoint, StageExtracting,
       OnStage, CheckPause, DocumentPaused, DocumentReady, ScheduleRetry, Step, Runs, Job, Processing, WorkerState
  <1> QED
    BY <1>2, <1>3, <1>4, <1>5, <1>6, <1>7, <1>8 DEF WorkerStep, WorkerFault

\* What waits in the queue or in a timer stays there, or the worker took it; a
\* queued job leaves the hands of a worker only for a timer that is running.
LEMMA WorkerSchedules ==
  ASSUME TypeInv, RequeueTimed, NEW w \in Worker, WorkerStep(w) \/ WorkerFault(w)
  PROVE  /\ \A k \in JobId : (\E i \in DOMAIN queue : queue[i] = k) =>
                \/ \E i \in DOMAIN queue' : queue'[i] = k
                \/ worker'[w].pc = "popped" /\ worker'[w].job = k
         /\ \A k \in JobId : timers[k] > 0 => timers'[k] > 0
         /\ job'[Job(w)].status = "queued" =>
                \/ Same(Job(w)) /\ worker[w].pc \notin {"popped", "claim"}
                \/ worker'[w].pc \in {"popped", "claim"} /\ worker'[w].job = Job(w)
                \/ timers'[Job(w)] > 0
         /\ worker'[w].pc = "requeue" => timers'[worker'[w].job] > 0
  <1> DEFINE j == Job(w)
             R == worker'[w].pc = "requeue" => timers'[worker'[w].job] > 0
             Q == job'[j].status = "queued" =>
                \/ Same(j) /\ worker[w].pc \notin {"popped", "claim"}
                \/ worker'[w].pc \in {"popped", "claim"} /\ worker'[w].job = j
                \/ timers'[j] > 0
  <1>1. /\ worker \in [Worker -> WorkerState] /\ job \in [JobId -> JobRow] /\ j \in JobId
        /\ timers \in [JobId -> Nat] /\ queue \in Seq(JobId)
    BY DEF TypeInv, TypeOK, WorkerState, Job
  <1>2. CASE Pop(w)
    <2>1. /\ worker'[w].pc = "popped" /\ worker'[w].job = Head(queue) /\ queue' = Tail(queue)
          /\ timers' = timers /\ job' = job /\ worker[w].pc = "idle" /\ queue # << >>
      BY <1>1, <1>2 DEF Pop, WorkerState, At
    <2>2. ASSUME NEW i \in DOMAIN queue
          PROVE  queue[i] = Head(queue) \/ \E l \in DOMAIN queue' : queue'[l] = queue[i]
      <3>1. CASE i = 1
        BY <3>1, <2>1, <1>1
      <3>2. CASE i # 1
        <4>1. i - 1 \in 1..Len(Tail(queue)) /\ Tail(queue)[i - 1] = queue[i]
          BY <1>1, <2>1, <3>2
        <4>2. Tail(queue) \in Seq(JobId)
          BY <1>1, <2>1
        <4> QED
          BY <4>1, <4>2, <2>1
      <3> QED
        BY <3>1, <3>2
    <2> QED
      BY <2>1, <2>2 DEF Same
  <1>3. CASE Idle(w) /\ queue' = queue /\ timers' = timers
             /\ (job'[j].status = "queued" => Same(j) /\ worker[w].pc \notin {"popped", "claim"})
    BY <1>3, IdleHolds
  <1>4. CASE ReadJob(w)
    <2>1. CASE job[j].status = "queued"
      <3>1. worker'[w].pc = "claim" /\ worker'[w].job = j
        BY <1>1, <1>4, <2>1 DEF ReadJob, WorkerState, Job
      <3> QED
        BY <3>1, <1>4 DEF ReadJob
    <2>2. CASE job[j].status # "queued"
      BY <1>3, <1>4, <2>2 DEF ReadJob
    <2> QED
      BY <2>1, <2>2
  <1>5. CASE Claim(w)
    <2>1. CASE Claimable(j)
      <3> DEFINE r == [IdleWorker EXCEPT
                  !.pc = IF worker[w].row.payload.saved = Unloaded THEN "parse" ELSE "extract",
                  !.job = j,
                  !.done = IF worker[w].row.payload.saved = Unloaded THEN 0
                           ELSE worker[w].row.payload.saved,
                  !.seen = doc.status]
      <3>1. r.pc # "requeue"
        BY DEF IdleWorker
      <3>2. worker' = [worker EXCEPT ![w] = r]
        BY <1>5, <2>1 DEF Claim
      <3>3. worker'[w].pc # "requeue"
        <4> HIDE DEF r
        <4> QED
          BY <1>1, <3>1, <3>2
      <3>4. job'[j].status = "running" /\ queue' = queue /\ timers' = timers
        BY <1>1, <1>5, <2>1 DEF Claim
      <3> QED
        BY <3>3, <3>4
    <2>2. CASE ~Claimable(j)
      BY <1>3, <1>5, <2>2 DEF Claim, Claimable
    <2> QED
      BY <2>1, <2>2
  <1>6. CASE JobPaused(w) \/ JobSucceeded(w) \/ JobFailed(w)
    <2>1. job'[j].status # "queued"
      BY <1>1, <1>6 DEF JobPaused, JobSucceeded, JobFailed, JobRow
    <2> QED
      BY <1>1, <1>3, <1>6, <2>1 DEF JobPaused, JobSucceeded, JobFailed
  <1>7. CASE JobRequeued(w)
    BY <1>1, <1>7, IdleHolds DEF JobRequeued, At, RequeueTimed
  <1>8. CASE JobVanished(w) \/ SettleRaises(w)
    BY <1>3, <1>8 DEF JobVanished, SettleRaises, At, Same
  <1>9. CASE \E b \in BOOLEAN : DocumentFailed(w, b) \/ ReadyRaises(w, b)
    <2>1. PICK b \in BOOLEAN : worker' = [worker EXCEPT ![w] = [IdleWorker EXCEPT !.pc = "failed",
                                   !.job = j, !.retryable = b]]
      BY <1>9 DEF DocumentFailed, ReadyRaises, Failing
    <2>2. worker'[w].pc = "failed"
      BY <1>1, <2>1 DEF IdleWorker
    <2>3. job' = job /\ queue' = queue /\ timers' = timers /\ worker[w].pc \notin {"popped", "claim"}
      BY <1>9 DEF DocumentFailed, ReadyRaises, Failing, At
    <2> QED
      BY <2>2, <2>3 DEF Same
  <1>10. CASE ScheduleRetry(w)
    <2>1. /\ timers' = [timers EXCEPT ![j] = timers[j] + 1] /\ job' = job /\ queue' = queue
          /\ worker'[w].job = j /\ worker[w].pc = "failed"
      BY <1>1, <1>10 DEF ScheduleRetry, Step, At, Job, WorkerState
    <2>2. timers'[j] > 0 /\ \A k \in JobId : timers[k] > 0 => timers'[k] > 0
      BY <1>1, <2>1
    <2> QED
      BY <2>1, <2>2 DEF Same
  <1>11. CASE ParserState(w) \/ SaveParserState(w) \/ StageLoading(w) \/ LoadOrExtract(w) \/ SaveCheckpoint(w)
             \/ StageExtracting(w) \/ CheckPause(w) \/ DocumentPaused(w) \/ DocumentReady(w)
    <2>1. /\ queue' = queue /\ timers' = timers /\ Same(j)
          /\ worker[w].pc \notin {"popped", "claim"} /\ worker'[w].pc # "requeue"
      BY <1>1, <1>11 DEF ParserState, SaveParserState, StageLoading, LoadOrExtract, SaveCheckpoint, StageExtracting,
         OnStage, CheckPause, DocumentPaused, DocumentReady, Step, At, WorkerState, Same, JobRow
    <2> QED
      BY <2>1
  <1> QED
    BY <1>2, <1>4, <1>5, <1>6, <1>7, <1>8, <1>9, <1>10, <1>11 DEF WorkerStep, WorkerFault

\* A request that is over works on the first job.
LEMMA DoneHolds ==
  ASSUME TypeInv, NEW c \in Client, Done(c)
  PROVE  client'[c].pc = "idle" /\ client'[c].job = 1
  BY DEF Done, TypeInv, TypeOK, IdleClient

\* A step of a request leaves the workers alone, and the other requests.
LEMMA ClientMoves ==
  ASSUME TypeInv, NEW c \in Client,
         \/ Upload(c) \/ (\E op \in Operation : Request(c, op)) \/ ClientStep(c) \/ DeleteRaises(c)
  PROVE  /\ worker' = worker /\ timers' = timers /\ up /\ up' /\ lost' = lost
         /\ \A d \in Client \ {c} : client'[d] = client[d]
  <1>1. worker' = worker /\ timers' = timers /\ lost' = lost /\ up' = up /\ up
    BY DEF Upload, Request, ClientStep, DeleteRaises, Enqueue, ReadPause, PauseQueued, Holds,
       PauseRunning, ReadResume, Resume, ReadReprocess, ReprocessActive, ReprocessNew,
       ReadDelete, StopJobs, DeleteRow, ReadNewest
  <1>2. \A d \in Client \ {c} : client'[d] = client[d]
    BY DEF Upload, Request, ClientStep, DeleteRaises, Enqueue, ReadPause, PauseQueued, Done, Holding,
       PauseRunning, ReadResume, Resume, ReadReprocess, ReprocessActive, ReprocessNew,
       ReadDelete, StopJobs, DeleteRow, ReadNewest, TypeInv, TypeOK
  <1> QED
    BY <1>1, <1>2

\* A request schedules every job it queues, and what it enqueues reaches the queue.
LEMMA ClientSchedules ==
  ASSUME TypeInv, IdleClients, NEW c \in Client,
         \/ Upload(c) \/ (\E op \in Operation : Request(c, op)) \/ ClientStep(c) \/ DeleteRaises(c)
  PROVE  /\ worker' = worker /\ timers' = timers /\ up /\ up' /\ lost' = lost
         /\ \A d \in Client \ {c} : client'[d] = client[d]
         /\ \A k \in JobId : (\E i \in DOMAIN queue : queue[i] = k) => \E i \in DOMAIN queue' : queue'[i] = k
         /\ client[c].pc = "enqueue" => \E i \in DOMAIN queue' : queue'[i] = client[c].job
         /\ \A k \in JobId : job'[k].status = "running" => Same(k)
         /\ \A k \in JobId : job'[k].status = "queued" =>
              Same(k) \/ (client'[c].pc = "enqueue" /\ client'[c].job = k)
         /\ client'[c].pc = "idle" => client'[c].job = 1
  <1> DEFINE j == client[c].job
  <1>1. /\ client \in [Client -> ClientState] /\ job \in [JobId -> JobRow] /\ j \in JobId
        /\ client[c].rows \in [JobId -> JobRow] /\ queue \in Seq(JobId)
    BY DEF TypeInv, TypeOK, ClientState
  <1>2. worker' = worker /\ timers' = timers /\ up /\ up' /\ lost' = lost
    BY ClientMoves
  <1>3. \A d \in Client \ {c} : client'[d] = client[d]
    BY ClientMoves
  <1>4. CASE Enqueue(c)
    <2>1. queue' = Append(queue, j) /\ job' = job
      BY <1>4 DEF Enqueue
    <2>2. /\ Len(queue') = Len(queue) + 1 /\ queue'[Len(queue) + 1] = j
          /\ \A i \in 1..Len(queue) : queue'[i] = queue[i]
      BY <1>1, <2>1
    <2>3. DOMAIN queue' = 1..(Len(queue) + 1) /\ DOMAIN queue = 1..Len(queue) /\ Len(queue) \in Nat
      <3>1. queue' \in Seq(JobId)
        BY <1>1, <2>1
      <3> QED
        BY <1>1, <2>2, <3>1
    <2>4. client'[c].job = 1
      BY <1>4, DoneHolds DEF Enqueue
    <2> QED
      BY <1>2, <1>3, <2>1, <2>2, <2>3, <2>4 DEF Same
  <1>5. CASE ~Enqueue(c)
    <2>1. queue' = queue
      BY <1>5 DEF Upload, Request, ClientStep, DeleteRaises, ReadPause, PauseQueued,
         PauseRunning, ReadResume, Resume, ReadReprocess, ReprocessActive, ReprocessNew,
         ReadDelete, StopJobs, DeleteRow, ReadNewest
    <2>2. client[c].pc # "enqueue"
      BY <1>5 DEF Upload, Request, ClientStep, DeleteRaises, ReadPause, PauseQueued, Holds,
         PauseRunning, ReadResume, Resume, ReadReprocess, ReprocessActive, ReprocessNew,
         ReadDelete, StopJobs, DeleteRow, ReadNewest, Operation
    \* What remains to be shown of each request.
    <2> DEFINE Q(k) == Same(k) \/ (client'[c].pc = "enqueue" /\ client'[c].job = k)
               Good == /\ \A k \in JobId : job'[k].status = "running" => Same(k)
                       /\ \A k \in JobId : job'[k].status = "queued" => Q(k)
                       /\ client'[c].pc = "idle" => client'[c].job = 1
    <2>3. ASSUME Done(c) /\ \A k \in JobId : Same(k) \/ job'[k].status \notin Active PROVE Good
      BY <2>3, DoneHolds DEF Active
    <2>4. ASSUME Upload(c) PROVE Good
      <3>1. j = 1
        BY <2>4 DEF Upload, Holds, IdleClients
      <3>2. client'[c].pc = "enqueue" /\ client'[c].job = 1
        BY <1>1, <2>4, <3>1 DEF Upload, ClientState
      <3>3. job'[1].status = "queued" /\ \A k \in JobId \ {1} : Same(k)
        BY <1>1, <2>4, InitialTypes DEF Upload, Same, JobRow
      <3> QED
        BY <3>2, <3>3
    <2>5. ASSUME \E op \in Operation : Request(c, op) PROVE Good
      BY <1>1, <2>5 DEF Request, Operation, ClientState, Same
    <2>6. ASSUME NEW k \in JobId, NEW next \in {"pausing", "resuming", "latest"}, Holding(c, k, next), job' = job
          PROVE  Good
      <3>1. client'[c].pc = next
        BY <1>1, <2>6 DEF Holding, ClientState
      <3> QED
        BY <2>6, <3>1 DEF Same
    <2>7. ASSUME ReadPause(c) \/ ReadResume(c) \/ ReadReprocess(c) PROVE Good
      BY <2>3, <2>6, <2>7 DEF ReadPause, ReadResume, ReadReprocess, ReadNewest, Same
    <2>8. ASSUME PauseQueued(c) PROVE Good
      <3>1. CASE StillQueued(c)
        <4>1. job'[j].status = "paused" /\ \A k \in JobId \ {j} : Same(k)
          BY <1>1, <2>8, <3>1 DEF PauseQueued, Same, JobRow
        <4> QED
          BY <2>3, <2>8, <3>1, <4>1 DEF PauseQueued, Active
      <3>2. CASE ~StillQueued(c)
        BY <1>1, <2>3, <2>6, <2>8, <3>2 DEF PauseQueued, Same
      <3> QED
        BY <3>1, <3>2
    <2>9. ASSUME PauseRunning(c) PROVE Good
      <3>1. \A k \in JobId : Same(k)
        BY <1>1, <2>9 DEF PauseRunning, Same, JobRow
      <3> QED
        BY <2>3, <2>9, <3>1 DEF PauseRunning
    <2>10. ASSUME NEW k \in JobId, client' = [client EXCEPT ![c] = [IdleClient EXCEPT !.pc = "enqueue", !.job = k]]
           PROVE  client'[c].pc = "enqueue" /\ client'[c].job = k
      <3> DEFINE r == [IdleClient EXCEPT !.pc = "enqueue", !.job = k]
      <3>1. r.pc = "enqueue" /\ r.job = k
        BY DEF IdleClient
      <3> HIDE DEF r
      <3> QED
        BY <1>1, <2>10, <3>1
    <2>11. ASSUME Resume(c) PROVE Good
      <3>1. CASE Exists(j)
        <4>1. job'[j].status = "queued" /\ \A k \in JobId \ {j} : Same(k)
          BY <1>1, <2>11, <3>1 DEF Resume, Same, JobRow
        <4>2. client'[c].pc = "enqueue" /\ client'[c].job = j
          BY <1>1, <2>10, <2>11, <3>1 DEF Resume
        <4> QED
          BY <4>1, <4>2
      <3>2. CASE ~Exists(j)
        BY <2>3, <2>11, <3>2 DEF Resume, Same
      <3> QED
        BY <3>1, <3>2
    <2>12. ASSUME ReprocessActive(c) PROVE Good
      <3>1. job' = job
        BY <2>12 DEF ReprocessActive
      <3>2. Done(c) \/ (client'[c].pc = "enqueue" /\ client'[c].job = j)
        BY <1>1, <2>10, <2>12 DEF ReprocessActive
      <3> QED
        BY <2>3, <3>1, <3>2 DEF Same
    <2>13. ASSUME ReprocessNew(c) PROVE Good
      <3>1. CASE Done(c) /\ UNCHANGED <<doc, job>>
        BY <2>3, <3>1 DEF Same
      <3>2. CASE ~(Done(c) /\ UNCHANGED <<doc, job>>)
        <4>1. PICK k \in JobId :
                 /\ \E p : job' = [job EXCEPT ![k] = [status |-> "queued", attempts |-> 0, payload |-> p]]
                 /\ client' = [client EXCEPT ![c] = [IdleClient EXCEPT !.pc = "enqueue", !.job = k]]
          BY <2>13, <3>2 DEF ReprocessNew
        <4>2. job'[k].status = "queued" /\ \A i \in JobId \ {k} : Same(i)
          BY <1>1, <4>1 DEF Same
        <4> QED
          BY <2>10, <4>1, <4>2
      <3> QED
        BY <3>1, <3>2
    <2>14. ASSUME ReadDelete(c) PROVE Good
      <3>1. job' = job /\ client'[c].pc = "stopping"
        BY <1>1, <2>14 DEF ReadDelete, ClientState
      <3> QED
        BY <3>1 DEF Same
    <2>15. ASSUME StopJobs(c) PROVE Good
      <3>1. client'[c].pc = "erasing"
        BY <1>1, <2>15 DEF StopJobs, ClientState
      <3>2. ASSUME NEW k \in JobId
            PROVE  Same(k) \/ job'[k].status = "paused"
        BY <1>1, <2>15 DEF StopJobs, Same, JobRow
      <3> QED
        BY <3>1, <3>2
    <2>16. ASSUME DeleteRow(c) PROVE Good
      <3>1. \A k \in JobId : job'[k].status = "none"
        BY <2>16 DEF DeleteRow, NoRow
      <3> QED
        BY <2>3, <2>16, <3>1 DEF DeleteRow, Active
    <2>17. ASSUME DeleteRaises(c) PROVE Good
      BY <2>3, <2>17 DEF DeleteRaises, Same
    <2>18. Good
      BY <1>5, <2>4, <2>5, <2>7, <2>8, <2>9, <2>11, <2>12, <2>13, <2>14, <2>15, <2>16, <2>17 DEF ClientStep
    <2> QED
      BY <1>2, <1>3, <2>1, <2>2, <2>18
  <1> QED
    BY <1>4, <1>5

\* The steps of a worker keep every queued job scheduled and every running one held.
LEMMA WorkerScheduled ==
  ASSUME ScheduledInv, NEW w \in Worker, WorkerStep(w) \/ WorkerFault(w)
  PROVE  ScheduledInv'
  <1> DEFINE j == Job(w)
  <1>1. TypeInv /\ TypeInv'
    BY WorkerTypes DEF ScheduledInv
  <1>2. /\ \A v \in Worker \ {w} : worker'[v] = worker[v]
        /\ client' = client /\ up /\ up'
        /\ \A k \in JobId \ {j} : Same(k)
        /\ lost' = 0 => lost = 0
    BY WorkerMoves DEF ScheduledInv
  <1>3. RunningIsHeld'
    <2> SUFFICES ASSUME lost' = 0, NEW k \in JobId, job'[k].status = "running"
                 PROVE  \E v \in Worker : Runs(v, k)'
      BY DEF RunningIsHeld
    <2>1. CASE Same(k) /\ (k # j \/ worker[w].pc \notin Processing)
      <3>1. PICK v \in Worker : Runs(v, k)
        BY <1>2, <2>1 DEF ScheduledInv, RunningIsHeld, Same
      <3>2. v # w
        BY <2>1, <3>1 DEF Runs, Job
      <3> QED
        BY <1>2, <3>1, <3>2 DEF Runs, Job
    <2>2. CASE k = j
      <3>1. Runs(w, k)' \/ (worker[w].pc \notin Processing /\ Same(k))
        BY <2>2, WorkerHolds DEF ScheduledInv, Runs, Job
      <3> QED
        BY <2>1, <3>1
    <2> QED
      BY <1>2, <2>1, <2>2
  <1>4. /\ \A k \in JobId : (\E i \in DOMAIN queue : queue[i] = k) =>
                \/ \E i \in DOMAIN queue' : queue'[i] = k
                \/ worker'[w].pc = "popped" /\ worker'[w].job = k
        /\ \A k \in JobId : timers[k] > 0 => timers'[k] > 0
        /\ job'[j].status = "queued" =>
                \/ Same(j) /\ worker[w].pc \notin {"popped", "claim"}
                \/ worker'[w].pc \in {"popped", "claim"} /\ worker'[w].job = j
                \/ timers'[j] > 0
        /\ worker'[w].pc = "requeue" => timers'[worker'[w].job] > 0
    BY WorkerSchedules DEF ScheduledInv
  <1>5. QueuedIsScheduled'
    <2> SUFFICES ASSUME NEW k \in JobId, job'[k].status = "queued"
                 PROVE  \/ \E i \in DOMAIN queue' : queue'[i] = k
                        \/ timers'[k] > 0
                        \/ \E v \in Worker : worker'[v].pc \in {"popped", "claim"} /\ worker'[v].job = k
                        \/ \E c \in Client : client'[c].pc = "enqueue" /\ client'[c].job = k
      BY DEF QueuedIsScheduled, Job
    <2>1. CASE Same(k) /\ (k # j \/ worker[w].pc \notin {"popped", "claim"})
      <3>1. \/ \E i \in DOMAIN queue : queue[i] = k
            \/ timers[k] > 0
            \/ \E v \in Worker : worker[v].pc \in {"popped", "claim"} /\ Job(v) = k
            \/ \E c \in Client : client[c].pc = "enqueue" /\ client[c].job = k
        BY <1>2, <2>1 DEF ScheduledInv, QueuedIsScheduled, Same
      <3>2. ASSUME NEW v \in Worker, worker[v].pc \in {"popped", "claim"}, Job(v) = k
            PROVE  worker'[v].pc \in {"popped", "claim"} /\ worker'[v].job = k
        <4>1. v # w
          BY <2>1, <3>2
        <4> QED
          BY <1>2, <3>2, <4>1 DEF Job
      <3> QED
        BY <1>2, <1>4, <3>1, <3>2
    <2>2. CASE k = j
      BY <1>4, <2>1, <2>2
    <2> QED
      BY <1>2, <2>1, <2>2
  <1>6. RequeueTimed'
    <2> SUFFICES ASSUME NEW v \in Worker, worker'[v].pc = "requeue"
                 PROVE  timers'[worker'[v].job] > 0
      BY DEF RequeueTimed, Job
    <2>1. worker[v].job \in JobId
      BY <1>1 DEF TypeInv, TypeOK, WorkerState
    <2> QED
      BY <1>2, <1>4, <2>1 DEF ScheduledInv, RequeueTimed, Job
  <1>7. IdleWhenDown' /\ IdleClients'
    BY <1>2 DEF ScheduledInv, IdleWhenDown, IdleClients
  <1> QED
    BY <1>1, <1>3, <1>5, <1>6, <1>7 DEF ScheduledInv

\* The steps of a request keep them as well.
LEMMA ClientScheduled ==
  ASSUME ScheduledInv, NEW c \in Client,
         \/ Upload(c) \/ (\E op \in Operation : Request(c, op)) \/ ClientStep(c) \/ DeleteRaises(c)
  PROVE  ScheduledInv'
  <1>1. TypeInv /\ TypeInv'
    BY ClientTypes DEF ScheduledInv
  <1>2. /\ worker' = worker /\ timers' = timers /\ up /\ up' /\ lost' = lost
        /\ \A d \in Client \ {c} : client'[d] = client[d]
        /\ \A k \in JobId : (\E i \in DOMAIN queue : queue[i] = k) => \E i \in DOMAIN queue' : queue'[i] = k
        /\ client[c].pc = "enqueue" => \E i \in DOMAIN queue' : queue'[i] = client[c].job
        /\ \A k \in JobId : job'[k].status = "running" => Same(k)
        /\ \A k \in JobId : job'[k].status = "queued" =>
             Same(k) \/ (client'[c].pc = "enqueue" /\ client'[c].job = k)
        /\ client'[c].pc = "idle" => client'[c].job = 1
    BY ClientSchedules DEF ScheduledInv
  <1>3. RunningIsHeld'
    BY <1>2 DEF ScheduledInv, RunningIsHeld, Same, Runs, Job
  <1>4. QueuedIsScheduled'
    <2> SUFFICES ASSUME NEW k \in JobId, job'[k].status = "queued"
                 PROVE  \/ \E i \in DOMAIN queue' : queue'[i] = k
                        \/ timers'[k] > 0
                        \/ \E v \in Worker : worker'[v].pc \in {"popped", "claim"} /\ worker'[v].job = k
                        \/ \E d \in Client : client'[d].pc = "enqueue" /\ client'[d].job = k
      BY DEF QueuedIsScheduled, Job
    <2>1. CASE Same(k)
      <3>1. \/ \E i \in DOMAIN queue : queue[i] = k
            \/ timers[k] > 0
            \/ \E v \in Worker : worker[v].pc \in {"popped", "claim"} /\ Job(v) = k
            \/ \E d \in Client : client[d].pc = "enqueue" /\ client[d].job = k
        BY <1>2, <2>1 DEF ScheduledInv, QueuedIsScheduled, Same
      <3>2. CASE \E d \in Client : client[d].pc = "enqueue" /\ client[d].job = k
        BY <1>2, <3>2
      <3> QED
        BY <1>2, <3>1, <3>2 DEF Job
    <2> QED
      BY <1>2, <2>1
  <1>5. RequeueTimed' /\ IdleWhenDown' /\ IdleClients'
    BY <1>2 DEF ScheduledInv, RequeueTimed, IdleWhenDown, IdleClients, Job
  <1> QED
    BY <1>1, <1>3, <1>4, <1>5 DEF ScheduledInv

\* So do timers, when none fires before the commit it follows, stops and starts.
LEMMA ProcessScheduled ==
  ASSUME SlowCommit = FALSE, ScheduledInv, Crash \/ Recover \/ (\E j \in JobId : TimerFires(j))
  PROVE  ScheduledInv'
  <1>1. TypeInv /\ TypeInv'
    BY ProcessTypes DEF ScheduledInv
  <1>2. CASE Crash
    <2>1. ~up' /\ \A w \in Worker : worker'[w].pc = "idle"
      BY <1>2 DEF Crash, IdleWorker
    <2>2. IdleClients'
      BY <1>2 DEF Crash, IdleClients, IdleClient
    <2> QED
      BY <1>1, <2>1, <2>2 DEF ScheduledInv, IdleWhenDown, QueuedIsScheduled, RunningIsHeld, RequeueTimed
  <1>3. CASE Recover
    <2>1. \A k \in JobId : job'[k].status # "running" /\ (job'[k].status = "queued" => k \in RecoveredJobs)
      BY <1>1, <1>3 DEF Recover, Recovered, RecoveredJobs, Active, TypeInv, TypeOK, JobRow
    <2>2. \A k \in RecoveredJobs : \E i \in DOMAIN queue' : queue'[i] = k
      BY <1>3 DEF Recover
    <2>3. worker' = worker /\ client' = client /\ ~up /\ up'
      BY <1>3 DEF Recover
    <2>4. QueuedIsScheduled'
      BY <2>1, <2>2 DEF QueuedIsScheduled
    <2>5. RunningIsHeld'
      BY <2>1 DEF RunningIsHeld
    <2>6. RequeueTimed'
      BY <2>3 DEF ScheduledInv, IdleWhenDown, RequeueTimed
    <2>7. IdleWhenDown' /\ IdleClients'
      BY <2>3 DEF ScheduledInv, IdleWhenDown, IdleClients
    <2> QED
      BY <1>1, <2>4, <2>5, <2>6, <2>7 DEF ScheduledInv
  <1>4. ASSUME NEW j \in JobId, TimerFires(j)
        PROVE  ScheduledInv'
    <2>1. /\ worker' = worker /\ client' = client /\ job' = job /\ up' = up /\ lost' = lost
          /\ timers' = [timers EXCEPT ![j] = timers[j] - 1] /\ queue' = Append(queue, j)
          /\ \A w \in Worker : ~(worker[w].pc = "requeue" /\ Job(w) = j)
      BY <1>4 DEF TimerFires
    <2>2. timers \in [JobId -> Nat] /\ queue \in Seq(JobId)
      BY <1>1 DEF TypeInv, TypeOK
    <2>3. \A k \in JobId \ {j} : timers'[k] = timers[k]
      BY <2>1, <2>2
    <2>4. \A k \in JobId : (k = j \/ \E i \in DOMAIN queue : queue[i] = k) => \E i \in DOMAIN queue' : queue'[i] = k
      <3>1. /\ Len(queue') = Len(queue) + 1 /\ queue'[Len(queue) + 1] = j
            /\ \A i \in 1..Len(queue) : queue'[i] = queue[i]
        BY <2>1, <2>2
      <3>2. DOMAIN queue' = 1..(Len(queue) + 1) /\ DOMAIN queue = 1..Len(queue) /\ Len(queue) \in Nat
        <4>1. queue' \in Seq(JobId)
          BY <2>1, <2>2
        <4> QED
          BY <2>2, <3>1, <4>1
      <3> QED
        BY <3>1, <3>2
    <2>5. QueuedIsScheduled'
      <3> SUFFICES ASSUME up, NEW k \in JobId, job[k].status = "queued"
                   PROVE  \/ \E i \in DOMAIN queue' : queue'[i] = k
                          \/ timers'[k] > 0
                          \/ \E v \in Worker : worker[v].pc \in {"popped", "claim"} /\ Job(v) = k
                          \/ \E d \in Client : client[d].pc = "enqueue" /\ client[d].job = k
        BY <2>1 DEF QueuedIsScheduled, Job
      <3>1. \/ \E i \in DOMAIN queue : queue[i] = k
            \/ timers[k] > 0
            \/ \E v \in Worker : worker[v].pc \in {"popped", "claim"} /\ Job(v) = k
            \/ \E d \in Client : client[d].pc = "enqueue" /\ client[d].job = k
        BY DEF ScheduledInv, QueuedIsScheduled
      <3> QED
        BY <2>3, <2>4, <3>1
    <2>6. RequeueTimed'
      <3> SUFFICES ASSUME NEW w \in Worker, worker[w].pc = "requeue"
                   PROVE  timers'[Job(w)] > 0
        BY <2>1 DEF RequeueTimed, Job
      <3>1. Job(w) \in JobId \ {j}
        BY <1>1, <2>1 DEF TypeInv, TypeOK, WorkerState, Job
      <3> QED
        BY <2>3, <3>1 DEF ScheduledInv, RequeueTimed
    <2>7. RunningIsHeld' /\ IdleWhenDown' /\ IdleClients'
      BY <2>1 DEF ScheduledInv, RunningIsHeld, IdleWhenDown, IdleClients, Runs, Job
    <2> QED
      BY <1>1, <2>5, <2>6, <2>7 DEF ScheduledInv
  <1> QED
    BY <1>2, <1>3, <1>4

\* Every step keeps the jobs scheduled and held.
LEMMA ScheduledStep ==
  ASSUME SlowCommit = FALSE
  PROVE  ScheduledInv /\ [Next]_vars => ScheduledInv'
  <1> SUFFICES ASSUME ScheduledInv, [Next]_vars PROVE ScheduledInv'
    OBVIOUS
  <1>1. CASE UNCHANGED vars
    <2>1. TypeInv'
      BY <1>1, TypeStep DEF ScheduledInv
    <2> QED
      BY <1>1, <2>1 DEF vars, ScheduledInv, IdleWhenDown, QueuedIsScheduled, RunningIsHeld, RequeueTimed,
         IdleClients, Runs, Job
  <1>2. CASE Next
    BY <1>2, WorkerScheduled, ClientScheduled, ProcessScheduled DEF Next
  <1> QED
    BY <1>1, <1>2

\* At first there is no job to schedule.
LEMMA ScheduledInit == Init => ScheduledInv
  <1> SUFFICES ASSUME Init PROVE ScheduledInv
    OBVIOUS
  <1>1. TypeInv
    BY TypeInit
  <1>2. \A k \in JobId : job[k].status = "none"
    BY DEF Init, NoRow
  <1>3. (\A w \in Worker : worker[w].pc = "idle") /\ (\A c \in Client : client[c].job = 1)
    BY DEF Init, IdleWorker, IdleClient
  <1> QED
    BY <1>1, <1>2, <1>3 DEF ScheduledInv, IdleWhenDown, QueuedIsScheduled, RunningIsHeld, RequeueTimed, IdleClients

\* Whatever requests race, deletions and several resumes included, a queued job is
\* on its way to a worker and a running one is in the hands of a worker, as long as
\* no retry timer outruns the commit it follows (jobs/inproc.py).
THEOREM Scheduled ==
  ASSUME SlowCommit = FALSE
  PROVE  Spec => [](QueuedIsScheduled /\ RunningIsHeld)
  <1>1. ScheduledInv => QueuedIsScheduled /\ RunningIsHeld
    BY DEF ScheduledInv
  <1> QED
    BY <1>1, ScheduledInit, ScheduledStep, PTL DEF Spec

-------------------------------------------------------------------------------
(* What each worker runs is the newest job, so that a document shown as     *)
(* paused is not processed.                                                 *)

\* Two of the operations queue a job again: at most one client requests them.
Revives == {"resume", "reprocess"}
OneWriter == \A c, d \in Client : Ops[c] \cap Revives # {} /\ Ops[d] \cap Revives # {} => c = d

\* Every job but the newest has settled.
OldSettled == \A i, k \in JobId : i < k /\ Exists(k) => job[i].status \in Settled

\* What a reprocess read of the newest job is still so: only its own client
\* could resume that job or add another.
Reprocesses == \A c \in Client : client[c].pc \in {"reprocess", "latest"} => "reprocess" \in Ops[c]
NewestAsRead(c) ==
    LET j == client[c].job
    IN  /\ Exists(j) /\ \A k \in JobId : Exists(k) => k <= j
        /\ Row(c).status \in Settled => job[j].status \in Settled
        /\ Row(c).status = "paused" => job[j].status = "paused"
LatestHeld == \A c \in Client : client[c].pc = "latest" => NewestAsRead(c)

\* A document that shows as paused has at most a run that is over, or one that
\* began on it and is about to show its first stage.
PausedRuns ==
    doc.status = "paused" => \A w \in Worker : worker[w].pc \in Processing =>
        \/ worker[w].pc = "stop"
        \/ worker[w].pc \in {"parse", "parsing", "extract"} /\ worker[w].seen = "paused"

\* The inductive invariant of the last theorem.
AttendedInv == RunsInv /\ IdleWhenDown /\ OldSettled /\ Reprocesses /\ LatestHeld /\ PausedRuns

\* The job a worker runs is the newest, the only one that has not settled.
LEMMA RunIsNewest ==
  ASSUME RunsInv, OldSettled, NEW w \in Worker, NEW j \in JobId, Runs(w, j),
         NEW k \in JobId, job[k].status \in {"queued", "running", "paused"}
  PROVE  k = j
  <1>1. job[j].status = "running"
    BY DEF RunsInv, RunningIfRun
  <1>2. ~(k < j) /\ ~(j < k)
    BY <1>1 DEF OldSettled, Exists, Settled
  <1> QED
    BY <1>2, SizeAssumption DEF JobId

\* A step that keeps what has settled and what exists keeps the older jobs settled,
\* and what a reprocess that read the newest job relies on.
LEMMA StatusesKept ==
  ASSUME TypeInv, OldSettled, LatestHeld, SettledKept,
         \A k \in JobId : Same(k) \/ (job[k].status \in Active /\ job'[k].status # "none"),
         \A c \in Client : client'[c].pc = "latest" => client'[c] = client[c]
  PROVE  OldSettled' /\ LatestHeld'
  <1>1. \A k \in JobId : Exists(k)' <=> Exists(k)
    BY DEF Exists, Same, Active
  <1>2. OldSettled'
    BY <1>1 DEF OldSettled, SettledKept, Same
  <1>3. \A c \in Client : client[c].job \in JobId
    BY DEF TypeInv, TypeOK, ClientState
  <1>4. LatestHeld'
    <2> SUFFICES ASSUME NEW c \in Client, client'[c].pc = "latest"
                 PROVE  NewestAsRead(c)'
      BY DEF LatestHeld
    <2> DEFINE j == client[c].job
    <2>1. client'[c] = client[c] /\ j \in JobId /\ NewestAsRead(c)
      BY <1>3 DEF LatestHeld
    <2>2. /\ job[j].status \in Settled => job'[j].status \in Settled
          /\ job[j].status = "paused" => job'[j].status = "paused"
      BY <2>1 DEF SettledKept, Same, Active
    <2> QED
      BY <1>1, <2>1, <2>2 DEF NewestAsRead, Row
  <1> QED
    BY <1>2, <1>4

\* Runs of other workers keep their place while the document does not become paused.
LEMMA OthersPaused ==
  ASSUME PausedRuns, NEW w \in Worker,
         \A v \in Worker \ {w} : worker'[v] = worker[v],
         doc'.status = "paused" =>
            /\ doc.status = "paused"
            /\ worker'[w].pc \in Processing =>
                 \/ worker'[w].pc = "stop"
                 \/ worker'[w].pc \in {"parse", "parsing", "extract"} /\ worker'[w].seen = "paused"
  PROVE  PausedRuns'
  BY DEF PausedRuns

\* What a step of a worker makes of the document it shows as paused.
LEMMA WorkerPaused ==
  ASSUME AttendedInv, NEW w \in Worker, WorkerStep(w) \/ WorkerFault(w)
  PROVE  PausedRuns'
  <1> DEFINE j == Job(w)
             r == worker[w]
             NotPaused == doc'.status # "paused"
             StillPaused == doc'.status = "paused" => doc.status = "paused"
  <1>1. /\ worker \in [Worker -> WorkerState] /\ job \in [JobId -> JobRow] /\ j \in JobId
        /\ doc \in [status : DocStatus, loaded : BOOLEAN] /\ TypeInv
    BY DEF AttendedInv, RunsInv, TypeInv, TypeOK, WorkerState, Job
  <1>2. \A v \in Worker \ {w} : worker'[v] = worker[v]
    BY WorkerMoves DEF AttendedInv, RunsInv
  <1>3. \A s : \A t \in DocStatus : doc' = Assigned(s, t) /\ t # "paused" /\ (s = t => doc.status # "paused")
              => NotPaused
    BY <1>1 DEF Assigned
  <1>4. doc.status = "paused" /\ r.pc \in Processing =>
          r.pc = "stop" \/ (r.pc \in {"parse", "parsing", "extract"} /\ r.seen = "paused")
    BY DEF AttendedInv, PausedRuns
  <1>5. CASE NotPaused
    BY <1>5 DEF PausedRuns
  <1>6. CASE Idle(w) /\ doc' = doc
    BY <1>2, <1>6, IdleHolds, OthersPaused, <1>1 DEF AttendedInv, Processing
  <1>7. CASE Pop(w)
    <2>1. worker'[w].pc = "popped" /\ doc' = doc
      BY <1>1, <1>7 DEF Pop, WorkerState
    <2> QED
      BY <1>2, <2>1, OthersPaused DEF AttendedInv, Processing
  <1>8. CASE ReadJob(w)
    <2>1. CASE worker' = [worker EXCEPT ![w].pc = "claim", ![w].row = job[j]]
      <3>1. worker'[w].pc = "claim" /\ doc' = doc
        BY <1>1, <1>8, <2>1 DEF ReadJob, WorkerState
      <3> QED
        BY <1>2, <3>1, OthersPaused DEF AttendedInv, Processing
    <2>2. CASE Idle(w)
      BY <1>6, <1>8, <2>2 DEF ReadJob
    <2> QED
      BY <1>8, <2>1, <2>2 DEF ReadJob
  <1>9. CASE Claim(w)
    <2>1. CASE Claimable(j)
      <3> DEFINE q == [IdleWorker EXCEPT
                  !.pc = IF worker[w].row.payload.saved = Unloaded THEN "parse" ELSE "extract",
                  !.job = j,
                  !.done = IF worker[w].row.payload.saved = Unloaded THEN 0
                           ELSE worker[w].row.payload.saved,
                  !.seen = doc.status]
      <3>1. q.seen = doc.status /\ q.pc \in {"parse", "extract"}
        BY DEF IdleWorker
      <3>2. worker' = [worker EXCEPT ![w] = q] /\ doc' = doc
        BY <1>9, <2>1 DEF Claim
      <3> HIDE DEF q
      <3>3. worker'[w] = q
        BY <1>1, <3>2
      <3> QED
        BY <1>2, <3>1, <3>2, <3>3, OthersPaused DEF AttendedInv
    <2>2. CASE ~Claimable(j)
      BY <1>6, <1>9, <2>2 DEF Claim
    <2> QED
      BY <2>1, <2>2
  <1>10. CASE ParserState(w)
    <2>1. worker'[w].pc = "parsing" /\ worker'[w].seen = r.seen /\ r.pc = "parse" /\ doc' = doc
      BY <1>1, <1>10 DEF ParserState, WorkerState, At
    <2> QED
      BY <1>2, <1>4, <2>1, OthersPaused DEF AttendedInv, Processing
  <1>11. ASSUME doc'.status = doc.status, r.pc \in {"load", "save", "chunk", "check", "failed", "ready", "paused", "requeue"}
         PROVE  NotPaused
    BY <1>4, <1>11 DEF Processing
  <1>12. CASE LoadOrExtract(w) \/ SaveCheckpoint(w) \/ CheckPause(w) \/ ScheduleRetry(w)
    <2>1. doc'.status = doc.status /\ r.pc \in {"load", "save", "chunk", "check", "failed"}
      BY <1>1, <1>12 DEF LoadOrExtract, SaveCheckpoint, CheckPause, ScheduleRetry, At
    <2> QED
      BY <1>5, <1>11, <2>1
  <1>13. CASE SaveParserState(w) \/ StageLoading(w)
    <2>1. doc' = Assigned(r.seen, "loading") /\ r.pc \in {"parse", "parsing", "parsed"}
      BY <1>13 DEF SaveParserState, StageLoading, OnStage, At
    <2>2. r.seen = "loading" => doc.status # "paused"
      BY <1>4, <2>1 DEF Processing
    <2> QED
      BY <1>3, <1>5, <2>1, <2>2 DEF DocStatus
  <1>14. CASE StageExtracting(w)
    <2>1. doc' = Assigned(r.seen, "extracting") /\ r.pc = "extract"
      BY <1>14 DEF StageExtracting, OnStage, At
    <2>2. r.seen = "extracting" => doc.status # "paused"
      BY <1>4, <2>1 DEF Processing
    <2> QED
      BY <1>3, <1>5, <2>1, <2>2 DEF DocStatus
  <1>15. CASE DocumentReady(w)
    <2>1. doc' = Assigned(r.seen, "ready") /\ r.pc = "check"
      BY <1>15 DEF DocumentReady, OnStage, At
    <2> QED
      BY <1>3, <1>4, <1>5, <2>1 DEF DocStatus, Processing
  <1>16. CASE DocumentPaused(w)
    <2>1. r.pc = "paused" /\ worker'[w].pc = "stop"
      BY <1>1, <1>16 DEF DocumentPaused, OnStage, At, WorkerState
    <2>2. Runs(w, j)
      BY <2>1 DEF Runs, Processing
    <2>3. ASSUME NEW v \in Worker \ {w}
          PROVE  worker[v].pc \notin Processing
      <3>1. SUFFICES ASSUME worker[v].pc \in Processing PROVE FALSE
        OBVIOUS
      <3>2. Job(v) \in JobId /\ Runs(v, Job(v))
        BY <1>1, <3>1 DEF Runs, WorkerState, Job
      <3>3. job[Job(v)].status = "running"
        BY <3>2 DEF AttendedInv, RunsInv, RunningIfRun
      <3>4. Job(v) = j
        BY <1>1, <2>2, <3>2, <3>3, RunIsNewest DEF AttendedInv
      <3> QED
        BY <1>1, <2>2, <3>2, <3>4 DEF AttendedInv, RunsInv, OneRunPerJob
    <2> QED
      BY <1>2, <2>1, <2>3 DEF PausedRuns
  <1>17. CASE JobPaused(w) \/ JobSucceeded(w) \/ JobFailed(w) \/ JobRequeued(w) \/ JobVanished(w) \/ SettleRaises(w)
    BY <1>6, <1>17 DEF JobPaused, JobSucceeded, JobFailed, JobRequeued, JobVanished, SettleRaises
  <1>18. CASE \E b \in BOOLEAN : DocumentFailed(w, b)
    <2>1. doc' = Assigned(r.seen, "failed") /\ r.pc \in Processing \ {"stop"}
      BY <1>18 DEF DocumentFailed, At, Processing
    <2>2. r.seen = "failed" => doc.status # "paused"
      BY <1>4, <2>1
    <2> QED
      BY <1>3, <1>5, <2>1, <2>2 DEF DocStatus
  <1>19. CASE \E b \in BOOLEAN : ReadyRaises(w, b)
    BY <1>5, <1>11, <1>19 DEF ReadyRaises, At
  <1> QED
    BY <1>7, <1>8, <1>9, <1>10, <1>12, <1>13, <1>14, <1>15, <1>16, <1>17, <1>18, <1>19
      DEF WorkerStep, WorkerFault

\* The steps of a worker keep the whole invariant.
LEMMA WorkerAttends ==
  ASSUME AttendedInv, NEW w \in Worker, WorkerStep(w) \/ WorkerFault(w)
  PROVE  AttendedInv'
  <1>1. RunsInv' /\ SettledKept /\ TypeInv
    BY WorkerRuns, WorkerSettles DEF AttendedInv, RunsInv
  <1>2. client' = client /\ up /\ up' /\ \A k \in JobId \ {Job(w)} : Same(k)
    BY <1>1, WorkerMoves
  <1>3. Same(Job(w)) \/ (job[Job(w)].status \in Active /\ job'[Job(w)].status # "none")
    <2> DEFINE j == Job(w)
    <2>1. job \in [JobId -> JobRow] /\ j \in JobId
      BY <1>1 DEF TypeInv, TypeOK, WorkerState, Job
    <2>2. CASE Claim(w)
      BY <2>1, <2>2 DEF Claim, Claimable, Active, Same
    <2>3. CASE JobPaused(w) \/ JobSucceeded(w) \/ JobFailed(w) \/ JobRequeued(w)
      <3>1. Runs(w, j)
        BY <2>3 DEF JobPaused, JobSucceeded, JobFailed, JobRequeued, At, Runs, Processing
      <3>2. job[j].status = "running"
        BY <2>1, <3>1 DEF AttendedInv, RunsInv, RunningIfRun
      <3>3. job'[j].status # "none"
        BY <2>1, <2>3 DEF JobPaused, JobSucceeded, JobFailed, JobRequeued, JobRow
      <3> QED
        BY <3>2, <3>3 DEF Active
    <2>4. CASE SaveParserState(w) \/ SaveCheckpoint(w)
      BY <2>1, <2>4 DEF SaveParserState, SaveCheckpoint, Same, JobRow
    <2>5. CASE job' = job
      BY <2>5 DEF Same
    <2> QED
      BY <2>2, <2>3, <2>4, <2>5
        DEF WorkerStep, WorkerFault, Pop, ReadJob, ParserState, StageLoading, LoadOrExtract,
            StageExtracting, OnStage, CheckPause, DocumentPaused, DocumentReady, ScheduleRetry,
            JobVanished, DocumentFailed, ReadyRaises, Failing, SettleRaises
  <1>4. OldSettled' /\ LatestHeld'
    BY <1>1, <1>2, <1>3, StatusesKept DEF AttendedInv
  <1>5. PausedRuns'
    BY WorkerPaused
  <1>6. Reprocesses' /\ IdleWhenDown'
    BY <1>2 DEF AttendedInv, Reprocesses, IdleWhenDown
  <1> QED
    BY <1>1, <1>4, <1>5, <1>6 DEF AttendedInv

\* A step of a request that adds no job, revives none and does not make the document
\* show as paused.
LEMMA QuietRequest ==
  ASSUME AttendedInv, RunsInv', SettledKept, NEW c \in Client, worker' = worker, up, up',
         \A d \in Client \ {c} : client'[d] = client[d],
         client'[c].pc # "latest", client'[c].pc = "reprocess" => "reprocess" \in Ops[c],
         \A k \in JobId : Same(k) \/ (job[k].status \in Active /\ job'[k].status # "none"),
         PausedRuns'
  PROVE  AttendedInv'
  <1>1. \A d \in Client : client'[d].pc = "latest" => client'[d] = client[d]
    OBVIOUS
  <1>2. OldSettled' /\ LatestHeld'
    BY <1>1, StatusesKept DEF AttendedInv, RunsInv
  <1>3. Reprocesses' /\ IdleWhenDown'
    BY DEF AttendedInv, Reprocesses, IdleWhenDown
  <1> QED
    BY <1>2, <1>3 DEF AttendedInv

\* With a job that is queued or paused no other job runs.
LEMMA NoneRuns ==
  ASSUME AttendedInv, NEW k \in JobId, job[k].status \in {"queued", "paused"}
  PROVE  \A w \in Worker : worker[w].pc \notin Processing
  <1> SUFFICES ASSUME NEW w \in Worker, worker[w].pc \in Processing PROVE FALSE
    OBVIOUS
  <1>1. Job(w) \in JobId /\ Runs(w, Job(w))
    BY DEF AttendedInv, RunsInv, TypeInv, TypeOK, WorkerState, Runs, Job
  <1>2. job[Job(w)].status = "running"
    BY <1>1 DEF AttendedInv, RunsInv, RunningIfRun
  <1>3. k = Job(w)
    BY <1>1, RunIsNewest DEF AttendedInv
  <1> QED
    BY <1>2, <1>3

\* Every step of a request keeps the whole invariant.
LEMMA ClientAttends ==
  ASSUME OneWriter, NoDeletion, AttendedInv, NEW c \in Client,
         \/ Upload(c) \/ (\E op \in Operation : Request(c, op)) \/ ClientStep(c) \/ DeleteRaises(c)
  PROVE  AttendedInv'
  <1> DEFINE j == client[c].job
  <1>1. RunsInv' /\ SettledKept /\ TypeInv
    <2>1. OneResumer
      BY DEF OneWriter, OneResumer, Revives
    <2> QED
      BY <2>1, ClientRuns, ClientSettles DEF AttendedInv, RunsInv
  <1>2. worker' = worker /\ up /\ up' /\ \A d \in Client \ {c} : client'[d] = client[d]
    BY <1>1, ClientMoves
  <1>3. /\ client \in [Client -> ClientState] /\ job \in [JobId -> JobRow] /\ j \in JobId
        /\ client[c].rows \in [JobId -> JobRow] /\ doc \in [status : DocStatus, loaded : BOOLEAN]
    BY <1>1 DEF TypeInv, TypeOK, ClientState
  \* Most steps leave the document as it shows, or show it as anything but paused.
  <1>4. ASSUME client'[c].pc # "latest", client'[c].pc = "reprocess" => "reprocess" \in Ops[c],
               \A k \in JobId : Same(k) \/ (job[k].status \in Active /\ job'[k].status # "none"),
               doc'.status = "paused" => doc.status = "paused"
        PROVE  AttendedInv'
    <2>1. PausedRuns'
      BY <1>2, <1>4 DEF AttendedInv, PausedRuns
    <2> QED
      BY <1>1, <1>2, <1>4, <2>1, QuietRequest
  <1>5. ASSUME Done(c) PROVE client'[c].pc = "idle"
    BY <1>1, <1>5, DoneHolds
  <1>6. CASE Upload(c)
    <2>1. /\ client'[c].pc = "enqueue" /\ doc'.status = "pending"
          /\ job' = [job EXCEPT ![1].status = "queued"] /\ doc.status = "none"
      BY <1>3, <1>6 DEF Upload, ClientState
    <2>2. \A k \in JobId : ~Exists(k) /\ (k # 1 => ~Exists(k)')
      BY <1>3, <2>1 DEF AttendedInv, RunsInv, NoJobBefore, Exists
    <2>3. \A d \in Client : client'[d].pc # "latest"
      BY <1>1, <1>2, <2>1, <2>2 DEF AttendedInv, LatestHeld, NewestAsRead, TypeInv, TypeOK, ClientState
    <2>4. OldSettled'
      BY <2>2 DEF OldSettled, JobId
    <2>5. Reprocesses' /\ IdleWhenDown' /\ LatestHeld' /\ PausedRuns'
      BY <1>2, <2>1, <2>3 DEF AttendedInv, Reprocesses, IdleWhenDown, LatestHeld, PausedRuns
    <2> QED
      BY <1>1, <2>4, <2>5 DEF AttendedInv
  <1>7. CASE \E op \in Operation : Request(c, op)
    <2>1. PICK op \in Operation : Request(c, op)
      BY <1>7
    <2>2. client'[c].pc = op /\ op \in Ops[c] /\ job' = job /\ doc' = doc
      BY <1>3, <2>1 DEF Request, ClientState
    <2> QED
      BY <1>4, <2>2 DEF Operation, Same
  <1>8. CASE Enqueue(c)
    BY <1>4, <1>5, <1>8 DEF Enqueue, Same
  <1>9. ASSUME NEW k \in JobId, NEW next \in {"pausing", "resuming"}, Holding(c, k, next), job' = job, doc' = doc
        PROVE  AttendedInv'
    <2>1. client'[c].pc = next
      BY <1>3, <1>9 DEF Holding, ClientState
    <2> QED
      BY <1>4, <1>9, <2>1 DEF Same
  <1>10. CASE Done(c) /\ job' = job /\ doc' = doc
    BY <1>4, <1>5, <1>10 DEF Same
  <1>11. CASE ReadPause(c) \/ ReadResume(c)
    BY <1>9, <1>10, <1>11 DEF ReadPause, ReadResume, ReadNewest
  <1>12. CASE ReadReprocess(c)
    <2>1. ASSUME NEW k \in JobId, NewestIn(JobStatus \ {"none"}, k), Holding(c, k, "latest")
          PROVE  AttendedInv'
      <3>1. job' = job /\ doc' = doc /\ "reprocess" \in Ops[c]
        BY <1>12 DEF ReadReprocess, ReadNewest, Holds, AttendedInv, Reprocesses
      <3>2. client'[c].pc = "latest" /\ client'[c].job = k /\ client'[c].rows[k] = job[k]
        BY <1>3, <2>1 DEF Holding, ClientState
      <3>3. Exists(k) /\ \A i \in JobId : Exists(i) => i <= k
        BY <1>3, <2>1 DEF NewestIn, Exists, JobRow
      <3>4. NewestAsRead(c)'
        BY <3>1, <3>2, <3>3 DEF NewestAsRead, Row, Exists
      <3>5. ASSUME NEW d \in Client \ {c}, client'[d].pc = "latest"
            PROVE  NewestAsRead(d)'
        BY <1>2, <3>1, <3>5 DEF AttendedInv, LatestHeld, NewestAsRead, Row, Exists
      <3>6. LatestHeld'
        BY <3>4, <3>5 DEF LatestHeld
      <3>7. OldSettled' /\ Reprocesses' /\ IdleWhenDown' /\ PausedRuns'
        BY <1>2, <3>1 DEF AttendedInv, OldSettled, Exists, Reprocesses, IdleWhenDown, PausedRuns
      <3> QED
        BY <1>1, <3>6, <3>7 DEF AttendedInv
    <2>2. CASE Done(c)
      BY <1>10, <1>12, <2>2 DEF ReadReprocess, ReadNewest
    <2> QED
      BY <1>12, <2>1, <2>2 DEF ReadReprocess, ReadNewest
  <1>13. CASE PauseQueued(c)
    <2>1. CASE StillQueued(c)
      <3>1. /\ client'[c].pc = "idle" /\ job[j].status = "queued"
            /\ job'[j].status = "paused" /\ \A k \in JobId \ {j} : Same(k)
        BY <1>3, <1>5, <1>13, <2>1 DEF PauseQueued, StillQueued, Same, JobRow
      <3>2. PausedRuns'
        BY <1>2, <1>3, <3>1, NoneRuns DEF PausedRuns
      <3> QED
        BY <1>1, <1>2, <3>1, <3>2, QuietRequest DEF Active
    <2>2. CASE ~StillQueued(c)
      BY <1>3, <1>9, <1>10, <1>13, <2>2 DEF PauseQueued
    <2> QED
      BY <2>1, <2>2
  <1>14. CASE PauseRunning(c)
    <2>1. \A k \in JobId : Same(k)
      BY <1>3, <1>14 DEF PauseRunning, Same, JobRow
    <2> QED
      BY <1>4, <1>5, <1>14, <2>1 DEF PauseRunning
  <1>15. ASSUME NEW k \in JobId, client' = [client EXCEPT ![c] = [IdleClient EXCEPT !.pc = "enqueue", !.job = k]]
         PROVE  client'[c].pc = "enqueue"
    <2> DEFINE r == [IdleClient EXCEPT !.pc = "enqueue", !.job = k]
    <2>1. r.pc = "enqueue"
      BY DEF IdleClient
    <2> HIDE DEF r
    <2> QED
      BY <1>3, <1>15, <2>1
  <1>16. CASE Resume(c)
    <2>1. CASE Exists(j)
      <3>1. client'[c].pc = "enqueue" /\ "resume" \in Ops[c]
        BY <1>3, <1>15, <1>16, <2>1 DEF Resume, Holds, AttendedInv, RunsInv, AllowedClient
      <3>2. \A d \in Client : client'[d].pc # "latest"
        BY <1>2, <3>1 DEF OneWriter, Revives, AttendedInv, Reprocesses
      <3>3. /\ doc'.status # "paused" /\ job[j].status = "paused"
            /\ job'[j].status = "queued" /\ \A k \in JobId \ {j} : Same(k)
        BY <1>3, <1>16, <2>1 DEF Resume, Assigned, Holds, AttendedInv, RunsInv, PausedIfResuming, Same, JobRow
      <3>4. OldSettled'
        BY <3>3, <1>1 DEF AttendedInv, OldSettled, Exists, SettledKept, Same
      <3>5. Reprocesses' /\ IdleWhenDown' /\ LatestHeld' /\ PausedRuns'
        BY <1>2, <3>1, <3>2, <3>3 DEF AttendedInv, Reprocesses, IdleWhenDown, LatestHeld, PausedRuns
      <3> QED
        BY <1>1, <3>4, <3>5 DEF AttendedInv
    <2>2. CASE ~Exists(j)
      BY <1>10, <1>16, <2>2 DEF Resume
    <2> QED
      BY <2>1, <2>2
  <1>17. CASE ReprocessActive(c)
    <2>1. client'[c].pc \in {"idle", "enqueue"} /\ job' = job
      BY <1>3, <1>5, <1>15, <1>17 DEF ReprocessActive
    <2>2. Row(c).status \notin {"queued", "running"} => job[j].status = "paused"
      BY <1>17 DEF ReprocessActive, Holds, Active, AttendedInv, LatestHeld, NewestAsRead
    <2>3. Row(c).status \in {"queued", "running"} => doc'.status # "paused" \/ doc' = doc
      BY <1>3, <1>17 DEF ReprocessActive
    <2>4. PausedRuns'
      <3>1. CASE Row(c).status \in {"queued", "running"}
        BY <1>2, <2>3, <3>1 DEF AttendedInv, PausedRuns
      <3>2. CASE Row(c).status \notin {"queued", "running"}
        BY <1>2, <1>3, <2>2, <3>2, NoneRuns DEF PausedRuns
      <3> QED
        BY <3>1, <3>2
    <2> QED
      BY <1>1, <1>2, <2>1, <2>4, QuietRequest DEF Same
  <1>18. CASE ReprocessNew(c)
    <2>1. CASE Done(c) /\ UNCHANGED <<doc, job>>
      BY <1>10, <2>1
    <2>2. CASE ~(Done(c) /\ UNCHANGED <<doc, job>>)
      <3> DEFINE fresh == {k \in JobId : \A i \in JobId : Exists(i) => i < k}
      <3>1. PICK k \in fresh :
               /\ k - 1 \notin fresh
               /\ \E p : job' = [job EXCEPT ![k] = [status |-> "queued", attempts |-> 0, payload |-> p]]
               /\ client' = [client EXCEPT ![c] = [IdleClient EXCEPT !.pc = "enqueue", !.job = k]]
        BY <1>18, <2>2 DEF ReprocessNew
      <3>2. /\ DocExists /\ doc' = Assigned(client[c].seen, "pending") /\ Row(c).status \in Settled
            /\ "reprocess" \in Ops[c] /\ NewestAsRead(c)
        BY <1>18, <2>2 DEF ReprocessNew, Holds, AttendedInv, Reprocesses, LatestHeld
      <3>3. client'[c].pc = "enqueue" /\ job'[k].status = "queued" /\ \A i \in JobId \ {k} : Same(i)
        BY <1>3, <1>15, <3>1 DEF Same
      <3>4. \A d \in Client : client'[d].pc # "latest"
        BY <1>2, <3>2, <3>3 DEF OneWriter, Revives, AttendedInv, Reprocesses
      <3>5. Exists(j) /\ job[j].status \in Settled /\ \A i \in JobId : Exists(i) => i <= j
        BY <3>2 DEF NewestAsRead
      <3>6. k = j + 1
        <4>1. k \in JobId /\ \A i \in JobId : Exists(i) => i < k
          BY <3>1
        <4>2. j < k /\ j \in Int /\ k \in Int
          BY <1>3, <3>5, <4>1 DEF JobId
        <4>3. CASE k > j + 1
          <5>1. k - 1 \in JobId
            BY <1>3, <4>1, <4>2, <4>3, SizeAssumption DEF JobId
          <5>2. \A i \in JobId : Exists(i) => i < k - 1
            BY <3>5, <4>2, <4>3 DEF JobId
          <5> QED
            BY <3>1, <5>1, <5>2
        <4> QED
          BY <4>2, <4>3
      <3>7. OldSettled'
        <4> SUFFICES ASSUME NEW i \in JobId, NEW n \in JobId, i < n, Exists(n)'
                     PROVE  job'[i].status \in Settled
          BY DEF OldSettled
        <4>1. \A m \in JobId : m # k => (Exists(m)' <=> Exists(m))
          BY <3>3 DEF Exists, Same
        <4>2. i # k /\ i <= j
          <5>1. n <= k
            BY <3>5, <3>6, <4>1, <1>3 DEF JobId
          <5> QED
            BY <3>6, <5>1, <1>3 DEF JobId
        <4>3. CASE i = j
          BY <3>3, <3>5, <4>2, <4>3, <1>3 DEF Same
        <4>4. CASE i < j
          <5>1. job[i].status \in Settled
            BY <1>3, <3>5, <4>4 DEF AttendedInv, OldSettled
          <5> QED
            BY <3>3, <4>2, <5>1 DEF Same
        <4> QED
          BY <4>2, <4>3, <4>4, <1>3 DEF JobId
      <3>8. PausedRuns'
        <4>1. doc'.status = "paused" => doc.status = "paused"
          BY <1>3, <3>2 DEF Assigned
        <4> QED
          BY <1>2, <4>1 DEF AttendedInv, PausedRuns
      <3>9. Reprocesses' /\ IdleWhenDown' /\ LatestHeld'
        BY <1>2, <3>3, <3>4 DEF AttendedInv, Reprocesses, IdleWhenDown, LatestHeld
      <3> QED
        BY <1>1, <3>7, <3>8, <3>9 DEF AttendedInv
    <2> QED
      BY <2>1, <2>2
  <1>19. ~(ReadDelete(c) \/ StopJobs(c) \/ DeleteRow(c) \/ DeleteRaises(c))
    BY DEF AttendedInv, RunsInv, AllowedClient, ReadDelete, StopJobs, DeleteRow, DeleteRaises, Holds
  <1> QED
    BY <1>6, <1>7, <1>8, <1>11, <1>12, <1>13, <1>14, <1>16, <1>17, <1>18, <1>19 DEF ClientStep

\* So do a stop, a start and a retry timer.
LEMMA ProcessAttends ==
  ASSUME AttendedInv, Crash \/ Recover \/ (\E j \in JobId : TimerFires(j))
  PROVE  AttendedInv'
  <1>1. RunsInv' /\ TypeInv
    BY ProcessRuns DEF AttendedInv, RunsInv
  <1>2. CASE Crash
    <2>1. /\ \A w \in Worker : worker'[w].pc = "idle"
          /\ \A c \in Client : client'[c].pc = "idle"
          /\ job' = job
      BY <1>2 DEF Crash, IdleWorker, IdleClient
    <2>2. OldSettled' /\ Reprocesses' /\ LatestHeld' /\ IdleWhenDown' /\ PausedRuns'
      BY <2>1 DEF AttendedInv, OldSettled, Exists, Reprocesses, LatestHeld, IdleWhenDown,
         PausedRuns, Processing
    <2> QED
      BY <1>1, <2>2 DEF AttendedInv
  <1>3. CASE Recover
    <2>1. \A k \in JobId : job'[k] = Recovered(job[k]) /\ job[k] \in JobRow
      BY <1>1, <1>3 DEF Recover, TypeInv, TypeOK
    <2>2. \A k \in JobId : Same(k) \/ (job[k].status \in Active /\ job'[k].status # "none")
      BY <2>1 DEF Recovered, Same, Active, JobRow
    <2>3. SettledKept
      BY <2>1 DEF Recovered, SettledKept, Same, Settled
    <2>4. client' = client /\ worker' = worker /\ ~up /\ up'
      BY <1>3 DEF Recover
    <2>5. OldSettled' /\ LatestHeld'
      BY <1>1, <2>2, <2>3, <2>4, StatusesKept DEF AttendedInv
    <2>6. Reprocesses' /\ IdleWhenDown' /\ PausedRuns'
      BY <2>4 DEF AttendedInv, Reprocesses, IdleWhenDown, PausedRuns, Processing
    <2> QED
      BY <1>1, <2>5, <2>6 DEF AttendedInv
  <1>4. CASE \E j \in JobId : TimerFires(j)
    <2>1. doc' = doc /\ job' = job /\ worker' = worker /\ client' = client /\ up' = up
      BY <1>4 DEF TimerFires
    <2>2. OldSettled' /\ Reprocesses' /\ LatestHeld' /\ IdleWhenDown' /\ PausedRuns'
      BY <2>1 DEF AttendedInv, OldSettled, Exists, Reprocesses, LatestHeld, NewestAsRead, Row,
         IdleWhenDown, PausedRuns
    <2> QED
      BY <1>1, <2>2 DEF AttendedInv
  <1> QED
    BY <1>2, <1>3, <1>4

\* Every step keeps the whole invariant.
LEMMA AttendedStep ==
  ASSUME OneWriter, NoDeletion
  PROVE  AttendedInv /\ [Next]_vars => AttendedInv'
  <1> SUFFICES ASSUME AttendedInv, [Next]_vars PROVE AttendedInv'
    OBVIOUS
  <1>1. CASE UNCHANGED vars
    <2>1. OneResumer
      BY DEF OneWriter, OneResumer, Revives
    <2>2. RunsInv'
      BY <2>1, RunsStep DEF AttendedInv
    <2> QED
      BY <1>1, <2>2 DEF vars, AttendedInv, IdleWhenDown, OldSettled, Exists, Reprocesses,
         LatestHeld, NewestAsRead, Row, PausedRuns
  <1>2. CASE Next
    BY <1>2, WorkerAttends, ClientAttends, ProcessAttends DEF Next
  <1> QED
    BY <1>1, <1>2

\* Before the upload there is no job, no run and no request.
LEMMA AttendedInit == Init => AttendedInv
  <1> SUFFICES ASSUME Init PROVE AttendedInv
    OBVIOUS
  <1>1. \A k \in JobId : job[k].status = "none"
    BY DEF Init, NoRow
  <1>2. /\ \A w \in Worker : worker[w].pc = "idle"
        /\ \A c \in Client : client[c].pc = "idle"
    BY DEF Init, IdleWorker, IdleClient
  <1>3. OldSettled /\ Reprocesses /\ LatestHeld /\ IdleWhenDown /\ PausedRuns
    BY <1>1, <1>2 DEF OldSettled, Exists, Reprocesses, LatestHeld, IdleWhenDown, PausedRuns, Processing
  <1> QED
    BY <1>3, RunsInit DEF AttendedInv

\* JobsAttended: with one client that resumes or reprocesses, none that deletes and no
\* retry timer that outruns its commit, a queued job is on its way to a worker, a
\* running one is held, and no worker loads or extracts a document that shows as
\* paused, whatever the other clients pause and however often the process restarts
\* (jobs/inproc.py, services/document_service.py).
THEOREM Attended ==
  ASSUME OneWriter, NoDeletion, SlowCommit = FALSE
  PROVE  Spec => []JobsAttended
  <1>1. AttendedInv => PausedIsIdle
    BY DEF AttendedInv, PausedRuns, PausedIsIdle, Extracting, Processing
  <1>2. AttendedInv /\ [Next]_vars => AttendedInv'
    BY AttendedStep
  <1>3. Spec => []PausedIsIdle
    BY <1>1, <1>2, AttendedInit, PTL DEF Spec
  <1>4. Spec => [](QueuedIsScheduled /\ RunningIsHeld)
    BY Scheduled
  <1>5. QueuedIsScheduled /\ RunningIsHeld /\ PausedIsIdle => JobsAttended
    BY DEF JobsAttended
  <1> QED
    BY <1>3, <1>4, <1>5, PTL
===============================================================================
