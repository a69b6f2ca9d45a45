-------------------------- MODULE IncrementalExtract --------------------------
(***************************************************************************)
(* The extraction of one document, chunk by chunk                          *)
(* (sag/incremental_processor.py): worker tasks take chunks from a queue,  *)
(* the engine saves the events of a chunk, and under a lock the worker     *)
(* restores the events of the checkpoint and publishes it on the job and   *)
(* the document (on_checkpoint of jobs/tasks.py).  A run ends paused,      *)
(* complete, failed, or cut by a stop; the next run goes on from the       *)
(* checkpoint of the row.                                                  *)
(*                                                                         *)
(* The engine is external.  "Every save replaces the events of the whole   *)
(* article" (_restore_checkpoint_events): a save that has events marks all *)
(* others of the document DELETED; one without events saves nothing.       *)
(***************************************************************************)
EXTENDS Integers, FiniteSets

CONSTANTS
    Chunk,     \* the chunks of the document
    Worker,    \* document_extract_concurrency tasks
    MaxRuns    \* bound: runs of the document (retries, resumes, restarts)

ASSUME ChunkAssumption == IsFiniteSet(Chunk) /\ Chunk # {}
ASSUME WorkerAssumption == IsFiniteSet(Worker) /\ Worker # {}
ASSUME RunsAssumption == MaxRuns \in Nat

VARIABLES
    row,      \* process_checkpoint of the job, with the document's counters
    current,  \* the run's own checkpoint
    status,   \* SourceEvent.status
    queue,    \* chunks no worker has taken
    worker,   \* what each worker holds between two awaits
    lock,     \* the worker that holds checkpoint_lock, if any
    stage,    \* where process() is, or how the last run ended
    pause,    \* pause_requested of the job
    seen,     \* pause_requested as on_checkpoint has read it
    runs      \* number of the run

vars == <<row, current, status, queue, worker, lock, stage, pause, seen, runs>>

\* The events that run n extracts from chunk c.
Event == Chunk \X (1 .. MaxRuns)

Checkpoint == [loaded : BOOLEAN, done : SUBSET Chunk, events : SUBSET Event]
NoCheckpoint == [loaded |-> FALSE, done |-> {}, events |-> {}]

Active == {"loading", "starting", "extracting", "restoring", "ranking"}
Ended  == {"waiting", "paused", "failed", "done"}

\* worker[w].chunk is a set of at most one chunk, .events what it saved of it.
Off == [pc |-> "off", chunk |-> {}, events |-> {}]
AllOff == [w \in Worker |-> Off]

Readable == {e \in Event : status[e] = "COMPLETED"}

Init ==
    /\ row = NoCheckpoint /\ current = NoCheckpoint
    /\ status = [e \in Event |-> "none"]
    /\ queue = {} /\ worker = AllOff /\ lock = {}
    /\ stage = "waiting" /\ pause = FALSE /\ seen = FALSE /\ runs = 0

-------------------------------------------------------------------------------
(* process().                                                                *)

\* A resume clears the pause request, a reprocess too, a retry does not.
Begin ==
    /\ stage \in {"waiting", "paused", "failed"} /\ runs < MaxRuns
    /\ runs' = runs + 1
    /\ current' = row
    /\ stage' = IF row.loaded THEN "starting" ELSE "loading"
    /\ pause' \in IF stage = "paused" THEN {FALSE} ELSE {FALSE, pause}
    /\ UNCHANGED <<row, status, queue, worker, lock, seen>>

Load ==
    /\ stage = "loading"
    /\ current' = [NoCheckpoint EXCEPT !.loaded = TRUE]
    /\ row' = current'
    /\ stage' = "starting"
    /\ UNCHANGED <<status, queue, worker, lock, pause, seen, runs>>

Remaining == Chunk \ current.done

\* No more workers than chunks.
Start ==
    /\ stage = "starting"
    /\ IF Remaining # {} /\ ~pause
       THEN /\ queue' = Remaining
            /\ \E S \in SUBSET Worker :
                  /\ \/ S = Worker /\ Cardinality(Worker) <= Cardinality(Remaining)
                     \/ Cardinality(S) = Cardinality(Remaining)
                  /\ worker' = [w \in Worker |-> IF w \in S THEN [Off EXCEPT !.pc = "next"]
                                                 ELSE Off]
            /\ stage' = "extracting"
       ELSE stage' = "restoring" /\ UNCHANGED <<queue, worker>>
    /\ UNCHANGED <<row, current, status, lock, pause, seen, runs>>

At(w, pc) == stage = "extracting" /\ worker[w].pc = pc
Go(w, pc) == worker' = [worker EXCEPT ![w].pc = pc]

\* Mutant: a worker that has to leave asks again.
AskAgain(w) == worker' = [worker EXCEPT ![w] = [Off EXCEPT !.pc = "next"]]

Leave(w) == worker' = [worker EXCEPT ![w] = Off]

\* should_pause reads the job in a session of its own.
CheckPause(w) ==
    /\ At(w, "next")
    /\ IF queue = {} \/ pause THEN Leave(w) ELSE Go(w, "asked")
    /\ UNCHANGED <<row, current, status, queue, lock, stage, pause, seen, runs>>

Take(w) ==
    /\ At(w, "asked")
    /\ \/ /\ queue = {}
          /\ Leave(w)
          /\ UNCHANGED queue
       \/ \E c \in queue :
             /\ queue' = queue \ {c}
             /\ worker' = [worker EXCEPT ![w].pc = "extract", ![w].chunk = {c}]
    /\ UNCHANGED <<row, current, status, lock, stage, pause, seen, runs>>

\* The engine extracts the chunk and saves its events, if it finds any.
SaveEvents(w) ==
    /\ At(w, "extract")
    /\ \E c \in worker[w].chunk :
          LET e == <<c, runs>>
          IN  /\ status' = [f \in Event |->
                    IF f = e THEN "COMPLETED"
                    ELSE IF status[f] = "COMPLETED" THEN "DELETED" ELSE status[f]]
              /\ worker' = [worker EXCEPT ![w].pc = "saved", ![w].events = {e}]
    /\ UNCHANGED <<row, current, queue, lock, stage, pause, seen, runs>>

NoEvents(w) ==
    /\ At(w, "extract")
    /\ Go(w, "saved")
    /\ UNCHANGED <<row, current, status, queue, lock, stage, pause, seen, runs>>

\* Mutant: the events of a chunk are recorded and the chunk is not.
AdvancedWithoutChunk(c, es) == [current EXCEPT !.events = @ \union es]

Advanced(cs, es) == [current EXCEPT !.done = @ \union cs, !.events = @ \union es]

LockFree == lock = {}

\* Under the lock; a chunk that is already recorded is passed over.
AcquireLock(w) ==
    /\ At(w, "saved")
    /\ LockFree
    /\ IF worker[w].chunk \subseteq current.done
       THEN /\ worker' = [worker EXCEPT ![w] = [Off EXCEPT !.pc = "next"]]
            /\ UNCHANGED <<current, lock>>
       ELSE /\ lock' = lock \union {w}
            /\ current' = Advanced(worker[w].chunk, worker[w].events)
            /\ Go(w, "restore")
    /\ UNCHANGED <<row, status, queue, stage, pause, seen, runs>>

\* Mutant: nothing is restored.
RestoredNothing(es) == status

\* _restore_checkpoint_events
Restored(es) ==
    [e \in Event |-> IF e \in es /\ status[e] = "DELETED" THEN "COMPLETED" ELSE status[e]]

\* ... and then on_checkpoint reads the payload of the job.
RestoreEvents(w) ==
    /\ At(w, "restore")
    /\ status' = Restored(current.events)
    /\ Go(w, "publish")
    /\ seen' = pause
    /\ UNCHANGED <<row, current, queue, lock, stage, pause, runs>>

\* on_checkpoint writes back the payload it has read: a request made since is
\* lost (DocumentJobs is about that).
Publish(w) ==
    /\ At(w, "publish")
    /\ row' = current
    /\ pause' = seen
    /\ lock' = lock \ {w}
    /\ worker' = [worker EXCEPT ![w] = [Off EXCEPT !.pc = "next"]]
    /\ UNCHANGED <<current, status, queue, stage, seen, runs>>

WorkersOff == \A w \in Worker : worker[w].pc = "off"

WorkersEnd ==
    /\ stage = "extracting"
    /\ WorkersOff
    /\ stage' = "restoring"
    /\ UNCHANGED <<row, current, status, queue, worker, lock, pause, seen, runs>>

\* Mutant: complete when nothing is left in the queue.
QueueExhausted == queue = {}

AllProcessed == current.done = Chunk

FinalRestore ==
    /\ stage = "restoring"
    /\ status' = Restored(current.events)
    /\ stage' = IF AllProcessed THEN "ranking" ELSE "paused"
    /\ UNCHANGED <<row, current, queue, worker, lock, pause, seen, runs>>

\* _normalize_event_ranks, then the outcome makes the document ready.
Finish ==
    /\ stage = "ranking"
    /\ stage' = "done"
    /\ UNCHANGED <<row, current, status, queue, worker, lock, pause, seen, runs>>

-------------------------------------------------------------------------------
(* Failures, stops and pauses.                                               *)

\* The task group ends: its workers are cancelled wherever they wait.
Abandon(outcome) ==
    /\ current' = row'
    /\ queue' = {} /\ worker' = AllOff /\ lock' = {}
    /\ stage' = outcome
    /\ UNCHANGED <<status, seen, runs>>

\* A chunk fails, or a call around it.  What a worker was about to publish is
\* in the session that process_document then commits with the failure, or not.
WorkerFails(w) ==
    /\ \E pc \in {"next", "extract", "restore", "publish"} : At(w, pc)
    /\ \/ row' = row /\ pause' = pause
       \/ (\E v \in Worker : At(v, "publish")) /\ row' = current /\ pause' = seen
    /\ Abandon("failed")

\* Loading, the first pause check or one of the last two statements fails.
RunFails ==
    /\ stage \in Active \ {"extracting"}
    /\ row' = row /\ pause' = pause
    /\ Abandon("failed")

Stop ==
    /\ stage \in Active
    /\ row' = row /\ pause' = pause
    /\ Abandon("waiting")

RequestPause ==
    /\ stage \in Active /\ ~pause
    /\ pause' = TRUE
    /\ UNCHANGED <<row, current, status, queue, worker, lock, stage, seen, runs>>

WorkerStep(w) ==
    \/ CheckPause(w) \/ Take(w) \/ SaveEvents(w) \/ NoEvents(w)
    \/ AcquireLock(w) \/ RestoreEvents(w) \/ Publish(w)

ProcessStep == Load \/ Start \/ WorkersEnd \/ FinalRestore \/ Finish

Next ==
    \/ Begin \/ ProcessStep \/ RunFails \/ Stop \/ RequestPause
    \/ \E w \in Worker : WorkerStep(w) \/ WorkerFails(w)

Spec == Init /\ [][Next]_vars

\* Tasks of the event loop go on; the engine answers.
Fairness == WF_vars(ProcessStep) /\ \A w \in Worker : WF_vars(WorkerStep(w))

LiveSpec == Spec /\ Fairness

-------------------------------------------------------------------------------
(* Properties.                                                               *)

WorkerState == [pc : {"off", "next", "asked", "extract", "saved", "restore", "publish"},
                chunk : SUBSET Chunk, events : SUBSET Event]

TypeOK ==
    /\ row \in Checkpoint /\ current \in Checkpoint
    /\ status \in [Event -> {"none", "COMPLETED", "DELETED"}]
    /\ queue \in SUBSET Chunk
    /\ worker \in [Worker -> WorkerState]
    /\ lock \in {{}} \union {{w} : w \in Worker}
    /\ stage \in Active \union Ended
    /\ pause \in BOOLEAN /\ seen \in BOOLEAN
    /\ runs \in 0 .. MaxRuns

\* The published checkpoint is consistent: its events come from chunks it lists
\* as processed, at most one extraction of each, and all of them were saved.
CheckpointConsistent ==
    /\ \A e \in row.events : e[1] \in row.done /\ status[e] # "none"
    /\ \A e, f \in row.events : e[1] = f[1] => e = f

\* The run and the checkpoint it publishes (incremental_processor.py).
ExtractionConsistent == TypeOK /\ CheckpointConsistent

\* When a run has paused or completed a document, every event it announces can
\* be read, whatever the saves of its workers hid (the last restore of process).
SettledReadable == stage \in {"paused", "done"} => row.events \subseteq Readable

\* A run comes to an end: no worker waits for ever for the lock or the queue.
RunEnds == stage \in Active ~> stage \in Ended

Abstract == INSTANCE ExtractPromise WITH announced <- row.done, complete <- stage = "done"

\* Chunks are announced one by one, for good, and all before the document is
\* complete, through pauses, failures and restarts.
Promise == Abstract!Spec

===============================================================================
