------------------------ MODULE IncrementalExtractProofs ------------------------
(***************************************************************************)
(* Proofs about IncrementalExtract, for any number of chunks, workers and  *)
(* runs.  Inductive is TypeOK with three parts:                            *)
(*   - Hands: a worker holds a chunk from its Take to its Publish, and the *)
(*     lock is held exactly while it restores and publishes;               *)
(*   - Ledger: the run's checkpoint and the row's are equal but for the    *)
(*     one chunk of the worker that holds the lock;                        *)
(*   - Saved: an event in a checkpoint was saved, is of a chunk of that    *)
(*     checkpoint, and is the only one of that chunk of its run.           *)
(***************************************************************************)
EXTENDS IncrementalExtract, TLAPS

Hands ==
    /\ stage \in Active => runs >= 1
    /\ stage # "extracting" => worker = AllOff
    /\ \A w \in Worker : worker[w].pc = "off" => worker[w] = Off
    /\ \A w \in Worker : w \in lock <=> worker[w].pc \in {"restore", "publish"}
    /\ \A w \in Worker : worker[w].pc \in {"extract", "saved"} =>
          \E c \in Chunk : worker[w].chunk = {c}
    /\ \A w \in Worker : worker[w].pc \in {"off", "next", "asked", "extract"} =>
          worker[w].events = {}

Ledger ==
    /\ \A cp \in {row, current} : ~cp.loaded => cp.done = {} /\ cp.events = {}
    /\ stage = "loading" => ~row.loaded
    /\ stage \in Active \ {"loading"} => current.loaded
    /\ lock = {} => current = row
    /\ lock # {} => \E c \in Chunk : c \notin row.done /\ current.done = row.done \union {c}
    /\ stage \in {"ranking", "done"} => row.done = Chunk

OneEach(cp) ==
    /\ \A e \in cp.events : e[1] \in cp.done /\ status[e] # "none"
    /\ \A e, f \in cp.events : e[1] = f[1] => e = f

Saved ==
    /\ OneEach(row) /\ OneEach(current)
    /\ \A w \in Worker : worker[w].pc = "saved" =>
          /\ \A e \in worker[w].events : e[1] \in worker[w].chunk /\ status[e] # "none"
          /\ \A e, f \in worker[w].events : e = f
    /\ stage \in {"paused", "ranking", "done"} => row.events \subseteq Readable

Inductive == TypeOK /\ Hands /\ Ledger /\ Saved

-------------------------------------------------------------------------------
\* The initial state satisfies the invariant.
LEMMA InitInductive == Init => Inductive
<1> SUFFICES ASSUME Init  PROVE Inductive
  OBVIOUS
<1> USE DEF Init
<1>1. TypeOK
  <2>1. AllOff \in [Worker -> WorkerState]
    BY DEF AllOff, Off, WorkerState
  <2>2. NoCheckpoint \in Checkpoint
    BY DEF NoCheckpoint, Checkpoint
  <2>3. runs \in 0 .. MaxRuns
    BY RunsAssumption
  <2> QED  BY <2>1, <2>2, <2>3 DEF TypeOK, Ended
<1>2. Hands
  BY DEF Hands, AllOff, Off, Active
<1>3. Ledger
  BY DEF Ledger, NoCheckpoint, Active
<1>4. Saved
  BY DEF Saved, OneEach, NoCheckpoint, AllOff, Off
<1> QED  BY <1>1, <1>2, <1>3, <1>4 DEF Inductive

\* A step that fails or stops the run ends with the row as it was, or with
\* the checkpoint that the holder of the lock was about to publish.
LEMMA AbandonInductive ==
  ASSUME Inductive,
         NEW outcome \in {"failed", "waiting"},
         row' \in {row, current}, pause' \in BOOLEAN,
         lock = {} => row' = row,
         stage \in Active,
         Abandon(outcome)
  PROVE  Inductive'
<1> USE DEF Inductive, Abandon
<1>1. row' \in Checkpoint
  BY DEF TypeOK
<1>2. TypeOK'
  BY <1>1 DEF TypeOK, AllOff, Off, WorkerState, Active, Ended
<1>3. Hands'
  BY DEF Hands, AllOff, Off, Active
<1>4. Ledger'
  BY DEF Ledger, TypeOK, Active
<1>5. Saved'
  BY DEF Saved, OneEach, AllOff, Off
<1> QED  BY <1>2, <1>3, <1>4, <1>5

\* The steps of process() keep the invariant: the row is replaced only by a
\* checkpoint without chunks, and the last restore makes all its events readable.
LEMMA ProcessInductive ==
  ASSUME Inductive, Begin \/ ProcessStep
  PROVE  Inductive'
<1> USE DEF Inductive
<1>1. CASE Begin
  <2> USE <1>1 DEF Begin
  <2>1. pause' \in BOOLEAN /\ runs' \in 0 .. MaxRuns
    <3>1. pause' \in BOOLEAN
      BY DEF TypeOK
    <3>2. runs' \in 0 .. MaxRuns
      BY RunsAssumption DEF TypeOK
    <3> QED  BY <3>1, <3>2
  <2>2. TypeOK'
    BY <2>1 DEF TypeOK, Active, Ended
  <2>3. worker = AllOff /\ lock = {}
    BY DEF Hands, AllOff, Off, TypeOK
  <2>4. Hands'
    BY <2>3 DEF Hands, TypeOK, Active
  <2>5. Ledger'
    BY <2>3 DEF Ledger, Active
  <2>6. Saved'
    BY <2>3 DEF Saved, OneEach, AllOff, Off
  <2> QED  BY <2>2, <2>4, <2>5, <2>6
<1>2. CASE Load
  <2> USE <1>2 DEF Load
  <2>1. current' = [loaded |-> TRUE, done |-> {}, events |-> {}]
    BY DEF NoCheckpoint
  <2>2. TypeOK'
    <3>1. current' \in Checkpoint
      <4>1. [loaded |-> TRUE, done |-> {}, events |-> {}] \in Checkpoint
        BY DEF Checkpoint
      <4> QED  BY <2>1, <4>1
    <3> QED  BY <3>1 DEF TypeOK, Active
  <2>3. Hands'
    BY DEF Hands, Active
  <2>4. worker = AllOff /\ lock = {}
    BY DEF Hands, AllOff, Off, TypeOK
  <2>5. Ledger'
    BY <2>1, <2>4 DEF Ledger, Active
  <2>6. Saved'
    BY <2>1, <2>4 DEF Saved, OneEach, AllOff, Off
  <2> QED  BY <2>2, <2>3, <2>5, <2>6
<1>3. CASE Start
  <2> USE <1>3 DEF Start
  <2>1. /\ worker' \in [Worker -> WorkerState]
        /\ \A w \in Worker : worker'[w].pc \in {"off", "next"} /\ worker'[w].events = {}
        /\ \A w \in Worker : worker'[w].pc = "off" => worker'[w] = Off
    <3>1. CASE Remaining # {} /\ ~pause
      <4>1. PICK S \in SUBSET Worker :
               worker' = [w \in Worker |-> IF w \in S THEN [Off EXCEPT !.pc = "next"] ELSE Off]
        BY <3>1
      <4>2. [Off EXCEPT !.pc = "next"] \in WorkerState /\ Off \in WorkerState
        BY DEF Off, WorkerState
      <4>3. [Off EXCEPT !.pc = "next"].pc = "next" /\ [Off EXCEPT !.pc = "next"].events = {}
        BY DEF Off
      <4> QED  BY <4>1, <4>2, <4>3 DEF Off
    <3>2. CASE ~(Remaining # {} /\ ~pause)
      <4>1. worker' = worker /\ worker = AllOff
        BY <3>2 DEF Hands
      <4>2. Off \in WorkerState
        BY DEF Off, WorkerState
      <4>3. Off.pc = "off" /\ Off.events = {}
        BY DEF Off
      <4>4. \A w \in Worker : worker'[w] = Off
        BY <4>1 DEF AllOff
      <4> QED  BY <4>1, <4>2, <4>3, <4>4 DEF AllOff
    <3> QED  BY <3>1, <3>2
  <2>2. lock = {}
    BY DEF Hands, AllOff, Off, TypeOK
  <2>3. TypeOK'
    BY <2>1 DEF TypeOK, Active, Remaining, Checkpoint
  <2>4. Hands'
    BY <2>1, <2>2 DEF Hands, Active
  <2>5. Ledger'
    BY <2>2 DEF Ledger, Active
  <2>6. Saved'
    BY <2>1 DEF Saved, OneEach
  <2> QED  BY <2>3, <2>4, <2>5, <2>6
<1>4. CASE WorkersEnd
  <2> USE <1>4 DEF WorkersEnd
  <2>1. TypeOK'
    BY DEF TypeOK, Active
  <2>2. lock = {}
    BY DEF Hands, WorkersOff, TypeOK
  <2>3. worker = AllOff
    BY DEF Hands, WorkersOff, AllOff, TypeOK
  <2>4. Hands'
    BY <2>2, <2>3 DEF Hands, Active
  <2>5. Ledger'
    BY DEF Ledger, Active
  <2>6. Saved'
    BY DEF Saved, OneEach
  <2> QED  BY <2>1, <2>4, <2>5, <2>6
<1>5. CASE FinalRestore
  <2> USE <1>5 DEF FinalRestore
  <2>1. lock = {} /\ current = row /\ worker = AllOff
    BY DEF Hands, Ledger, AllOff, Off, TypeOK
  <2>2. /\ status' \in [Event -> {"none", "COMPLETED", "DELETED"}]
        /\ \A e \in Event : status[e] # "none" => status'[e] # "none"
        /\ \A e \in row.events : status'[e] = "COMPLETED"
    BY <2>1 DEF TypeOK, Restored, Saved, OneEach, Checkpoint
  <2>3. row.events \subseteq Event
    BY DEF TypeOK, Checkpoint
  <2>4. TypeOK'
    BY <2>2 DEF TypeOK, Active, Ended
  <2>5. Hands'
    BY <2>1 DEF Hands, Active
  <2>6. Ledger'
    BY <2>1 DEF Ledger, Active, AllProcessed
  <2>7. Saved'
    BY <2>1, <2>2, <2>3 DEF Saved, OneEach, Readable, AllOff, Off
  <2> QED  BY <2>4, <2>5, <2>6, <2>7
<1>6. CASE Finish
  <2> USE <1>6 DEF Finish
  <2>1. TypeOK'
    BY DEF TypeOK, Ended
  <2>2. Hands'
    BY DEF Hands, Active
  <2>3. Ledger'
    BY DEF Ledger, Active
  <2>4. Saved'
    BY DEF Saved, OneEach, Readable
  <2> QED  BY <2>1, <2>2, <2>3, <2>4
<1> QED  BY <1>1, <1>2, <1>3, <1>4, <1>5, <1>6 DEF ProcessStep

\* What a worker does outside the lock keeps the invariant.
LEMMA QueueInductive ==
  ASSUME Inductive, NEW w \in Worker, CheckPause(w) \/ Take(w) \/ NoEvents(w)
  PROVE  Inductive'
<1> USE DEF Inductive, At, Go, Leave
<1>1. Off \in WorkerState /\ Off.pc = "off" /\ Off.events = {}
  BY DEF Off, WorkerState
<1>2. worker \in [Worker -> WorkerState] /\ worker[w] \in WorkerState
  BY DEF TypeOK
<1>3. CASE CheckPause(w)
  <2> USE <1>3 DEF CheckPause
  <2>1. PICK x : /\ x \in {Off, [worker[w] EXCEPT !.pc = "asked"]}
                 /\ worker' = [worker EXCEPT ![w] = x]
    BY <1>2
  <2>2. x \in WorkerState /\ x.pc \in {"off", "asked"} /\ x.events = {} /\ (x.pc = "off" => x = Off)
    BY <1>1, <1>2, <2>1 DEF WorkerState, Hands
  <2>3. TypeOK'
    BY <2>1, <2>2 DEF TypeOK
  <2>4. Hands'
    BY <1>2, <2>1, <2>2 DEF Hands
  <2>5. Ledger'
    BY DEF Ledger
  <2>6. Saved'
    BY <1>2, <2>1, <2>2 DEF Saved, OneEach, Readable
  <2> QED  BY <2>3, <2>4, <2>5, <2>6
<1>4. CASE Take(w)
  <2> USE <1>4 DEF Take
  <2>1. PICK x : /\ \/ x = Off
                    \/ \E c \in Chunk : x = [worker[w] EXCEPT !.pc = "extract", !.chunk = {c}]
                 /\ worker' = [worker EXCEPT ![w] = x]
    <3>1. CASE worker' = [worker EXCEPT ![w] = Off]
      BY <3>1
    <3>2. CASE \E c \in queue : worker' = [worker EXCEPT ![w].pc = "extract", ![w].chunk = {c}]
      <4>1. PICK c \in queue : worker' = [worker EXCEPT ![w].pc = "extract", ![w].chunk = {c}]
        BY <3>2
      <4>2. c \in Chunk
        BY DEF TypeOK
      <4>3. worker' = [worker EXCEPT ![w] = [worker[w] EXCEPT !.pc = "extract", !.chunk = {c}]]
        BY <1>2, <4>1 DEF WorkerState
      <4> QED  BY <4>2, <4>3
    <3> QED  BY <3>1, <3>2
  <2>2. /\ x \in WorkerState /\ x.pc \in {"off", "extract"} /\ x.events = {}
        /\ x.pc = "off" => x = Off
        /\ x.pc = "extract" => \E c \in Chunk : x.chunk = {c}
    <3>1. CASE x = Off
      BY <1>1, <3>1
    <3>2. CASE \E c \in Chunk : x = [worker[w] EXCEPT !.pc = "extract", !.chunk = {c}]
      <4>1. worker[w].events = {}
        BY DEF Hands
      <4>2. PICK c \in Chunk : x = [worker[w] EXCEPT !.pc = "extract", !.chunk = {c}]
        BY <3>2
      <4>3. x.pc = "extract" /\ x.chunk = {c} /\ x.events = {}
        BY <1>2, <4>1, <4>2 DEF WorkerState
      <4>4. x \in WorkerState
        BY <1>2, <4>2 DEF WorkerState
      <4> QED  BY <4>3, <4>4
    <3> QED  BY <2>1, <3>1, <3>2
  <2>3. queue' \in SUBSET Chunk
    BY DEF TypeOK
  <2>4. TypeOK'
    BY <2>1, <2>2, <2>3 DEF TypeOK
  <2>5. Hands'
    BY <1>2, <2>1, <2>2 DEF Hands
  <2>6. Ledger'
    BY DEF Ledger
  <2>7. Saved'
    BY <1>2, <2>1, <2>2 DEF Saved, OneEach, Readable
  <2> QED  BY <2>4, <2>5, <2>6, <2>7
<1>5. CASE NoEvents(w)
  <2> USE <1>5 DEF NoEvents
  <2>1. /\ worker' = [worker EXCEPT ![w] = [worker[w] EXCEPT !.pc = "saved"]]
        /\ worker[w].events = {}
    BY <1>2 DEF Hands
  <2>2. /\ [worker[w] EXCEPT !.pc = "saved"] \in WorkerState
        /\ [worker[w] EXCEPT !.pc = "saved"].pc = "saved"
        /\ [worker[w] EXCEPT !.pc = "saved"].events = {}
        /\ [worker[w] EXCEPT !.pc = "saved"].chunk = worker[w].chunk
    BY <1>2, <2>1 DEF WorkerState
  <2>3. TypeOK'
    BY <2>1, <2>2 DEF TypeOK
  <2>4. Hands'
    BY <1>2, <2>1, <2>2 DEF Hands
  <2>5. Ledger'
    BY DEF Ledger
  <2>6. Saved'
    BY <1>2, <2>1, <2>2 DEF Saved, OneEach, Readable
  <2> QED  BY <2>3, <2>4, <2>5, <2>6
<1> QED  BY <1>3, <1>4, <1>5

\* A save hides events and loses none: what was saved stays saved.
LEMMA SaveInductive ==
  ASSUME Inductive, NEW w \in Worker, SaveEvents(w)
  PROVE  Inductive'
<1> USE DEF Inductive, At, SaveEvents
<1>1. worker \in [Worker -> WorkerState] /\ worker[w] \in WorkerState
  BY DEF TypeOK
<1>2. PICK c \in Chunk : worker[w].chunk = {c}
  BY DEF Hands
<1> DEFINE e == <<c, runs>>
           x == [worker[w] EXCEPT !.pc = "saved", !.events = {e}]
<1>3. e \in Event
  BY RunsAssumption DEF Event, TypeOK, Hands, Active
<1>4. /\ status' = [f \in Event |->
             IF f = e THEN "COMPLETED" ELSE IF status[f] = "COMPLETED" THEN "DELETED" ELSE status[f]]
      /\ worker' = [worker EXCEPT ![w] = x]
  <2>1. \E d \in {c} : LET g == <<d, runs>> IN
           /\ status' = [f \in Event |->
                  IF f = g THEN "COMPLETED" ELSE IF status[f] = "COMPLETED" THEN "DELETED" ELSE status[f]]
           /\ worker' = [worker EXCEPT ![w].pc = "saved", ![w].events = {g}]
    BY <1>2
  <2>2. worker' = [worker EXCEPT ![w].pc = "saved", ![w].events = {e}]
    BY <2>1
  <2>3. worker' = [worker EXCEPT ![w] = x]
    BY <1>1, <2>2 DEF WorkerState
  <2> QED  BY <2>1, <2>3
<1>5. x \in WorkerState /\ x.pc = "saved" /\ x.events = {e} /\ x.chunk = {c}
  BY <1>1, <1>2, <1>3 DEF WorkerState
<1>6. /\ status' \in [Event -> {"none", "COMPLETED", "DELETED"}]
      /\ \A f \in Event : status[f] # "none" => status'[f] # "none"
      /\ status'[e] # "none"
  BY <1>3, <1>4 DEF TypeOK
<1>7. TypeOK'
  BY <1>4, <1>5, <1>6 DEF TypeOK
<1>8. Hands'
  BY <1>1, <1>4, <1>5 DEF Hands
<1>9. Ledger'
  BY DEF Ledger
<1>10. Saved'
  <2>1. OneEach(row)' /\ OneEach(current)'
    BY <1>6 DEF Saved, OneEach, TypeOK, Checkpoint
  <2>2. \A v \in Worker : worker[v].events \subseteq Event
    BY DEF TypeOK, WorkerState
  <2>3. e[1] = c
    OBVIOUS
  <2> QED  BY <1>1, <1>4, <1>5, <1>6, <2>1, <2>2, <2>3 DEF Saved
<1> QED  BY <1>7, <1>8, <1>9, <1>10

\* Under the lock the chunk of one worker is recorded, and no other.
LEMMA AcquireInductive ==
  ASSUME Inductive, NEW w \in Worker, AcquireLock(w)
  PROVE  Inductive'
<1> USE DEF Inductive, At, AcquireLock, LockFree, Go
<1>1. worker \in [Worker -> WorkerState] /\ worker[w] \in WorkerState /\ lock = {}
  BY DEF TypeOK
<1>2. PICK c \in Chunk : worker[w].chunk = {c}
  BY DEF Hands
<1>3. current = row
  BY <1>1 DEF Ledger
<1>4. CASE worker[w].chunk \subseteq current.done
  <2> DEFINE x == [Off EXCEPT !.pc = "next"]
  <2>1. x \in WorkerState /\ x.pc = "next" /\ x.events = {}
    BY DEF Off, WorkerState
  <2>2. worker' = [worker EXCEPT ![w] = x] /\ UNCHANGED <<row, current, status, lock, queue, stage, runs, pause, seen>>
    BY <1>4
  <2>3. TypeOK'
    BY <2>1, <2>2 DEF TypeOK
  <2>4. Hands'
    BY <1>1, <2>1, <2>2 DEF Hands
  <2>5. Ledger'
    BY <2>2 DEF Ledger
  <2>6. Saved'
    BY <1>1, <2>1, <2>2 DEF Saved, OneEach, Readable
  <2> QED  BY <2>3, <2>4, <2>5, <2>6
<1>5. CASE ~(worker[w].chunk \subseteq current.done)
  <2> DEFINE x == [worker[w] EXCEPT !.pc = "restore"]
  <2>1. /\ x \in WorkerState /\ x.pc = "restore"
        /\ worker' = [worker EXCEPT ![w] = x]
    BY <1>1, <1>5 DEF WorkerState
  <2>2. lock' = {w} /\ UNCHANGED <<row, status, queue, stage, runs, pause, seen>>
    BY <1>1, <1>5
  <2>3. /\ c \notin row.done
        /\ current' \in Checkpoint
        /\ current'.loaded = current.loaded
        /\ current'.done = row.done \union {c}
        /\ current'.events = row.events \union worker[w].events
    <3>1. current' = [current EXCEPT !.done = @ \union {c}, !.events = @ \union worker[w].events]
      BY <1>2, <1>5 DEF Advanced
    <3>2. current \in Checkpoint /\ worker[w].events \subseteq Event
      BY <1>1 DEF TypeOK, WorkerState
    <3>3. /\ current'.loaded = current.loaded
          /\ current'.done = row.done \union {c}
          /\ current'.events = row.events \union worker[w].events
      BY <1>3, <3>1, <3>2 DEF Checkpoint
    <3>4. current' \in Checkpoint
      BY <3>1, <3>2 DEF Checkpoint
    <3> QED  BY <1>2, <1>3, <1>5, <3>3, <3>4
  <2>4. TypeOK'
    BY <2>1, <2>2, <2>3 DEF TypeOK
  <2>5. Hands'
    BY <1>1, <2>1, <2>2 DEF Hands
  <2>6. Ledger'
    BY <1>1, <1>3, <2>2, <2>3 DEF Ledger, Active
  <2>7. Saved'
    <3>1. OneEach(row)'
      BY <2>2 DEF Saved, OneEach
    <3>2. OneEach(current)'
      BY <1>2, <1>3, <2>2, <2>3 DEF Saved, OneEach
    <3> QED  BY <1>1, <2>1, <2>2, <3>1, <3>2 DEF Saved, Readable
  <2> QED  BY <2>4, <2>5, <2>6, <2>7
<1> QED  BY <1>4, <1>5

\* The holder of the lock restores what its checkpoint lists, and publishes it.
LEMMA LockedInductive ==
  ASSUME Inductive, NEW w \in Worker, RestoreEvents(w) \/ Publish(w)
  PROVE  Inductive'
<1> USE DEF Inductive, At, Go
<1>1. worker \in [Worker -> WorkerState] /\ worker[w] \in WorkerState /\ lock = {w}
  BY DEF TypeOK, Hands, RestoreEvents, Publish
<1>2. CASE RestoreEvents(w)
  <2> USE <1>2 DEF RestoreEvents
  <2> DEFINE x == [worker[w] EXCEPT !.pc = "publish"]
  <2>1. /\ x \in WorkerState /\ x.pc = "publish"
        /\ worker' = [worker EXCEPT ![w] = x]
    BY <1>1 DEF WorkerState
  <2>2. /\ status' \in [Event -> {"none", "COMPLETED", "DELETED"}]
        /\ \A e \in Event : status[e] # "none" => status'[e] # "none"
    BY DEF TypeOK, Restored
  <2>3. TypeOK'
    BY <2>1, <2>2 DEF TypeOK
  <2>4. Hands'
    BY <1>1, <2>1 DEF Hands
  <2>5. Ledger'
    BY DEF Ledger
  <2>6. Saved'
    <3>1. OneEach(row)' /\ OneEach(current)'
      BY <2>2 DEF Saved, OneEach, TypeOK, Checkpoint
    <3>2. \A v \in Worker : worker[v].events \subseteq Event
      BY DEF TypeOK, WorkerState
    <3> QED  BY <1>1, <2>1, <2>2, <3>1, <3>2 DEF Saved
  <2> QED  BY <2>3, <2>4, <2>5, <2>6
<1>3. CASE Publish(w)
  <2> USE <1>3 DEF Publish
  <2> DEFINE x == [Off EXCEPT !.pc = "next"]
  <2>1. x \in WorkerState /\ x.pc = "next" /\ x.events = {}
    BY DEF Off, WorkerState
  <2>2. worker' = [worker EXCEPT ![w] = x] /\ lock' = {}
    BY <1>1
  <2>3. TypeOK'
    BY <2>1, <2>2 DEF TypeOK
  <2>4. Hands'
    BY <1>1, <2>1, <2>2 DEF Hands
  <2>5. Ledger'
    BY <2>2 DEF Ledger
  <2>6. Saved'
    BY <1>1, <2>1, <2>2 DEF Saved, OneEach
  <2> QED  BY <2>3, <2>4, <2>5, <2>6
<1> QED  BY <1>2, <1>3

\* Every step keeps the invariant.
LEMMA NextInductive == Inductive /\ [Next]_vars => Inductive'
<1> SUFFICES ASSUME Inductive, [Next]_vars  PROVE Inductive'
  OBVIOUS
<1>1. CASE Begin \/ ProcessStep
  BY <1>1, ProcessInductive
<1>2. ASSUME NEW w \in Worker, WorkerStep(w)  PROVE Inductive'
  BY <1>2, QueueInductive, SaveInductive, AcquireInductive, LockedInductive DEF WorkerStep
<1>3. ASSUME NEW w \in Worker, WorkerFails(w)  PROVE Inductive'
  <2>1. lock = {} => row' = row
    BY <1>3 DEF WorkerFails, At, Inductive, Hands
  <2>2. row' \in {row, current} /\ pause' \in BOOLEAN /\ stage \in Active
    BY <1>3 DEF WorkerFails, At, Inductive, TypeOK, Active
  <2>3. Abandon("failed")
    BY <1>3 DEF WorkerFails
  <2> QED  BY <2>1, <2>2, <2>3, AbandonInductive
<1>4. CASE RunFails \/ Stop
  <2>1. row' = row /\ pause' \in BOOLEAN /\ stage \in Active
    BY <1>4 DEF RunFails, Stop, Inductive, TypeOK
  <2>2. Abandon("failed") \/ Abandon("waiting")
    BY <1>4 DEF RunFails, Stop
  <2> QED  BY <2>1, <2>2, AbandonInductive
<1>5. CASE RequestPause
  BY <1>5 DEF RequestPause, Inductive, TypeOK, Hands, Ledger, Saved, OneEach, Readable
<1>6. CASE UNCHANGED vars
  BY <1>6 DEF vars, Inductive, TypeOK, Hands, Ledger, Saved, OneEach, Readable
<1> QED  BY <1>1, <1>2, <1>3, <1>4, <1>5, <1>6 DEF Next

\* The invariant holds in every state of every behaviour.
LEMMA AlwaysInductive == Spec => []Inductive
  BY InitInductive, NextInductive, PTL DEF Spec

-------------------------------------------------------------------------------
\* The variables keep their types; in particular one worker at most is inside
\* checkpoint_lock (_extract_remaining).
THEOREM TypeCorrect == Spec => []TypeOK
<1>1. Inductive => TypeOK
  BY DEF Inductive
<1> QED  BY <1>1, AlwaysInductive, PTL

\* The published checkpoint is consistent whatever was paused, failed or cut
\* (_extract_remaining, on_checkpoint).
THEOREM Consistent == Spec => []CheckpointConsistent
<1>1. Inductive => CheckpointConsistent
  BY DEF Inductive, Saved, OneEach, CheckpointConsistent
<1> QED  BY <1>1, AlwaysInductive, PTL

\* The published checkpoint stays consistent and every variable keeps its type,
\* the invariant that the runs check (IncrementalProcessor and its row).
THEOREM ExtractionCorrect == Spec => []ExtractionConsistent
<1>1. TypeOK /\ CheckpointConsistent => ExtractionConsistent
  BY DEF ExtractionConsistent
<1> QED  BY <1>1, TypeCorrect, Consistent, PTL

\* A document that paused or completed has all its announced events readable
\* (the last _restore_checkpoint_events of process).
THEOREM Settled == Spec => []SettledReadable
<1>1. Inductive => SettledReadable
  BY DEF Inductive, Saved, SettledReadable
<1> QED  BY <1>1, AlwaysInductive, PTL

\* The extraction implements ExtractPromise: row and stage of the incremental
\* processor announce chunks one by one and complete after the last.
THEOREM KeepsPromise == Spec => Promise
<1> USE DEF Abstract!promise
<1>1. Init => Abstract!Init
  BY DEF Init, Abstract!Init, NoCheckpoint
<1>2. Inductive /\ [Next]_vars => [Abstract!Next]_(Abstract!promise)
  <2> SUFFICES ASSUME Inductive, [Next]_vars
               PROVE  [Abstract!Next]_(Abstract!promise)
    OBVIOUS
  <2> USE DEF Inductive
  <2>1. ASSUME row'.done = row.done, (stage' = "done") = (stage = "done")
        PROVE  [Abstract!Next]_(Abstract!promise)
    BY <2>1
  <2>2. ASSUME row' = current, stage # "done", stage' # "done"
        PROVE  [Abstract!Next]_(Abstract!promise)
    <3>1. CASE lock = {}
      BY <2>2, <3>1 DEF Ledger
    <3>2. CASE lock # {}
      <4>1. PICK c \in Chunk : c \notin row.done /\ current.done = row.done \union {c}
        BY <3>2 DEF Ledger
      <4>2. Abstract!Announce(c)
        BY <2>2, <4>1 DEF Abstract!Announce
      <4> QED  BY <4>2 DEF Abstract!Next
    <3> QED  BY <3>1, <3>2
  <2>3. CASE Begin \/ Start \/ WorkersEnd \/ FinalRestore \/ RequestPause
    <3>1. row' = row /\ (stage' = "done") = (stage = "done")
      BY <2>3 DEF Begin, Start, WorkersEnd, FinalRestore, RequestPause, TypeOK
    <3> QED  BY <2>1, <3>1
  <2>4. CASE Load
    <3>1. row'.done = {} /\ row.done = {} /\ stage # "done" /\ stage' # "done"
      BY <2>4 DEF Load, Ledger, NoCheckpoint
    <3> QED  BY <2>1, <3>1
  <2>5. CASE Finish
    <3>1. Abstract!Complete
      BY <2>5 DEF Finish, Ledger, Abstract!Complete
    <3> QED  BY <3>1 DEF Abstract!Next
  <2>6. ASSUME NEW w \in Worker, WorkerStep(w)
        PROVE  [Abstract!Next]_(Abstract!promise)
    <3>1. stage = "extracting" /\ stage' = stage /\ row' \in {row, current}
      BY <2>6 DEF WorkerStep, At, CheckPause, Take, SaveEvents, NoEvents, AcquireLock,
         RestoreEvents, Publish
    <3> QED  BY <2>1, <2>2, <3>1
  <2>7. ASSUME NEW w \in Worker, WorkerFails(w)
        PROVE  [Abstract!Next]_(Abstract!promise)
    <3>1. stage # "done" /\ stage' # "done" /\ row' \in {row, current}
      BY <2>7 DEF WorkerFails, At, Abandon
    <3> QED  BY <2>1, <2>2, <3>1
  <2>8. CASE RunFails \/ Stop
    <3>1. row' = row /\ stage # "done" /\ stage' # "done"
      BY <2>8 DEF RunFails, Stop, Abandon, Active
    <3> QED  BY <2>1, <3>1
  <2>9. CASE UNCHANGED vars
    BY <2>1, <2>9 DEF vars
  <2> QED  BY <2>3, <2>4, <2>5, <2>6, <2>7, <2>8, <2>9 DEF Next, ProcessStep
<1> QED  BY <1>1, <1>2, AlwaysInductive, PTL DEF Spec, Promise, Abstract!Spec

===============================================================================
