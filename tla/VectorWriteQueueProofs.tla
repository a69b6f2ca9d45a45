------------------------ MODULE VectorWriteQueueProofs ------------------------
(***************************************************************************)
(* Proofs about VectorWriteQueue for every number of records, document     *)
(* workers, jobs, stops and faults.                                        *)
(***************************************************************************)
EXTENDS VectorWriteQueue, FiniteSetTheorems, SequenceTheorems, WellFoundedInduction, TLAPS

PlanType == [accepted : [JobId -> SUBSET Event], payload : [JobId -> SUBSET Event],
             fresh : Seq(SUBSET Event), tail : BOOLEAN]

\* A set of records has a natural number of elements.
LEMMA RecordCount == \A S \in SUBSET Event : Cardinality(S) \in Nat
  BY FS_Subset, FS_CardinalityType, EventAssumption

\* What NewJob returns is a job row.
LEMMA NewJobType ==
  ASSUME NEW st \in ActiveJob, NEW S \in SUBSET Event, NEW a \in Nat, NEW d \in BOOLEAN,
         NEW o \in {"ingest", "reconcile"}
  PROVE  NewJob(st, S, a, d, o) \in JobRow
  BY RecordCount DEF NewJob, JobRow

\* Slicing a set of records gives a sequence of sets of records, disjoint and
\* covering it, of natural length.
LEMMA BatchingsType ==
  ASSUME NEW S \in SUBSET Event, NEW size \in Nat \ {0}, NEW f \in Batchings(S, size)
  PROVE  /\ f \in Seq(SUBSET Event)
         /\ Len(f) \in Nat /\ DOMAIN f = 1 .. Len(f)
         /\ Union(f) = S /\ Disjoint(f)
  <1> DEFINE n == (Cardinality(S) + size - 1) \div size
  <1>1. n \in Nat
    BY RecordCount
  <1>2. f \in [1 .. n -> SUBSET S]
    BY DEF Batchings
  <1>3. f \in [1 .. n -> SUBSET Event]
    BY <1>2
  <1>4. f \in Seq(SUBSET Event)
    BY <1>1, <1>3
  <1>5. DOMAIN f = 1 .. Len(f) /\ Len(f) \in Nat
    BY <1>4
  <1> QED
    BY <1>4, <1>5 DEF Batchings

\* A plan that merges the last of the batches f is well typed.
LEMMA MergedPlanType ==
  ASSUME TypeOK, NEW S \in SUBSET Event, NEW f \in Batchings(S, BatchSize), S # {},
         NEW C \in SUBSET JobId, NEW acc \in Merges(f[Len(f)], C)
  PROVE  MergedPlan(f, acc) \in PlanType
  <1> DEFINE T == f[Len(f)]
             full == SubSeq(f, 1, Len(f) - 1)
  <1>1. f \in Seq(SUBSET Event) /\ Len(f) \in Nat /\ Union(f) = S /\ DOMAIN f = 1 .. Len(f)
    BY BatchingsType, BatchAssumption
  <1>2. Len(f) \in 1 .. Len(f)
    BY <1>1 DEF Union
  <1>3. T \subseteq Event
    BY <1>1, <1>2
  <1>4. acc \in [JobId -> SUBSET Event]
    BY <1>3 DEF Merges
  <1>5. full \in Seq(SUBSET Event)
    BY <1>1
  <1>6. \A j \in JobId : jobs[j].ids \subseteq Event
    BY DEF TypeOK, JobRow
  <1>7. [j \in JobId |-> IF acc[j] = {} THEN {} ELSE jobs[j].ids \union acc[j]]
          \in [JobId -> SUBSET Event]
    BY <1>4, <1>6
  <1>8. (IF T \ Union(acc) = {} THEN full ELSE Append(full, T \ Union(acc)))
          \in Seq(SUBSET Event)
    BY <1>3, <1>5
  <1> QED
    BY <1>4, <1>7, <1>8 DEF PlanType, MergedPlan
-----------------------------------------------------------------------------
(***************************************************************************)
(* Types.                                                                  *)
(***************************************************************************)

\* One more step within a bound stays within it.
LEMMA Increment == \A n \in Nat : \A k \in 0 .. n : k < n => k + 1 \in 0 .. n
  OBVIOUS

\* Fields of a job row may be replaced by values of their types.
LEMMA RowUpdate ==
  ASSUME NEW row \in JobRow, NEW st \in ActiveJob \union Terminal, NEW S \in SUBSET Event,
         NEW d \in BOOLEAN
  PROVE  /\ [row EXCEPT !.status = st] \in JobRow
         /\ [row EXCEPT !.due = d] \in JobRow
         /\ [row EXCEPT !.status = st, !.due = d] \in JobRow
         /\ [row EXCEPT !.status = st, !.attempts = @ + 1] \in JobRow
         /\ [row EXCEPT !.ids = S, !.status = st] \in JobRow
         /\ [row EXCEPT !.ids = S, !.count = Cardinality(S), !.due = d] \in JobRow
  <1>1. Cardinality(S) \in Nat
    BY RecordCount
  <1>2. [row EXCEPT !.ids = S, !.count = Cardinality(S), !.due = d] \in JobRow
    BY <1>1 DEF JobRow
  <1>3. [row EXCEPT !.status = st, !.attempts = @ + 1] \in JobRow
    <2> DEFINE a == row.attempts + 1
    <2>1. a \in Nat
      BY DEF JobRow
    <2>2. [row EXCEPT !.status = st, !.attempts = a] \in JobRow
      <3> HIDE DEF a
      <3> QED
        BY <2>1 DEF JobRow
    <2> QED
      BY <2>2
  <1>4. [row EXCEPT !.status = st] \in JobRow /\ [row EXCEPT !.due = d] \in JobRow
    BY DEF JobRow
  <1>5. [row EXCEPT !.status = st, !.due = d] \in JobRow
    BY DEF JobRow
  <1>6. [row EXCEPT !.ids = S, !.status = st] \in JobRow
    BY DEF JobRow
  <1> QED
    BY <1>2, <1>3, <1>4, <1>5, <1>6

LEMMA NoPlanType == NoPlan \in PlanType
  BY DEF NoPlan, PlanType

\* Registering records of a well-typed owner function keeps the item rows typed.
LEMMA RegisterType ==
  ASSUME TypeOK, NEW owned \in [JobId -> SUBSET Event]
  PROVE  Register(owned) \in [JobId -> [Event -> {"none"} \union ItemStatus]]
  BY DEF Register, TypeOK, ItemStatus, ActiveItem, Terminal

LEMMA CompleteItemsType ==
  ASSUME TypeOK, NEW j \in JobId, NEW s \in ItemStatus
  PROVE  CompleteItems(j, s) \in [JobId -> [Event -> {"none"} \union ItemStatus]]
  BY DEF CompleteItems, TypeOK

LEMMA InitType == Init => TypeOK
  BY NoPlanType, BoundAssumption
     DEF Init, TypeOK, NoJob, JobRow, IdleEnqueuer, IdleWriter, PlanType, ActiveJob

LEMMA EnqueuerType ==
  ASSUME TypeOK, NEW p \in Enqueuer
  PROVE  /\ \A S \in SUBSET Event : SaveEvents(p, S) => TypeOK'
         /\ EnqueueRefused(p) => TypeOK'
         /\ EnqueuePlan(p) => TypeOK'
         /\ EnqueueCommit(p) => TypeOK'
  <1> USE DEF TypeOK
  <1>0. enq[p] \in [pc : {"idle", "saved", "planned"}, batch : SUBSET Event, plan : PlanType]
    BY DEF PlanType
  <1>1. ASSUME NEW S \in SUBSET Event, SaveEvents(p, S) PROVE TypeOK'
    <2>1. saves' \in 0 .. MaxSaves
      BY <1>1, Increment, BoundAssumption DEF SaveEvents
    <2>2. [enq[p] EXCEPT !.pc = "saved", !.batch = S] \in
             [pc : {"idle", "saved", "planned"}, batch : SUBSET Event, plan : PlanType]
      BY <1>0
    <2>3. enq' \in [Enqueuer -> [pc : {"idle", "saved", "planned"}, batch : SUBSET Event,
                                 plan : PlanType]]
      BY <1>1, <2>2 DEF SaveEvents, PlanType
    <2>4. event' \in [Event -> {"absent", "live", "gone"}]
      BY <1>1 DEF SaveEvents
    <2> QED
      BY <1>1, <2>1, <2>3, <2>4 DEF SaveEvents, PlanType
  <1>2. ASSUME EnqueueRefused(p) PROVE TypeOK'
    BY <1>2, <1>0, NoPlanType DEF EnqueueRefused, IdleEnqueuer, PlanType
  <1>3. ASSUME EnqueuePlan(p) PROVE TypeOK'
    <2> DEFINE todo == enq[p].batch \ PayloadsOf(ActiveJob)
    <2>1. CASE enq' = [enq EXCEPT ![p] = IdleEnqueuer]
      BY <1>3, <2>1, NoPlanType DEF EnqueuePlan, IdleEnqueuer, PlanType
    <2>2. ASSUME NEW plan \in PlanType, Planned(p, plan) PROVE TypeOK'
      BY <1>3, <2>2, <1>0 DEF EnqueuePlan, Planned, PlanType
    <2>3. ASSUME todo # {}, NEW f \in Batchings(todo, BatchSize),
                 Planned(p, [NoPlan EXCEPT !.fresh = f])
          PROVE  TypeOK'
      <3>1. todo \in SUBSET Event
        BY <1>0
      <3>2. f \in Seq(SUBSET Event)
        BY <3>1, BatchingsType, BatchAssumption
      <3>3. [NoPlan EXCEPT !.fresh = f] \in PlanType
        BY <3>2, NoPlanType DEF PlanType
      <3> QED
        BY <2>2, <2>3, <3>3
    <2>4. ASSUME todo # {}, NEW f \in Batchings(todo, BatchSize), NEW c \in 1 .. lastJob + 1,
                 NEW acc \in Merges(f[Len(f)], {j \in TailJobs : j >= c}),
                 Planned(p, MergedPlan(f, acc))
          PROVE  TypeOK'
      <3>1. todo \in SUBSET Event
        BY <1>0
      <3>2. {j \in TailJobs : j >= c} \in SUBSET JobId
        BY DEF TailJobs, Jobs
      <3>3. MergedPlan(f, acc) \in PlanType
        BY <2>4, <3>1, <3>2, MergedPlanType
      <3> QED
        BY <2>2, <2>4, <3>3
    <2> QED
      BY <1>3, <2>1, <2>3, <2>4 DEF EnqueuePlan
  <1>4. ASSUME EnqueueCommit(p) PROVE TypeOK'
    <2> DEFINE plan == enq[p].plan
    <2>1. plan \in PlanType /\ Len(plan.fresh) \in Nat
      BY <1>0 DEF PlanType
    <2>2. \A j \in JobId : IsFresh(plan, j) => Batch(plan, j) \in SUBSET Event
      BY <2>1 DEF IsFresh, Batch, PlanType
    <2>3. \A j \in JobId : plan.accepted[j] \in SUBSET Event /\ plan.payload[j] \in SUBSET Event
      BY <2>1 DEF PlanType
    <2>4. [j \in JobId |-> IF IsFresh(plan, j) THEN Batch(plan, j) ELSE plan.accepted[j]]
             \in [JobId -> SUBSET Event]
      BY <2>2, <2>3
    <2>5. items' \in [JobId -> [Event -> {"none"} \union ItemStatus]]
      BY <1>4, <2>4, RegisterType DEF EnqueueCommit
    <2>6. \A j \in JobId : IsFresh(plan, j) =>
              NewJob("queued", Batch(plan, j), 0, ~DelayedTail(plan, j), "ingest") \in JobRow
      BY <2>2, NewJobType DEF ActiveJob, Pending, DelayedTail
    <2>7. \A j \in JobId :
              [jobs[j] EXCEPT !.ids = plan.payload[j],
                              !.count = Cardinality(plan.payload[j]),
                              !.due = IF Cardinality(plan.payload[j]) >= BatchSize
                                       THEN TRUE ELSE @] \in JobRow
      <3>1. \A j \in JobId : jobs[j] \in JobRow
        OBVIOUS
      <3>2. \A j \in JobId : jobs[j].due \in BOOLEAN
        BY <3>1 DEF JobRow
      <3>3. \A j \in JobId :
              (IF Cardinality(plan.payload[j]) >= BatchSize THEN TRUE ELSE jobs[j].due) \in BOOLEAN
        BY <3>2
      <3> SUFFICES ASSUME NEW j \in JobId
                   PROVE  [jobs[j] EXCEPT !.ids = plan.payload[j],
                              !.count = Cardinality(plan.payload[j]),
                              !.due = IF Cardinality(plan.payload[j]) >= BatchSize
                                       THEN TRUE ELSE @] \in JobRow
        OBVIOUS
      <3> DEFINE S == plan.payload[j]
                 d == IF Cardinality(S) >= BatchSize THEN TRUE ELSE jobs[j].due
      <3>4. S \in SUBSET Event /\ d \in BOOLEAN /\ jobs[j] \in JobRow
        BY <2>3, <3>1, <3>3
      <3>5. "queued" \in ActiveJob \union Terminal
        BY DEF ActiveJob, Pending
      <3>6. [jobs[j] EXCEPT !.ids = S, !.count = Cardinality(S), !.due = d] \in JobRow
        <4> HIDE DEF S, d
        <4> QED
          BY <3>4, <3>5, RowUpdate
      <3> QED
        BY <3>6
    <2>8. jobs' \in [JobId -> JobRow]
      BY <1>4, <2>6, <2>7 DEF EnqueueCommit
    <2>9. lastJob' \in 0 .. MaxJobs
      <3>1. lastJob \in 0 .. MaxJobs
        OBVIOUS
      <3>2. lastJob + Len(plan.fresh) <= MaxJobs /\ lastJob' = lastJob + Len(plan.fresh)
        BY <1>4 DEF EnqueueCommit
      <3> HIDE DEF plan
      <3> QED
        BY <2>1, <3>1, <3>2, BoundAssumption
    <2>10. enq' \in [Enqueuer -> [pc : {"idle", "saved", "planned"}, batch : SUBSET Event,
                                  plan : PlanType]]
      BY <1>4, NoPlanType DEF EnqueueCommit, IdleEnqueuer, PlanType
    <2>11. UNCHANGED <<event, vectors, writer, phase, saves, crashes, faults>>
           /\ unscheduled' \subseteq Event
      BY <1>4 DEF EnqueueCommit
    <2> QED
      BY <2>5, <2>8, <2>9, <2>10, <2>11 DEF PlanType
  <1> QED
    BY <1>1, <1>2, <1>3, <1>4

\* While a writer holds something, it holds a job row.
HoldsJob == writer.pc # "idle" => writer.job \in JobId

LEMMA WriterType ==
  ASSUME TypeOK, HoldsJob, WriterStep
  PROVE  TypeOK' /\ HoldsJob'
  <1> USE DEF TypeOK, HoldsJob
  <1> DEFINE j == writer.job
  <1>a. IdleWriter \in [pc : {"idle", "claimed", "read", "loaded", "written", "failed"},
                        job : 0 .. MaxJobs, ids : SUBSET Event, loaded : SUBSET Event,
                        retryable : BOOLEAN] /\ IdleWriter.pc = "idle"
    BY BoundAssumption DEF IdleWriter
  <1>b. ASSUME writer.pc # "idle", NEW s \in Terminal
        PROVE  /\ [jobs EXCEPT ![j].status = s] \in [JobId -> JobRow]
               /\ \A st \in ItemStatus :
                     CompleteItems(j, st) \in [JobId -> [Event -> {"none"} \union ItemStatus]]
    <2>1. j \in JobId /\ [jobs[j] EXCEPT !.status = s] \in JobRow
      BY <1>b, RowUpdate
    <2> QED
      BY <2>1, CompleteItemsType DEF JobRow
  <1>c. faults < MaxFaults => faults + 1 \in 0 .. MaxFaults
    BY Increment, BoundAssumption
  <1>1. ASSUME NEW k \in JobId, Claim(k) PROVE TypeOK' /\ HoldsJob'
    <2>1. jobs' \in [JobId -> JobRow]
      <3>1. jobs' = [jobs EXCEPT ![k] = [jobs[k] EXCEPT !.status = "writing",
                                                        !.attempts = @ + 1]]
        BY <1>1 DEF Claim, JobRow
      <3>2. [jobs[k] EXCEPT !.status = "writing", !.attempts = @ + 1] \in JobRow
        BY RowUpdate DEF ActiveJob, Inflight
      <3> QED
        BY <3>1, <3>2
    <2>2. items' \in [JobId -> [Event -> {"none"} \union ItemStatus]]
      BY <1>1 DEF Claim, ItemStatus, ActiveItem
    <2>3. writer' = [IdleWriter EXCEPT !.pc = "claimed", !.job = k] /\ k \in 0 .. MaxJobs
      BY <1>1 DEF Claim, JobId
    <2>4. writer' \in [pc : {"idle", "claimed", "read", "loaded", "written", "failed"},
                       job : 0 .. MaxJobs, ids : SUBSET Event, loaded : SUBSET Event,
                       retryable : BOOLEAN] /\ writer'.job = k
      BY <2>3 DEF IdleWriter
    <2> QED
      BY <1>1, <2>1, <2>2, <2>4 DEF Claim
  <1>2. CASE ReadPayload
    BY <1>2 DEF ReadPayload, JobRow
  <1>3. CASE LoadEvents
    BY <1>3 DEF LoadEvents
  <1>4. CASE WriteVectors
    BY <1>4 DEF WriteVectors
  <1>5. ASSUME NEW part \in SUBSET Event, NEW r \in BOOLEAN, ProcessFails(part, r)
        PROVE  TypeOK' /\ HoldsJob'
    BY <1>5 DEF ProcessFails
  <1>6. CASE MarkSucceeded
    BY <1>6, <1>a, <1>b DEF MarkSucceeded, Terminal, ItemStatus
  <1>7. ASSUME NEW r \in BOOLEAN, MarkSucceededFails(r) PROVE TypeOK' /\ HoldsJob'
    BY <1>7, <1>c DEF MarkSucceededFails
  <1>8. CASE MarkSplit
    <2> DEFINE c1 == lastJob + 1
               c2 == lastJob + 2
    <2>1. PICK A \in Half(jobs[j].ids) :
            LET half == [c \in {c1, c2} |-> IF c = c1 THEN A ELSE jobs[j].ids \ A]
            IN  /\ jobs' = [i \in JobId |->
                   CASE i \in {c1, c2} ->
                           NewJob("retry", half[i], jobs[j].attempts, TRUE, jobs[j].origin)
                     [] i = j -> [jobs[j] EXCEPT !.status = "succeeded"]
                     [] OTHER -> jobs[i]]
                /\ items' = [i \in JobId |-> [e \in Event |->
                   IF items[j][e] \notin ActiveItem THEN items[i][e]
                   ELSE IF i \in {c1, c2} /\ e \in half[i] THEN "retry"
                   ELSE IF i = j THEN (IF e \in jobs[j].ids THEN "none" ELSE "failed")
                   ELSE items[i][e]]]
      BY <1>8 DEF MarkSplit
    <2>2. j \in JobId /\ jobs[j] \in JobRow
      BY <1>8 DEF MarkSplit
    <2>3. A \in SUBSET Event /\ jobs[j].ids \ A \in SUBSET Event
      BY <2>2 DEF Half, JobRow
    <2>4. \A S \in SUBSET Event :
            NewJob("retry", S, jobs[j].attempts, TRUE, jobs[j].origin) \in JobRow
      BY <2>2, NewJobType DEF JobRow, ActiveJob, Pending
    <2>5. [jobs[j] EXCEPT !.status = "succeeded"] \in JobRow
      BY <2>2 DEF JobRow, Terminal
    <2>6. jobs' \in [JobId -> JobRow]
      BY <2>1, <2>2, <2>3, <2>4, <2>5
    <2>7. items' \in [JobId -> [Event -> {"none"} \union ItemStatus]]
      BY <2>1 DEF ItemStatus, ActiveItem, Terminal
    <2>8. lastJob' \in 0 .. MaxJobs
      BY <1>8, BoundAssumption DEF MarkSplit
    <2> QED
      BY <1>8, <1>a, <2>6, <2>7, <2>8 DEF MarkSplit
  <1>9. CASE MarkRetry
    <2>1. [jobs[j] EXCEPT !.status = "retry", !.due = FALSE] \in JobRow
      BY <1>9, RowUpdate DEF MarkRetry, ActiveJob, Pending
    <2>2. jobs' = [jobs EXCEPT ![j] = [jobs[j] EXCEPT !.status = "retry", !.due = FALSE]]
      BY <1>9 DEF MarkRetry, JobRow
    <2>3. jobs' \in [JobId -> JobRow]
      BY <2>1, <2>2
    <2>4. items' \in [JobId -> [Event -> {"none"} \union ItemStatus]]
      BY <1>9, <1>b DEF MarkRetry, ItemStatus, ActiveItem, Terminal
    <2> QED
      BY <1>9, <1>a, <2>3, <2>4 DEF MarkRetry
  <1>10. CASE MarkFailed
    BY <1>10, <1>a, <1>b DEF MarkFailed, Terminal, ItemStatus
  <1>11. CASE MarkRaises
    BY <1>11, <1>a, <1>c DEF MarkRaises
  <1> QED
    BY <1>1, <1>2, <1>3, <1>4, <1>5, <1>6, <1>7, <1>8, <1>9, <1>10, <1>11 DEF WriterStep

LEMMA LifecycleType ==
  ASSUME TypeOK, HoldsJob
  PROVE  /\ \A j \in JobId : BecomesDue(j) => TypeOK' /\ HoldsJob'
         /\ \A S \in SUBSET Event : DeleteEvents(S) => TypeOK' /\ HoldsJob'
         /\ \A part \in SUBSET Event : Crash(part) => TypeOK' /\ HoldsJob'
         /\ Start => TypeOK' /\ HoldsJob'
  <1> USE DEF TypeOK, HoldsJob
  <1>1. ASSUME NEW j \in JobId, BecomesDue(j) PROVE TypeOK' /\ HoldsJob'
    <2>1. [jobs[j] EXCEPT !.due = TRUE] \in JobRow
      BY RowUpdate DEF Terminal
    <2>2. jobs' = [jobs EXCEPT ![j] = [jobs[j] EXCEPT !.due = TRUE]]
      BY <1>1 DEF BecomesDue, JobRow
    <2> QED
      BY <1>1, <2>1, <2>2 DEF BecomesDue
  <1>2. ASSUME NEW S \in SUBSET Event, DeleteEvents(S) PROVE TypeOK' /\ HoldsJob'
    BY <1>2 DEF DeleteEvents
  <1>3. ASSUME NEW part \in SUBSET Event, Crash(part) PROVE TypeOK' /\ HoldsJob'
    BY <1>3, NoPlanType, BoundAssumption DEF Crash, IdleWriter, IdleEnqueuer, PlanType
  <1>4. CASE RecoverRunning
    <2>1. \A j \in JobId : [jobs[j] EXCEPT !.status = "retry", !.due = TRUE] \in JobRow
      BY RowUpdate DEF ActiveJob, Pending
    <2>2. jobs' \in [JobId -> JobRow]
      BY <1>4, <2>1 DEF RecoverRunning, Recovered
    <2>3. items' \in [JobId -> [Event -> {"none"} \union ItemStatus]]
      <3>1. \A j \in JobId : \A e \in Event :
               items[j][e] \in {"none"} \union ItemStatus
        OBVIOUS
      <3>2. "retry" \in ItemStatus
        BY DEF ItemStatus, ActiveItem
      <3> QED
        BY <1>4, <3>1, <3>2 DEF RecoverRunning, Recovered
    <2> QED
      BY <1>4, <2>2, <2>3 DEF RecoverRunning, Recovered
  <1>5. ASSUME NEW r \in BOOLEAN, Reconcile(r) PROVE TypeOK' /\ HoldsJob'
    <2> DEFINE missing == IF r THEN Live \ vectors ELSE Live
               todo == missing \ PayloadsOf(ActiveJob)
    <2>1. PICK fresh \in Batchings(todo, ReconcileBatch) :
            LET n == Len(fresh)
                created(j) == j > lastJob /\ j - lastJob \in DOMAIN fresh
            IN  /\ lastJob + n <= MaxJobs
                /\ jobs' = [j \in JobId |->
                   IF created(j)
                   THEN NewJob("queued", fresh[j - lastJob], 0, TRUE, "reconcile")
                   ELSE IF jobs[j].status \in Pending /\ Kept(j, missing) # jobs[j].ids
                   THEN [jobs[j] EXCEPT !.ids = Kept(j, missing),
                                        !.status = IF Kept(j, missing) = {}
                                                   THEN "succeeded" ELSE @]
                   ELSE jobs[j]]
                /\ items' = Register([j \in JobId |->
                             IF created(j) THEN fresh[j - lastJob] ELSE {}])
                /\ lastJob' = lastJob + n
      BY <1>5 DEF Reconcile
    <2> DEFINE created(j) == j > lastJob /\ j - lastJob \in DOMAIN fresh
    <2>2. todo \in SUBSET Event
      BY DEF Live
    <2>3. fresh \in Seq(SUBSET Event) /\ Len(fresh) \in Nat
      BY <2>2, BatchingsType, BatchAssumption
    <2>4. \A j \in JobId : created(j) => fresh[j - lastJob] \in SUBSET Event
      BY <2>3
    <2>5. \A j \in JobId : created(j) =>
            NewJob("queued", fresh[j - lastJob], 0, TRUE, "reconcile") \in JobRow
      BY <2>4, NewJobType DEF ActiveJob, Pending
    <2>6. \A j \in JobId : jobs[j].status \in Pending =>
              [jobs[j] EXCEPT !.ids = Kept(j, missing),
                              !.status = IF Kept(j, missing) = {}
                                         THEN "succeeded" ELSE @] \in JobRow
      <3> SUFFICES ASSUME NEW j \in JobId, jobs[j].status \in Pending
                   PROVE  [jobs[j] EXCEPT !.ids = Kept(j, missing),
                              !.status = IF Kept(j, missing) = {}
                                         THEN "succeeded" ELSE @] \in JobRow
        OBVIOUS
      <3>1. Kept(j, missing) \in SUBSET Event
        BY DEF Kept, JobRow
      <3>2. (IF Kept(j, missing) = {} THEN "succeeded" ELSE jobs[j].status)
               \in ActiveJob \union Terminal
        BY DEF Terminal, ActiveJob
      <3> QED
        BY <3>1, <3>2, RowUpdate
    <2>7. jobs' \in [JobId -> JobRow]
      BY <2>1, <2>5, <2>6
    <2>8. items' \in [JobId -> [Event -> {"none"} \union ItemStatus]]
      <3>1. [j \in JobId |-> IF created(j) THEN fresh[j - lastJob] ELSE {}]
               \in [JobId -> SUBSET Event]
        BY <2>4
      <3> QED
        BY <2>1, <3>1, RegisterType
    <2>9. lastJob' \in 0 .. MaxJobs
      <3>1. lastJob \in 0 .. MaxJobs
        OBVIOUS
      <3>2. lastJob + Len(fresh) <= MaxJobs /\ lastJob' = lastJob + Len(fresh)
        BY <2>1
      <3> QED
        BY <2>3, <3>1, <3>2, BoundAssumption
    <2> QED
      BY <1>5, <2>7, <2>8, <2>9 DEF Reconcile
  <1>6. CASE StartUnreconciled
    BY <1>6 DEF StartUnreconciled
  <1> QED
    BY <1>1, <1>2, <1>3, <1>4, <1>5, <1>6 DEF Start

\* The two tables and the local copies keep their types: in every state the
\* rows a session reads are rows the code could have written.
THEOREM TypeCorrect == Spec => [](TypeOK /\ HoldsJob)
  <1>1. Init => TypeOK /\ HoldsJob
    BY InitType DEF Init, HoldsJob, IdleWriter
  <1>2. TypeOK /\ HoldsJob /\ [Next]_vars => TypeOK' /\ HoldsJob'
    <2> SUFFICES ASSUME TypeOK, HoldsJob, [Next]_vars PROVE TypeOK' /\ HoldsJob'
      OBVIOUS
    <2>1. CASE EnqueuerNext
      <3>1. CASE \E S \in SUBSET Event : DeleteEvents(S)
        BY <3>1, LifecycleType
      <3>2. ASSUME NEW p \in Enqueuer,
                   \/ \E S \in SUBSET Event : SaveEvents(p, S)
                   \/ EnqueueRefused(p)
                   \/ EnqueuePlan(p)
                   \/ EnqueueCommit(p)
            PROVE TypeOK' /\ HoldsJob'
        <4>1. writer' = writer
          BY <3>2 DEF SaveEvents, EnqueueRefused, EnqueuePlan, EnqueueCommit
        <4> QED
          BY <3>2, <4>1, EnqueuerType DEF HoldsJob
      <3> QED
        BY <2>1, <3>1, <3>2 DEF EnqueuerNext
    <2>2. CASE WriterStep
      BY <2>2, WriterType
    <2>3. CASE UNCHANGED vars
      BY <2>3 DEF vars, TypeOK, HoldsJob
    <2> QED
      BY <2>1, <2>2, <2>3, LifecycleType DEF Next
  <1> QED
    BY <1>1, <1>2, PTL DEF Spec
-----------------------------------------------------------------------------
(***************************************************************************)
(* One active item per record.  The rows one enqueue registers have        *)
(* disjoint owners; every other step only moves an active row or ends it.  *)
(***************************************************************************)

DisjointPlan(plan) ==
  /\ Disjoint(plan.accepted)
  /\ Disjoint(plan.fresh)
  /\ \A j \in JobId : \A k \in DOMAIN plan.fresh :
        plan.accepted[j] \intersect plan.fresh[k] = {}

PlansDisjoint == \A p \in Enqueuer : DisjointPlan(enq[p].plan)

LEMMA NoPlanDisjoint ==
  /\ DisjointPlan(NoPlan)
  /\ \A f : Disjoint(f) => DisjointPlan([NoPlan EXCEPT !.fresh = f])
  BY DEF DisjointPlan, Disjoint, NoPlan

LEMMA MergedPlanDisjoint ==
  ASSUME TypeOK, NEW S \in SUBSET Event, NEW f \in Batchings(S, BatchSize), S # {},
         NEW C \in SUBSET JobId, NEW acc \in Merges(f[Len(f)], C)
  PROVE  DisjointPlan(MergedPlan(f, acc))
  <1> DEFINE n == Len(f)
             T == f[n]
             rest == T \ Union(acc)
             full == SubSeq(f, 1, n - 1)
             plan == MergedPlan(f, acc)
  <1>1. f \in Seq(SUBSET Event) /\ n \in Nat /\ Union(f) = S /\ DOMAIN f = 1 .. n /\ Disjoint(f)
    BY BatchingsType, BatchAssumption
  <1>2. n \in 1 .. n
    BY <1>1 DEF Union
  <1>3. full \in Seq(SUBSET Event) /\ Len(full) = n - 1 /\ \A k \in 1 .. n - 1 : full[k] = f[k]
    BY <1>1, <1>2
  <1>4. acc \in [JobId -> SUBSET T] /\ Disjoint(acc)
    BY DEF Merges
  <1>5. plan.accepted = acc /\ plan.fresh = (IF rest = {} THEN full ELSE Append(full, rest))
    BY DEF MergedPlan
  <1>6. rest \in SUBSET Event
    BY <1>1, <1>2
  <1>7. DOMAIN plan.fresh \subseteq 1 .. n
        /\ \A k \in DOMAIN plan.fresh : plan.fresh[k] = IF k = n THEN rest ELSE f[k]
    <2>1. CASE rest = {}
      BY <2>1, <1>3, <1>5, <1>1
    <2>2. CASE rest # {}
      <3>1. plan.fresh = Append(full, rest)
        BY <2>2, <1>5
      <3>2. Append(full, rest) \in Seq(SUBSET Event) /\ Len(Append(full, rest)) = n
        BY <1>3, <1>6, <1>2
      <3>3. \A k \in 1 .. n : Append(full, rest)[k] = IF k = n THEN rest ELSE full[k]
        BY <1>3, <1>6, <1>2
      <3>4. DOMAIN plan.fresh = 1 .. n
        BY <3>1, <3>2
      <3>5. \A k \in 1 .. n : k # n => k \in 1 .. n - 1
        <4>1. n \in Nat
          BY <1>1
        <4> HIDE DEF n
        <4> QED
          BY <4>1
      <3>6. \A k \in 1 .. n : plan.fresh[k] = IF k = n THEN rest ELSE full[k]
        BY <3>1, <3>3
      <3> HIDE DEF plan, full, rest, n
      <3> QED
        BY <3>4, <3>5, <3>6, <1>3
    <2> QED
      BY <2>1, <2>2
  <1>8. rest \subseteq T /\ \A j \in JobId : acc[j] \subseteq T /\ acc[j] \intersect rest = {}
    BY <1>4 DEF Union
  <1>9. \A i, k \in 1 .. n : i # k => f[i] \intersect f[k] = {}
    BY <1>1 DEF Disjoint
  <1> HIDE DEF n, T, rest, full, plan
  <1>10. Disjoint(plan.fresh)
    <2> SUFFICES ASSUME NEW i \in DOMAIN plan.fresh, NEW k \in DOMAIN plan.fresh, i # k
                 PROVE  plan.fresh[i] \intersect plan.fresh[k] = {}
      BY DEF Disjoint
    <2>1. plan.fresh[i] \subseteq f[i] /\ plan.fresh[k] \subseteq f[k]
      BY <1>7, <1>8 DEF T
    <2> QED
      BY <2>1, <1>7, <1>9
  <1>11. ASSUME NEW j \in JobId, NEW k \in DOMAIN plan.fresh
         PROVE  plan.accepted[j] \intersect plan.fresh[k] = {}
    <2>1. CASE k = n
      BY <2>1, <1>5, <1>7, <1>8
    <2>2. CASE k # n
      BY <2>2, <1>5, <1>7, <1>8, <1>9, <1>2 DEF T
    <2> QED
      BY <2>1, <2>2
  <1> QED
    BY <1>4, <1>5, <1>10, <1>11 DEF DisjointPlan, plan

\* Steps that make no row active keep the property.
LEMMA NoNewActive ==
  ASSUME UniqueActiveItem,
         \A j \in JobId : \A e \in Event :
            items'[j][e] \in ActiveItem => items[j][e] \in ActiveItem
  PROVE  UniqueActiveItem'
  BY DEF UniqueActiveItem

LEMMA CompleteKeepsUnique ==
  ASSUME TypeOK, UniqueActiveItem, NEW j \in JobId, NEW s \in ItemStatus,
         items' = CompleteItems(j, s)
  PROVE  UniqueActiveItem'
  <1>1. \A i \in JobId : \A e \in Event :
           items'[i][e] \in ActiveItem => items[i][e] \in ActiveItem
    BY DEF CompleteItems, TypeOK
  <1> QED
    BY <1>1, NoNewActive

\* Registering disjointly owned records keeps the property.
LEMMA RegisterKeepsUnique ==
  ASSUME TypeOK, UniqueActiveItem, NEW owned \in [JobId -> SUBSET Event], Disjoint(owned),
         items' = Register(owned)
  PROVE  UniqueActiveItem'
  <1> SUFFICES ASSUME NEW e \in Event, NEW i \in JobId, NEW j \in JobId,
                      items'[i][e] \in ActiveItem, items'[j][e] \in ActiveItem
               PROVE  i = j
    BY DEF UniqueActiveItem
  <1>1. CASE HasActiveItem(e)
    BY <1>1 DEF Register, UniqueActiveItem
  <1>2. CASE ~HasActiveItem(e)
    <2>1. e \in owned[i] /\ e \in owned[j]
      BY <1>2 DEF Register, HasActiveItem
    <2> QED
      BY <2>1 DEF Disjoint
  <1> QED
    BY <1>1, <1>2

LEMMA SplitKeepsUnique ==
  ASSUME TypeOK, HoldsJob, UniqueActiveItem, MarkSplit
  PROVE  UniqueActiveItem'
  <1> DEFINE j == writer.job
             c1 == lastJob + 1
             c2 == lastJob + 2
  <1>0. j \in JobId /\ c1 # c2
    BY DEF MarkSplit, HoldsJob, TypeOK
  <1>1. PICK A \in Half(jobs[j].ids) :
          LET half == [c \in {c1, c2} |-> IF c = c1 THEN A ELSE jobs[j].ids \ A]
          IN  items' = [i \in JobId |-> [e \in Event |->
                   IF items[j][e] \notin ActiveItem THEN items[i][e]
                   ELSE IF i \in {c1, c2} /\ e \in half[i] THEN "retry"
                   ELSE IF i = j THEN (IF e \in jobs[j].ids THEN "none" ELSE "failed")
                   ELSE items[i][e]]]
    BY DEF MarkSplit
  <1> DEFINE half == [c \in {c1, c2} |-> IF c = c1 THEN A ELSE jobs[j].ids \ A]
  <1>2. half[c1] = A /\ half[c2] = jobs[j].ids \ A
    BY <1>0
  <1> HIDE DEF half
  <1> SUFFICES ASSUME NEW e \in Event, NEW i \in JobId, NEW k \in JobId,
                      items'[i][e] \in ActiveItem, items'[k][e] \in ActiveItem
               PROVE  i = k
    BY DEF UniqueActiveItem
  <1>3. CASE items[j][e] \notin ActiveItem
    BY <1>1, <1>3 DEF UniqueActiveItem
  <1>4. CASE items[j][e] \in ActiveItem
    <2>1. ASSUME NEW m \in JobId, items'[m][e] \in ActiveItem
          PROVE  m \in {c1, c2} /\ e \in half[m]
      <3>1. items'[m][e] = IF m \in {c1, c2} /\ e \in half[m] THEN "retry"
                           ELSE IF m = j THEN (IF e \in jobs[j].ids THEN "none" ELSE "failed")
                           ELSE items[m][e]
        BY <1>1, <1>4 DEF half
      <3>2. m # j => items[m][e] \notin ActiveItem
        BY <1>0, <1>4 DEF UniqueActiveItem
      <3> QED
        BY <2>1, <3>1, <3>2 DEF ActiveItem
    <2> QED
      BY <2>1, <1>2
  <1> QED
    BY <1>3, <1>4

UniqueInv == TypeOK /\ HoldsJob /\ PlansDisjoint /\ UniqueActiveItem

LEMMA EnqueuerUnique ==
  ASSUME UniqueInv, NEW p \in Enqueuer,
         \/ \E S \in SUBSET Event : SaveEvents(p, S)
         \/ EnqueueRefused(p)
         \/ EnqueuePlan(p)
         \/ EnqueueCommit(p)
  PROVE  PlansDisjoint' /\ UniqueActiveItem'
  <1> USE DEF UniqueInv, PlansDisjoint
  <1>0. TypeOK /\ enq \in [Enqueuer -> [pc : {"idle", "saved", "planned"},
                                        batch : SUBSET Event, plan : PlanType]]
    BY DEF TypeOK, PlanType
  <1>a. DisjointPlan(IdleEnqueuer.plan)
    BY NoPlanDisjoint DEF IdleEnqueuer
  <1>1. ASSUME NEW S \in SUBSET Event, SaveEvents(p, S)
        PROVE  PlansDisjoint' /\ UniqueActiveItem'
    <2>1. \A q \in Enqueuer : enq'[q].plan = enq[q].plan
      BY <1>0, <1>1 DEF SaveEvents
    <2> QED
      BY <1>1, <2>1, NoNewActive DEF SaveEvents
  <1>2. CASE EnqueueRefused(p)
    <2>1. \A q \in Enqueuer : enq'[q] = IF q = p THEN IdleEnqueuer ELSE enq[q]
      BY <1>0, <1>2 DEF EnqueueRefused
    <2> QED
      BY <1>2, <1>a, <2>1, NoNewActive DEF EnqueueRefused
  <1>3. CASE EnqueuePlan(p)
    <2> DEFINE todo == enq[p].batch \ PayloadsOf(ActiveJob)
    <2>1. UniqueActiveItem'
      BY <1>3, NoNewActive DEF EnqueuePlan
    <2>2. CASE enq' = [enq EXCEPT ![p] = IdleEnqueuer]
      <3>1. \A q \in Enqueuer : enq'[q] = IF q = p THEN IdleEnqueuer ELSE enq[q]
        BY <1>0, <2>2
      <3> QED
        BY <1>a, <2>1, <3>1
    <2>3. ASSUME NEW plan, DisjointPlan(plan), Planned(p, plan) PROVE PlansDisjoint'
      <3>1. \A q \in Enqueuer : enq'[q].plan = IF q = p THEN plan ELSE enq[q].plan
        BY <1>0, <2>3 DEF Planned
      <3> QED
        BY <2>3, <3>1
    <2>4. ASSUME NEW f \in Batchings(todo, BatchSize), Planned(p, [NoPlan EXCEPT !.fresh = f])
          PROVE  PlansDisjoint'
      BY <2>3, <2>4, NoPlanDisjoint DEF Batchings
    <2>5. ASSUME todo # {}, NEW f \in Batchings(todo, BatchSize), NEW c \in 1 .. lastJob + 1,
                 NEW acc \in Merges(f[Len(f)], {j \in TailJobs : j >= c}),
                 Planned(p, MergedPlan(f, acc))
          PROVE  PlansDisjoint'
      <3>1. todo \in SUBSET Event
        BY <1>0
      <3>2. {j \in TailJobs : j >= c} \in SUBSET JobId
        BY DEF TailJobs, Jobs
      <3>3. DisjointPlan(MergedPlan(f, acc))
        BY <2>5, <3>1, <3>2, MergedPlanDisjoint
      <3> QED
        BY <2>3, <2>5, <3>3
    <2> QED
      BY <1>3, <2>1, <2>2, <2>4, <2>5 DEF EnqueuePlan
  <1>4. CASE EnqueueCommit(p)
    <2> DEFINE plan == enq[p].plan
               owned == [j \in JobId |->
                           IF IsFresh(plan, j) THEN Batch(plan, j) ELSE plan.accepted[j]]
    <2>1. plan \in PlanType /\ DisjointPlan(plan) /\ lastJob \in Nat
      BY <1>0, BoundAssumption DEF TypeOK
    <2>2. owned \in [JobId -> SUBSET Event]
      BY <2>1 DEF IsFresh, Batch, PlanType
    <2>3. Disjoint(owned)
      <3> SUFFICES ASSUME NEW i \in JobId, NEW k \in JobId, i # k
                   PROVE  owned[i] \intersect owned[k] = {}
        BY DEF Disjoint
      <3>1. plan.accepted \in [JobId -> SUBSET Event]
        BY <2>1 DEF PlanType
      <3>2. i - lastJob # k - lastJob
        BY <2>1 DEF JobId
      <3> QED
        BY <2>1, <3>1, <3>2 DEF DisjointPlan, Disjoint, IsFresh, Batch
    <2>4. UniqueActiveItem'
      BY <1>0, <1>4, <2>2, <2>3, RegisterKeepsUnique DEF EnqueueCommit
    <2>5. \A q \in Enqueuer : enq'[q] = IF q = p THEN IdleEnqueuer ELSE enq[q]
      BY <1>0, <1>4 DEF EnqueueCommit
    <2> QED
      BY <1>a, <2>4, <2>5
  <1> QED
    BY <1>1, <1>2, <1>3, <1>4

LEMMA WriterUnique ==
  ASSUME UniqueInv, WriterStep
  PROVE  PlansDisjoint' /\ UniqueActiveItem'
  <1>b. TypeOK /\ HoldsJob /\ UniqueActiveItem /\ PlansDisjoint
    BY DEF UniqueInv
  <1>0. PlansDisjoint'
    <2>1. enq' = enq
      BY DEF WriterStep, Claim, ReadPayload, LoadEvents, WriteVectors, ProcessFails,
             MarkSucceeded, MarkSucceededFails, MarkSplit, MarkRetry, MarkFailed, MarkRaises
    <2> QED
      BY <1>b, <2>1 DEF PlansDisjoint
  <1>a. writer.pc # "idle" => writer.job \in JobId
    BY <1>b DEF HoldsJob
  <1>1. ASSUME NEW j \in JobId, Claim(j) PROVE UniqueActiveItem'
    <2>1. \A i \in JobId : \A e \in Event :
             items'[i][e] \in ActiveItem => items[i][e] \in ActiveItem
      BY <1>b, <1>1 DEF Claim, TypeOK, ActiveItem
    <2> QED
      BY <1>b, <2>1, NoNewActive
  <1>2. CASE \/ ReadPayload \/ LoadEvents \/ WriteVectors \/ MarkRaises
             \/ \E part \in SUBSET Event, r \in BOOLEAN : ProcessFails(part, r)
             \/ \E r \in BOOLEAN : MarkSucceededFails(r)
    <2>1. items' = items
      BY <1>2 DEF ReadPayload, LoadEvents, WriteVectors, ProcessFails, MarkSucceededFails,
                  MarkRaises
    <2> QED
      BY <1>0, <1>b, <2>1, NoNewActive
  <1>3. CASE MarkSucceeded
    <2>1. items' = CompleteItems(writer.job, "succeeded") /\ writer.job \in JobId
      BY <1>3, <1>a DEF MarkSucceeded
    <2>2. "succeeded" \in ItemStatus
      BY DEF ItemStatus, Terminal
    <2> QED
      BY <1>0, <1>b, <2>1, <2>2, CompleteKeepsUnique
  <1>4. CASE MarkSplit
    BY <1>0, <1>b, <1>4, SplitKeepsUnique
  <1>5. CASE MarkRetry
    <2>1. items' = CompleteItems(writer.job, "retry") /\ writer.job \in JobId
      BY <1>5, <1>a DEF MarkRetry
    <2>2. "retry" \in ItemStatus
      BY DEF ItemStatus, ActiveItem
    <2> QED
      BY <1>0, <1>b, <2>1, <2>2, CompleteKeepsUnique
  <1>6. CASE MarkFailed
    <2>1. items' = CompleteItems(writer.job, "failed") /\ writer.job \in JobId
      BY <1>6, <1>a DEF MarkFailed
    <2>2. "failed" \in ItemStatus
      BY DEF ItemStatus, Terminal
    <2> QED
      BY <1>0, <1>b, <2>1, <2>2, CompleteKeepsUnique
  <1> QED
    BY <1>0, <1>1, <1>2, <1>3, <1>4, <1>5, <1>6 DEF WriterStep

LEMMA StartUnique ==
  ASSUME UniqueInv, Start
  PROVE  PlansDisjoint' /\ UniqueActiveItem'
  <1> USE DEF UniqueInv
  <1>0. PlansDisjoint'
    <2>1. enq' = enq
      BY DEF Start, RecoverRunning, Reconcile, StartUnreconciled
    <2> QED
      BY <2>1 DEF PlansDisjoint
  <1>1. CASE RecoverRunning
    <2>1. \A i \in JobId : \A e \in Event :
             items'[i][e] \in ActiveItem => items[i][e] \in ActiveItem
      BY <1>1 DEF RecoverRunning, Recovered, ActiveItem
    <2> QED
      BY <1>0, <2>1, NoNewActive
  <1>2. ASSUME NEW r \in BOOLEAN, Reconcile(r) PROVE UniqueActiveItem'
    <2> DEFINE todo == (IF r THEN Live \ vectors ELSE Live) \ PayloadsOf(ActiveJob)
    <2>1. PICK fresh \in Batchings(todo, ReconcileBatch) :
            items' = Register([j \in JobId |->
                        IF j > lastJob /\ j - lastJob \in DOMAIN fresh
                        THEN fresh[j - lastJob] ELSE {}])
      BY <1>2 DEF Reconcile
    <2> DEFINE owned == [j \in JobId |->
                           IF j > lastJob /\ j - lastJob \in DOMAIN fresh
                           THEN fresh[j - lastJob] ELSE {}]
    <2>2. todo \in SUBSET Event
      BY DEF Live
    <2>3. fresh \in Seq(SUBSET Event) /\ Disjoint(fresh)
      BY <2>2, BatchingsType, BatchAssumption
    <2>4. owned \in [JobId -> SUBSET Event]
      BY <2>3
    <2>5. Disjoint(owned)
      <3> SUFFICES ASSUME NEW i \in JobId, NEW k \in JobId, i # k
                   PROVE  owned[i] \intersect owned[k] = {}
        BY DEF Disjoint
      <3>1. lastJob \in Nat
        BY BoundAssumption DEF TypeOK
      <3>2. i - lastJob # k - lastJob
        BY <3>1 DEF JobId
      <3> QED
        BY <2>3, <3>2 DEF Disjoint
    <2> QED
      BY <2>1, <2>4, <2>5, RegisterKeepsUnique
  <1>3. CASE StartUnreconciled
    BY <1>0, <1>3, NoNewActive DEF StartUnreconciled
  <1> QED
    BY <1>0, <1>1, <1>2, <1>3 DEF Start

\* A record never has two active items, for any number of workers enqueueing it
\* at the same time, through splits, retries, stops, recovery and reconciliation.
THEOREM ActiveItemsUnique == Spec => []UniqueActiveItem
  <1>1. Init => PlansDisjoint /\ UniqueActiveItem
    BY NoPlanDisjoint DEF Init, PlansDisjoint, UniqueActiveItem, IdleEnqueuer, ActiveItem
  <1>2. UniqueInv /\ [Next]_vars => PlansDisjoint' /\ UniqueActiveItem'
    <2> SUFFICES ASSUME UniqueInv, [Next]_vars PROVE PlansDisjoint' /\ UniqueActiveItem'
      OBVIOUS
    <2>1. CASE EnqueuerNext
      <3>1. ASSUME NEW S \in SUBSET Event, DeleteEvents(S)
            PROVE  PlansDisjoint' /\ UniqueActiveItem'
        BY <3>1, NoNewActive DEF DeleteEvents, UniqueInv, PlansDisjoint
      <3> QED
        BY <2>1, <3>1, EnqueuerUnique DEF EnqueuerNext
    <2>2. CASE WriterStep
      BY <2>2, WriterUnique
    <2>3. ASSUME NEW j \in JobId, BecomesDue(j) PROVE PlansDisjoint' /\ UniqueActiveItem'
      BY <2>3, NoNewActive DEF BecomesDue, UniqueInv, PlansDisjoint
    <2>4. ASSUME NEW part \in SUBSET Event, Crash(part) PROVE PlansDisjoint' /\ UniqueActiveItem'
      BY <2>4, NoNewActive, NoPlanDisjoint DEF Crash, UniqueInv, PlansDisjoint, IdleEnqueuer
    <2>5. CASE Start
      BY <2>5, StartUnique
    <2>6. CASE UNCHANGED vars
      BY <2>6, NoNewActive DEF vars, UniqueInv, PlansDisjoint
    <2> QED
      BY <2>1, <2>2, <2>3, <2>4, <2>5, <2>6 DEF Next
  <1> QED
    BY <1>1, <1>2, TypeCorrect, PTL DEF Spec, UniqueInv

\* The two tables are well typed and a record has at most one active item: the
\* invariant that the runs check (the rows of the queue and of its items).
THEOREM ItemsCorrect == Spec => []ItemsConsistent
  <1>1. TypeOK /\ UniqueActiveItem => ItemsConsistent
    BY DEF ItemsConsistent
  <1> QED
    BY <1>1, TypeCorrect, ActiveItemsUnique, PTL

----------------------------------------------------------------------------
(***************************************************************************)
(* The rows of the queue and the records they carry.  When the tail flush  *)
(* is off no record is forgotten and no row loses its work; in every build *)
(* what is in flight is held and no batch outgrows its bound.              *)
(*                                                                         *)
(* No record is forgotten: splits, retries, recovery, startup trims,       *)
(* deletions and refused or lost enqueues leave every live record without  *)
(* a vector accounted for.                                                 *)
(*                                                                         *)
(* The invariant follows a record from hand to hand.  It is SETTLED when   *)
(* its event is gone, its vector is written, or a job that is active or    *)
(* failed carries it.  What a document worker has planned and not yet      *)
(* committed, and what the writer has loaded and not yet marked, must      *)
(* match the two tables for the record to stay settled across the gap.     *)
(***************************************************************************)
Carrier == ActiveJob \union {"failed"}
Carries(j, e) == jobs[j].status \in Carrier /\ e \in jobs[j].ids
Carried(e) == \E j \in JobId : Carries(j, e)
Settled(e) == event[e] = "gone" \/ e \in vectors \/ Carried(e)

UnusedRows == \A j \in JobId : j > lastJob => jobs[j].status = "none" /\ jobs[j].ids = {}

KnownRecords ==
    /\ \A j \in JobId : \A e \in jobs[j].ids : event[e] # "absent"
    /\ \A p \in Enqueuer : \A e \in enq[p].batch : event[e] # "absent"

EnqueuersSound ==
    \A p \in Enqueuer :
        /\ enq[p].pc = "idle" => enq[p].batch = {}
        /\ \A j \in JobId : enq[p].plan.accepted[j] = {}
        /\ enq[p].pc = "planned" =>
              /\ Union(enq[p].plan.fresh) \subseteq enq[p].batch
              /\ \A e \in enq[p].batch \ Union(enq[p].plan.fresh) : Settled(e)

WriterSound ==
    writer.pc # "idle" =>
        /\ phase = "up"
        /\ jobs[writer.job].status = "writing"
        /\ writer.pc \in {"read", "loaded"} => writer.ids = jobs[writer.job].ids
        /\ writer.pc = "loaded" =>
              \A e \in writer.ids : e \in writer.loaded \/ event[e] = "gone"
        /\ writer.pc = "written" =>
              \A e \in jobs[writer.job].ids : e \in vectors \/ event[e] = "gone"

Covered ==
    \A e \in Event : event[e] = "live" =>
        \/ Settled(e)
        \/ e \in unscheduled
        \/ \E p \in Enqueuer : e \in enq[p].batch

RecordsInv == UnusedRows /\ KnownRecords /\ EnqueuersSound /\ WriterSound /\ Covered

TypeInv == TypeOK /\ HoldsJob

LEMMA CoveredSuffices == ASSUME TypeOK, Covered PROVE NoRecordForgotten
  <1> SUFFICES ASSUME NEW e \in Live \ vectors
               PROVE  \/ e \in unscheduled
                      \/ \E p \in Enqueuer : e \in enq[p].batch
                      \/ e \in PayloadsOf(ActiveJob \union {"failed"})
    BY DEF NoRecordForgotten
  <1>1. e \in Event /\ event[e] = "live" /\ e \notin vectors
    BY DEF Live
  <1>2. Carried(e) => e \in PayloadsOf(ActiveJob \union {"failed"})
    BY DEF Carried, Carries, Carrier, PayloadsOf, Jobs
  <1> QED
    BY <1>1, <1>2 DEF Covered, Settled

\* What a step must respect for a settled record to stay settled.
LEMMA StaysSettled ==
  ASSUME NEW e, Settled(e),
         event[e] = "gone" => event'[e] = "gone",
         e \in vectors => e \in vectors' \/ event'[e] = "gone",
         Carried(e) => Settled(e)'
  PROVE  Settled(e)'
  BY DEF Settled

LEMMA CarriedInTable ==
  ASSUME NEW e, e \in PayloadsOf(ActiveJob) PROVE Carried(e)
  BY DEF PayloadsOf, Jobs, Carried, Carries, Carrier

LEMMA RecordsInit == Init => RecordsInv
  <1> SUFFICES ASSUME Init PROVE RecordsInv
    OBVIOUS
  <1>1. UnusedRows /\ KnownRecords /\ WriterSound /\ Covered
    BY DEF Init, UnusedRows, KnownRecords, WriterSound, Covered, NoJob, IdleWriter, IdleEnqueuer
  <1>2. EnqueuersSound
    BY DEF Init, EnqueuersSound, IdleEnqueuer, NoPlan
  <1> QED
    BY <1>1, <1>2 DEF RecordsInv
-----------------------------------------------------------------------------
(***************************************************************************)
(* Document workers.                                                       *)
(***************************************************************************)

LEMMA IdleEnqueuerFacts ==
  /\ IdleEnqueuer.pc = "idle" /\ IdleEnqueuer.batch = {}
  /\ \A j \in JobId : IdleEnqueuer.plan.accepted[j] = {}
  BY DEF IdleEnqueuer, NoPlan

\* Steps that leave both tables, the events and the writer alone.
LEMMA SameTables ==
  ASSUME TypeInv, RecordsInv,
         UNCHANGED <<event, vectors, jobs, lastJob, writer, phase>>
  PROVE  UnusedRows' /\ WriterSound' /\ \A e : Settled(e)' <=> Settled(e)
  <1>1. UnusedRows'
    BY DEF RecordsInv, UnusedRows
  <1>2. WriterSound'
    BY DEF RecordsInv, WriterSound
  <1>3. \A e : Settled(e)' <=> Settled(e)
    BY DEF Settled, Carried, Carries
  <1> QED
    BY <1>1, <1>2, <1>3

LEMMA SaveRecords ==
  ASSUME TypeInv, RecordsInv, NEW p \in Enqueuer, NEW S \in SUBSET Event, SaveEvents(p, S)
  PROVE  RecordsInv'
  <1>0. TypeOK
    BY DEF TypeInv
  <1>1. /\ UNCHANGED <<vectors, jobs, lastJob, writer, phase, unscheduled>>
        /\ \A e \in Event : event'[e] = IF e \in S THEN "live" ELSE event[e]
        /\ \A e \in S : event[e] # "gone"
    BY DEF SaveEvents
  <1>2. enq[p].pc = "idle" /\ enq[p].batch = {}
    BY DEF SaveEvents, RecordsInv, EnqueuersSound
  <1>3. \A q \in Enqueuer :
           /\ enq'[q].pc = IF q = p THEN "saved" ELSE enq[q].pc
           /\ enq'[q].batch = IF q = p THEN S ELSE enq[q].batch
           /\ enq'[q].plan = enq[q].plan
    BY <1>0 DEF SaveEvents, TypeOK
  <1>4. \A e \in Event : Settled(e) => Settled(e)'
    BY <1>1 DEF Settled, Carried, Carries
  <1>5. UnusedRows'
    BY <1>1 DEF RecordsInv, UnusedRows
  <1>6. KnownRecords'
    BY <1>0, <1>1, <1>3 DEF RecordsInv, KnownRecords, TypeOK, JobRow
  <1>7. EnqueuersSound'
    BY <1>0, <1>3, <1>4 DEF RecordsInv, EnqueuersSound, TypeOK
  <1>8. WriterSound'
    <2>1. \A j \in JobId : jobs[j].ids \in SUBSET Event
      BY <1>0 DEF TypeOK, JobRow
    <2>2. writer.ids \in SUBSET Event
      BY <1>0 DEF TypeOK
    <2>3. writer.pc # "idle" => writer.job \in JobId
      BY DEF TypeInv, HoldsJob
    <2> QED
      BY <1>1, <2>1, <2>2, <2>3 DEF RecordsInv, WriterSound
  <1>9. Covered'
    BY <1>1, <1>2, <1>3, <1>4 DEF RecordsInv, Covered
  <1> QED
    BY <1>5, <1>6, <1>7, <1>8, <1>9 DEF RecordsInv

LEMMA RefusedRecords ==
  ASSUME TypeInv, RecordsInv, NEW p \in Enqueuer, EnqueueRefused(p)
  PROVE  RecordsInv'
  <1>0. TypeOK
    BY DEF TypeInv
  <1>1. UnusedRows' /\ WriterSound' /\ \A e : Settled(e)' <=> Settled(e)
    BY SameTables DEF EnqueueRefused
  <1>2. /\ UNCHANGED <<event, jobs>>
        /\ unscheduled' = unscheduled \union enq[p].batch
        /\ \A q \in Enqueuer : enq'[q] = IF q = p THEN IdleEnqueuer ELSE enq[q]
    BY <1>0 DEF EnqueueRefused, TypeOK
  <1>3. KnownRecords'
    BY <1>2, IdleEnqueuerFacts DEF RecordsInv, KnownRecords
  <1>4. EnqueuersSound'
    BY <1>1, <1>2, IdleEnqueuerFacts DEF RecordsInv, EnqueuersSound
  <1>5. Covered'
    BY <1>1, <1>2, IdleEnqueuerFacts DEF RecordsInv, Covered
  <1> QED
    BY <1>1, <1>3, <1>4, <1>5 DEF RecordsInv

\* The read of an enqueue: what the plan leaves out is carried by an active job.
LEMMA PlanRecords ==
  ASSUME TailFlush = FALSE, TypeInv, RecordsInv, NEW p \in Enqueuer, EnqueuePlan(p)
  PROVE  RecordsInv'
  <1> DEFINE todo == enq[p].batch \ PayloadsOf(ActiveJob)
  <1>0. TypeOK /\ enq[p].batch \in SUBSET Event
    BY DEF TypeInv, TypeOK
  <1>1. UnusedRows' /\ WriterSound' /\ \A e : Settled(e)' <=> Settled(e)
    BY SameTables DEF EnqueuePlan
  <1>2. UNCHANGED <<event, jobs, unscheduled>>
    BY DEF EnqueuePlan
  <1>3. \A e \in enq[p].batch \ todo : Settled(e)
    BY CarriedInTable DEF Settled
  <1>4. CASE todo = {} /\ enq' = [enq EXCEPT ![p] = IdleEnqueuer]
    <2>1. \A q \in Enqueuer : enq'[q] = IF q = p THEN IdleEnqueuer ELSE enq[q]
      BY <1>0, <1>4 DEF TypeOK
    <2>2. KnownRecords'
      BY <1>2, <2>1, IdleEnqueuerFacts DEF RecordsInv, KnownRecords
    <2>3. EnqueuersSound'
      BY <1>1, <2>1, IdleEnqueuerFacts DEF RecordsInv, EnqueuersSound
    <2>4. Covered'
      <3>1. \A e \in enq[p].batch : Settled(e)
        BY <1>3, <1>4
      <3> QED
        BY <1>1, <1>2, <2>1, <3>1 DEF RecordsInv, Covered
    <2> QED
      BY <1>1, <2>2, <2>3, <2>4 DEF RecordsInv
  <1>5. ASSUME NEW f \in Batchings(todo, BatchSize), Planned(p, [NoPlan EXCEPT !.fresh = f])
        PROVE  RecordsInv'
    <2> DEFINE plan == [NoPlan EXCEPT !.fresh = f]
    <2>1. Union(f) = todo
      BY DEF Batchings
    <2>2. plan.fresh = f /\ \A j \in JobId : plan.accepted[j] = {}
      BY DEF NoPlan
    <2> HIDE DEF plan
    <2>3. \A q \in Enqueuer :
             /\ enq'[q].pc = IF q = p THEN "planned" ELSE enq[q].pc
             /\ enq'[q].batch = enq[q].batch
             /\ enq'[q].plan = IF q = p THEN plan ELSE enq[q].plan
      BY <1>0, <1>5 DEF Planned, TypeOK, plan
    <2>4. KnownRecords'
      BY <1>2, <2>3 DEF RecordsInv, KnownRecords
    <2>5. EnqueuersSound'
      <3>1. ASSUME NEW q \in Enqueuer, q # p
            PROVE  /\ enq'[q].pc = "idle" => enq'[q].batch = {}
                   /\ \A j \in JobId : enq'[q].plan.accepted[j] = {}
                   /\ enq'[q].pc = "planned" =>
                        /\ Union(enq'[q].plan.fresh) \subseteq enq'[q].batch
                        /\ \A e \in enq'[q].batch \ Union(enq'[q].plan.fresh) : Settled(e)'
        BY <1>1, <2>3, <3>1 DEF RecordsInv, EnqueuersSound
      <3>2. /\ enq'[p].pc = "planned"
            /\ \A j \in JobId : enq'[p].plan.accepted[j] = {}
            /\ Union(enq'[p].plan.fresh) \subseteq enq'[p].batch
            /\ \A e \in enq'[p].batch \ Union(enq'[p].plan.fresh) : Settled(e)'
        BY <1>1, <1>3, <2>1, <2>2, <2>3
      <3> QED
        BY <3>1, <3>2 DEF EnqueuersSound
    <2>6. Covered'
      BY <1>1, <1>2, <2>3 DEF RecordsInv, Covered
    <2> QED
      BY <1>1, <2>4, <2>5, <2>6 DEF RecordsInv
  <1> QED
    BY <1>4, <1>5 DEF EnqueuePlan, IsTail

\* The write transaction of an enqueue: without merges it only adds rows.
LEMMA CommitRecords ==
  ASSUME TypeInv, RecordsInv, NEW p \in Enqueuer, EnqueueCommit(p)
  PROVE  RecordsInv'
  <1> DEFINE plan == enq[p].plan
             n == Len(plan.fresh)
  <1>0. TypeOK /\ enq[p].batch \in SUBSET Event
    BY DEF TypeInv, TypeOK
  <1>1. /\ plan.fresh \in Seq(SUBSET Event) /\ n \in Nat /\ DOMAIN plan.fresh = 1 .. n
        /\ lastJob \in Nat /\ lastJob + n \in 0 .. MaxJobs
    <2>1. plan.fresh \in Seq(SUBSET Event)
      BY <1>0 DEF TypeOK
    <2>2. lastJob \in Nat
      BY <1>0, BoundAssumption DEF TypeOK
    <2>3. n \in Nat /\ DOMAIN plan.fresh = 1 .. n
      BY <2>1
    <2>4. lastJob + n <= MaxJobs
      BY DEF EnqueueCommit
    <2> QED
      BY <2>1, <2>2, <2>3, <2>4, BoundAssumption
  <1>2. /\ enq[p].pc = "planned" /\ \A j \in JobId : plan.accepted[j] = {}
        /\ Union(plan.fresh) \subseteq enq[p].batch
        /\ \A e \in enq[p].batch \ Union(plan.fresh) : Settled(e)
    BY DEF EnqueueCommit, RecordsInv, EnqueuersSound
  <1>3. /\ UNCHANGED <<event, vectors, writer, phase>>
        /\ lastJob' = lastJob + n
        /\ unscheduled' = unscheduled \ enq[p].batch
        /\ \A q \in Enqueuer : enq'[q] = IF q = p THEN IdleEnqueuer ELSE enq[q]
    BY <1>0 DEF EnqueueCommit, TypeOK
  <1>4. ASSUME NEW j \in JobId, IsFresh(plan, j)
        PROVE  jobs'[j].status = "queued" /\ jobs'[j].ids = Batch(plan, j)
    BY <1>4 DEF EnqueueCommit, NewJob
  <1>5. ASSUME NEW j \in JobId, ~IsFresh(plan, j)
        PROVE  jobs'[j] = jobs[j]
    BY <1>2, <1>5 DEF EnqueueCommit
  <1>6. \A j \in JobId : IsFresh(plan, j) <=> j > lastJob /\ j - lastJob \in 1 .. n
    BY <1>1 DEF IsFresh
  <1>7. \A j \in JobId : IsFresh(plan, j) => jobs[j].status = "none" /\ jobs[j].ids = {}
    BY DEF IsFresh, RecordsInv, UnusedRows
  <1> HIDE DEF plan, n
  <1>8. \A e \in Event : Settled(e) => Settled(e)'
    <2> SUFFICES ASSUME NEW e \in Event, Settled(e) PROVE Settled(e)'
      OBVIOUS
    <2>1. ASSUME NEW j \in JobId, Carries(j, e) PROVE Carries(j, e)'
      <3>1. ~IsFresh(plan, j)
        BY <1>7, <2>1 DEF Carries
      <3> QED
        BY <1>5, <2>1, <3>1 DEF Carries
    <2> QED
      BY <1>3, <2>1 DEF Settled, Carried
  <1>9. ASSUME NEW e \in Union(plan.fresh) PROVE Settled(e)'
    <2>1. PICK k \in 1 .. n : e \in plan.fresh[k]
      BY <1>1 DEF Union
    <2>2. PICK j \in JobId : IsFresh(plan, j) /\ Batch(plan, j) = plan.fresh[k]
      <3>1. lastJob + k \in 1 .. MaxJobs /\ lastJob + k > lastJob /\ (lastJob + k) - lastJob = k
        BY <1>1, BoundAssumption
      <3> QED
        BY <1>6, <3>1 DEF JobId, Batch
    <2>3. Carries(j, e)'
      BY <1>4, <2>1, <2>2 DEF Carries, Carrier, ActiveJob, Pending
    <2> QED
      BY <2>3 DEF Settled, Carried
  <1>10. UnusedRows'
    <2> SUFFICES ASSUME NEW j \in JobId, j > lastJob'
                 PROVE  jobs'[j].status = "none" /\ jobs'[j].ids = {}
      BY DEF UnusedRows
    <2>1. j > lastJob /\ ~IsFresh(plan, j)
      BY <1>1, <1>3, <1>6, BoundAssumption DEF JobId
    <2> QED
      BY <1>5, <2>1 DEF RecordsInv, UnusedRows
  <1>11. KnownRecords'
    <2>1. ASSUME NEW j \in JobId, NEW e \in jobs'[j].ids PROVE event'[e] # "absent"
      <3>1. CASE IsFresh(plan, j)
        <4>1. e \in Union(plan.fresh)
          BY <1>1, <1>4, <1>6, <2>1, <3>1 DEF Batch, Union
        <4> QED
          BY <1>2, <1>3, <4>1 DEF RecordsInv, KnownRecords
      <3>2. CASE ~IsFresh(plan, j)
        BY <1>3, <1>5, <2>1, <3>2 DEF RecordsInv, KnownRecords
      <3> QED
        BY <3>1, <3>2
    <2>2. ASSUME NEW q \in Enqueuer, NEW e \in enq'[q].batch PROVE event'[e] # "absent"
      BY <1>3, <2>2, IdleEnqueuerFacts DEF RecordsInv, KnownRecords
    <2> QED
      BY <2>1, <2>2 DEF KnownRecords
  <1>12. EnqueuersSound'
    <2>1. \A q \in Enqueuer : enq[q].batch \in SUBSET Event
      BY <1>0 DEF TypeOK
    <2> QED
      BY <1>3, <1>8, <2>1, IdleEnqueuerFacts DEF RecordsInv, EnqueuersSound
  <1>13. WriterSound'
    <2>1. CASE writer.pc = "idle"
      BY <1>3, <2>1 DEF WriterSound
    <2>2. CASE writer.pc # "idle"
      <3>1. writer.job \in JobId /\ jobs[writer.job].status = "writing"
        BY <2>2 DEF TypeInv, HoldsJob, RecordsInv, WriterSound
      <3>2. jobs'[writer.job] = jobs[writer.job]
        BY <1>5, <1>7, <3>1
      <3> QED
        BY <1>3, <2>2, <3>2 DEF RecordsInv, WriterSound
    <2> QED
      BY <2>1, <2>2
  <1>14. Covered'
    <2> SUFFICES ASSUME NEW e \in Event, event'[e] = "live"
                 PROVE  \/ Settled(e)'
                        \/ e \in unscheduled'
                        \/ \E q \in Enqueuer : e \in enq'[q].batch
      BY DEF Covered
    <2>1. CASE e \in enq[p].batch
      BY <1>2, <1>8, <1>9, <2>1
    <2>2. CASE e \notin enq[p].batch
      BY <1>3, <1>8, <2>2 DEF RecordsInv, Covered
    <2> QED
      BY <2>1, <2>2
  <1> QED
    BY <1>10, <1>11, <1>12, <1>13, <1>14 DEF RecordsInv

LEMMA DeleteRecords ==
  ASSUME TypeInv, RecordsInv, NEW S \in SUBSET Event, DeleteEvents(S)
  PROVE  RecordsInv'
  <1>0. TypeOK
    BY DEF TypeInv
  <1>1. /\ UNCHANGED <<jobs, lastJob, enq, writer, phase, unscheduled>>
        /\ \A e \in Event : event'[e] = IF e \in S THEN "gone" ELSE event[e]
        /\ \A e \in vectors : e \in vectors' \/ e \in S
    BY DEF DeleteEvents
  <1>2. \A e \in Event : Settled(e) => Settled(e)'
    BY <1>1 DEF Settled, Carried, Carries
  <1>3. UnusedRows'
    BY <1>1 DEF RecordsInv, UnusedRows
  <1>4. KnownRecords'
    BY <1>0, <1>1 DEF RecordsInv, KnownRecords, TypeOK, JobRow
  <1>5. EnqueuersSound'
    <2>1. \A q \in Enqueuer : enq[q].batch \in SUBSET Event
      BY <1>0 DEF TypeOK
    <2> QED
      BY <1>1, <1>2, <2>1 DEF RecordsInv, EnqueuersSound
  <1>6. WriterSound'
    <2>1. \A j \in JobId : jobs[j].ids \in SUBSET Event
      BY <1>0 DEF TypeOK, JobRow
    <2>2. writer.ids \in SUBSET Event /\ vectors \in SUBSET Event
      BY <1>0 DEF TypeOK
    <2>3. writer.pc # "idle" => writer.job \in JobId
      BY DEF TypeInv, HoldsJob
    <2> QED
      BY <1>1, <2>1, <2>2, <2>3 DEF RecordsInv, WriterSound
  <1>7. Covered'
    BY <1>0, <1>1, <1>2 DEF RecordsInv, Covered, TypeOK
  <1> QED
    BY <1>3, <1>4, <1>5, <1>6, <1>7 DEF RecordsInv
-----------------------------------------------------------------------------
(***************************************************************************)
(* The writer.                                                             *)
(***************************************************************************)

\* Steps that keep every payload and add vectors: a job may stop carrying its
\* records only when each of them is written or gone.
LEMMA PayloadsKept ==
  ASSUME TypeInv, RecordsInv,
         UNCHANGED <<event, lastJob, enq, unscheduled>>,
         vectors \subseteq vectors',
         \A i \in JobId :
            /\ jobs'[i].ids = jobs[i].ids
            /\ jobs[i].status = "none" => jobs'[i].status = "none"
            /\ jobs[i].status \in Carrier =>
                  \/ jobs'[i].status \in Carrier
                  \/ \A e \in jobs[i].ids : event[e] = "gone" \/ e \in vectors
  PROVE  UnusedRows' /\ KnownRecords' /\ EnqueuersSound' /\ Covered'
  <1>1. \A e : Settled(e) => Settled(e)'
    <2> SUFFICES ASSUME NEW e, Settled(e) PROVE Settled(e)'
      OBVIOUS
    <2>1. ASSUME NEW j \in JobId, Carries(j, e) PROVE Settled(e)'
      <3>1. CASE jobs'[j].status \in Carrier
        BY <2>1, <3>1 DEF Carries, Settled, Carried
      <3>2. CASE event[e] = "gone" \/ e \in vectors
        BY <3>2 DEF Settled
      <3> QED
        BY <2>1, <3>1, <3>2 DEF Carries
    <2> QED
      BY <2>1 DEF Settled, Carried
  <1>2. UnusedRows'
    BY DEF RecordsInv, UnusedRows
  <1>3. KnownRecords'
    BY DEF RecordsInv, KnownRecords
  <1>4. EnqueuersSound'
    BY <1>1 DEF RecordsInv, EnqueuersSound
  <1>5. Covered'
    BY <1>1 DEF RecordsInv, Covered
  <1> QED
    BY <1>2, <1>3, <1>4, <1>5

LEMMA ClaimRecords ==
  ASSUME TypeInv, RecordsInv, NEW j \in JobId, Claim(j)
  PROVE  RecordsInv'
  <1>0. jobs \in [JobId -> JobRow]
    BY DEF TypeInv, TypeOK
  <1>1. /\ \A i \in JobId : jobs'[i].ids = jobs[i].ids
                         /\ jobs'[i].status = IF i = j THEN "writing" ELSE jobs[i].status
        /\ jobs[j].status \in Pending
    BY <1>0 DEF Claim, JobRow, Due
  <1>2. UnusedRows' /\ KnownRecords' /\ EnqueuersSound' /\ Covered'
    <2>1. UNCHANGED <<event, lastJob, enq, unscheduled>> /\ vectors \subseteq vectors'
      BY DEF Claim
    <2> QED
      BY <1>1, <2>1, PayloadsKept DEF Carrier, ActiveJob, Inflight, Pending
  <1>3. WriterSound'
    <2>1. writer'.pc = "claimed" /\ writer'.job = j /\ phase' = "up"
      BY DEF Claim, IdleWriter
    <2> QED
      BY <1>1, <2>1 DEF WriterSound
  <1> QED
    BY <1>2, <1>3 DEF RecordsInv

\* The steps between the claim and the mark, and a mark that raises.
LEMMA ProcessRecords ==
  ASSUME TypeInv, RecordsInv,
         \/ ReadPayload \/ LoadEvents \/ WriteVectors \/ MarkRaises
         \/ \E part \in SUBSET Event, r \in BOOLEAN : ProcessFails(part, r)
         \/ \E r \in BOOLEAN : MarkSucceededFails(r)
  PROVE  RecordsInv'
  <1>0. TypeOK
    BY DEF TypeInv
  <1>1. /\ UNCHANGED <<event, jobs, lastJob, enq, phase, unscheduled>>
        /\ vectors \subseteq vectors'
    BY DEF ReadPayload, LoadEvents, WriteVectors, MarkRaises, ProcessFails, MarkSucceededFails
  <1>2. UnusedRows' /\ KnownRecords' /\ EnqueuersSound' /\ Covered'
    BY <1>1, PayloadsKept
  <1> DEFINE W == writer
  <1>3. /\ writer.pc # "idle" => writer.job \in JobId
        /\ jobs \in [JobId -> JobRow]
        /\ writer \in [pc : {"idle", "claimed", "read", "loaded", "written", "failed"},
                       job : 0 .. MaxJobs, ids : SUBSET Event, loaded : SUBSET Event,
                       retryable : BOOLEAN]
    BY <1>0 DEF TypeInv, HoldsJob, TypeOK
  <1>4. WriterSound
    BY DEF RecordsInv
  <1>5. WriterSound'
    <2>1. CASE ReadPayload
      <3>1. /\ writer.pc = "claimed" /\ writer'.job = writer.job
            /\ writer'.ids = jobs[writer.job].ids
            /\ writer'.pc = IF jobs[writer.job].ids = {} THEN "written" ELSE "read"
        BY <1>3, <2>1 DEF ReadPayload
      <3> QED
        BY <1>1, <1>4, <3>1 DEF WriterSound
    <2>2. CASE LoadEvents
      <3>1. /\ writer.pc = "read" /\ writer'.job = writer.job /\ writer'.ids = writer.ids
            /\ writer'.loaded = writer.ids \intersect Live
            /\ writer'.pc = IF writer.ids \intersect Live = {} THEN "written" ELSE "loaded"
        BY <1>3, <2>2 DEF LoadEvents
      <3>2. writer.ids = jobs[writer.job].ids
        BY <1>4, <3>1 DEF WriterSound
      <3>3. \A e \in writer.ids : e \in Live \/ event[e] = "gone"
        <4>1. \A e \in Event : event[e] \in {"absent", "live", "gone"}
          BY <1>0 DEF TypeOK
        <4>2. writer.job \in JobId /\ writer.ids \subseteq Event
          BY <1>3, <3>1
        <4> QED
          BY <3>2, <4>1, <4>2 DEF RecordsInv, KnownRecords, Live
      <3> QED
        BY <1>1, <1>4, <3>1, <3>2, <3>3 DEF WriterSound
    <2>3. CASE WriteVectors
      <3>1. /\ writer.pc = "loaded" /\ writer'.job = writer.job /\ writer'.pc = "written"
            /\ vectors' = vectors \union writer.loaded
        BY <1>3, <2>3 DEF WriteVectors
      <3> QED
        BY <1>1, <1>4, <3>1 DEF WriterSound
    <2>4. CASE MarkRaises
      BY <2>4 DEF MarkRaises, IdleWriter, WriterSound
    <2>5. ASSUME NEW part \in SUBSET Event, NEW r \in BOOLEAN, ProcessFails(part, r)
          PROVE  WriterSound'
      <3>1. writer.pc \in {"read", "loaded"} /\ writer'.job = writer.job /\ writer'.pc = "failed"
        BY <1>3, <2>5 DEF ProcessFails
      <3> QED
        BY <1>1, <1>4, <3>1 DEF WriterSound
    <2>6. ASSUME NEW r \in BOOLEAN, MarkSucceededFails(r) PROVE WriterSound'
      <3>1. writer.pc = "written" /\ writer'.job = writer.job /\ writer'.pc = "failed"
        BY <1>3, <2>6 DEF MarkSucceededFails
      <3> QED
        BY <1>1, <1>4, <3>1 DEF WriterSound
    <2> QED
      BY <2>1, <2>2, <2>3, <2>4, <2>5, <2>6
  <1> QED
    BY <1>2, <1>5 DEF RecordsInv

\* The marks that keep the job in one row.
LEMMA MarkRecords ==
  ASSUME TypeInv, RecordsInv, MarkSucceeded \/ MarkRetry \/ MarkFailed
  PROVE  RecordsInv'
  <1> DEFINE j == writer.job
  <1>0. jobs \in [JobId -> JobRow]
    BY DEF TypeInv, TypeOK
  <1>1. /\ writer.pc # "idle" /\ writer' = IdleWriter
        /\ UNCHANGED <<event, vectors, lastJob, enq, unscheduled>>
    BY DEF MarkSucceeded, MarkRetry, MarkFailed
  <1>2. j \in JobId /\ jobs[j].status = "writing"
    BY <1>1 DEF TypeInv, HoldsJob, RecordsInv, WriterSound
  <1>3. \A i \in JobId : jobs'[i].ids = jobs[i].ids /\ (i # j => jobs'[i].status = jobs[i].status)
    BY <1>0 DEF MarkSucceeded, MarkRetry, MarkFailed, JobRow
  <1>4. \/ jobs'[j].status \in Carrier
        \/ \A e \in jobs[j].ids : event[e] = "gone" \/ e \in vectors
    <2>1. CASE MarkSucceeded
      BY <2>1 DEF MarkSucceeded, RecordsInv, WriterSound
    <2>2. CASE MarkRetry
      BY <1>0, <1>2, <2>2 DEF MarkRetry, Carrier, ActiveJob, Pending, JobRow
    <2>3. CASE MarkFailed
      BY <1>0, <1>2, <2>3 DEF MarkFailed, Carrier, JobRow
    <2> QED
      BY <2>1, <2>2, <2>3
  <1> HIDE DEF j
  <1>5. UnusedRows' /\ KnownRecords' /\ EnqueuersSound' /\ Covered'
    <2>1. \A i \in JobId :
            /\ jobs'[i].ids = jobs[i].ids
            /\ jobs[i].status = "none" => jobs'[i].status = "none"
            /\ jobs[i].status \in Carrier =>
                  \/ jobs'[i].status \in Carrier
                  \/ \A e \in jobs[i].ids : event[e] = "gone" \/ e \in vectors
      BY <1>2, <1>3, <1>4
    <2> QED
      BY <1>1, <2>1, PayloadsKept
  <1>6. WriterSound'
    BY <1>1 DEF WriterSound, IdleWriter
  <1> QED
    BY <1>5, <1>6 DEF RecordsInv

\* The two halves of a split batch carry all its records on.
LEMMA SplitRecords ==
  ASSUME TypeInv, RecordsInv, MarkSplit
  PROVE  RecordsInv'
  <1> DEFINE j == writer.job
             c1 == lastJob + 1
             c2 == lastJob + 2
             ids == jobs[j].ids
  <1>0. jobs \in [JobId -> JobRow] /\ lastJob \in Nat
    BY BoundAssumption DEF TypeInv, TypeOK
  <1>1. /\ writer.pc # "idle" /\ writer' = IdleWriter /\ lastJob' = c2
        /\ UNCHANGED <<event, vectors, enq, unscheduled>>
    BY DEF MarkSplit
  <1>2. c1 \in JobId /\ c2 \in JobId /\ c1 # c2 /\ c1 > lastJob /\ c2 > lastJob
    BY <1>0, BoundAssumption DEF MarkSplit, JobId
  <1>3. j \in JobId /\ jobs[j].status = "writing"
    BY <1>1 DEF TypeInv, HoldsJob, RecordsInv, WriterSound
  <1>4. \A c \in {c1, c2} : jobs[c].status = "none"
    BY <1>2 DEF RecordsInv, UnusedRows
  <1>5. PICK A \in Half(ids) :
           /\ jobs'[c1].status = "retry" /\ jobs'[c1].ids = A
           /\ jobs'[c2].status = "retry" /\ jobs'[c2].ids = ids \ A
           /\ \A i \in JobId \ {c1, c2} : jobs'[i].ids = jobs[i].ids
                                       /\ (i # j => jobs'[i].status = jobs[i].status)
    <2>1. PICK A \in Half(ids) :
            LET half == [c \in {c1, c2} |-> IF c = c1 THEN A ELSE ids \ A]
            IN  jobs' = [i \in JobId |->
                   CASE i \in {c1, c2} ->
                           NewJob("retry", half[i], jobs[j].attempts, TRUE, jobs[j].origin)
                     [] i = j -> [jobs[j] EXCEPT !.status = "succeeded"]
                     [] OTHER -> jobs[i]]
      BY DEF MarkSplit
    <2> DEFINE half == [c \in {c1, c2} |-> IF c = c1 THEN A ELSE ids \ A]
    <2>6. half[c1] = A /\ half[c2] = ids \ A
      BY <1>2
    <2>7. \A i \in {c1, c2} :
             jobs'[i] = NewJob("retry", half[i], jobs[j].attempts, TRUE, jobs[j].origin)
      <3>1. j \notin {c1, c2}
        BY <1>3, <1>4
      <3> QED
        BY <1>2, <2>1, <3>1
    <2> HIDE DEF half
    <2>2. jobs'[c1] = NewJob("retry", A, jobs[j].attempts, TRUE, jobs[j].origin)
      BY <2>6, <2>7
    <2>3. jobs'[c2] = NewJob("retry", ids \ A, jobs[j].attempts, TRUE, jobs[j].origin)
      BY <2>6, <2>7
    <2>4. \A i \in JobId \ {c1, c2} :
             jobs'[i] = IF i = j THEN [jobs[j] EXCEPT !.status = "succeeded"] ELSE jobs[i]
      BY <2>1
    <2>5. \A i \in JobId \ {c1, c2} : jobs'[i].ids = jobs[i].ids
                                   /\ (i # j => jobs'[i].status = jobs[i].status)
      BY <1>0, <1>3, <2>4 DEF JobRow
    <2> QED
      BY <2>2, <2>3, <2>5 DEF NewJob
  <1>6. ids \in SUBSET Event /\ A \subseteq ids
    BY <1>0, <1>3 DEF Half, JobRow
  <1> HIDE DEF j, ids
  <1>7. \A e \in Event : Settled(e) => Settled(e)'
    <2> SUFFICES ASSUME NEW e \in Event, Settled(e) PROVE Settled(e)'
      OBVIOUS
    <2>1. ASSUME NEW i \in JobId, Carries(i, e) PROVE Carried(e)'
      <3>1. CASE i = j
        <4>1. e \in jobs'[c1].ids \/ e \in jobs'[c2].ids
          BY <1>5, <2>1, <3>1 DEF Carries, ids
        <4> QED
          BY <1>2, <1>5, <4>1 DEF Carried, Carries, Carrier, ActiveJob, Pending
      <3>2. CASE i # j
        <4>1. i \notin {c1, c2}
          BY <1>4, <2>1 DEF Carries, Carrier, ActiveJob, Pending, Inflight
        <4> QED
          BY <1>5, <2>1, <3>2, <4>1 DEF Carried, Carries
      <3> QED
        BY <3>1, <3>2
    <2> QED
      BY <1>1, <2>1 DEF Settled, Carried
  <1>8. UnusedRows'
    <2> SUFFICES ASSUME NEW i \in JobId, i > lastJob'
                 PROVE  jobs'[i].status = "none" /\ jobs'[i].ids = {}
      BY DEF UnusedRows
    <2>1. i > lastJob /\ i \notin {c1, c2}
      BY <1>0, <1>1, BoundAssumption DEF JobId
    <2>2. jobs[i].status = "none" /\ jobs[i].ids = {}
      BY <2>1 DEF RecordsInv, UnusedRows
    <2> QED
      BY <1>3, <1>5, <2>1, <2>2
  <1>9. KnownRecords'
    <2>1. ASSUME NEW i \in JobId, NEW e \in jobs'[i].ids PROVE event'[e] # "absent"
      <3>1. CASE i \in {c1, c2}
        <4>1. e \in ids
          BY <1>5, <1>6, <2>1, <3>1
        <4> QED
          BY <1>1, <1>3, <4>1 DEF RecordsInv, KnownRecords, ids
      <3>2. CASE i \notin {c1, c2}
        BY <1>1, <1>5, <2>1, <3>2 DEF RecordsInv, KnownRecords
      <3> QED
        BY <3>1, <3>2
    <2> QED
      BY <1>1, <2>1 DEF RecordsInv, KnownRecords
  <1>10. EnqueuersSound'
    <2>1. \A q \in Enqueuer : enq[q].batch \in SUBSET Event
      BY DEF TypeInv, TypeOK
    <2> QED
      BY <1>1, <1>7, <2>1 DEF RecordsInv, EnqueuersSound
  <1>11. WriterSound'
    BY <1>1 DEF WriterSound, IdleWriter
  <1>12. Covered'
    BY <1>1, <1>7 DEF RecordsInv, Covered
  <1> QED
    BY <1>8, <1>9, <1>10, <1>11, <1>12 DEF RecordsInv
-----------------------------------------------------------------------------
(***************************************************************************)
(* Deletion of the writer's and the workers' state, recovery and the       *)
(* startup reconciliation.                                                 *)
(***************************************************************************)

LEMMA CrashRecords ==
  ASSUME TypeInv, RecordsInv, NEW part \in SUBSET Event, Crash(part)
  PROVE  RecordsInv'
  <1>1. /\ UNCHANGED <<event, jobs, lastJob>> /\ vectors \subseteq vectors'
        /\ unscheduled' = unscheduled \union UNION {enq[p].batch : p \in Enqueuer}
        /\ enq' = [p \in Enqueuer |-> IdleEnqueuer]
        /\ writer' = IdleWriter
    BY DEF Crash
  <1>2. \A e : Settled(e) => Settled(e)'
    BY <1>1 DEF Settled, Carried, Carries
  <1>3. UnusedRows' /\ WriterSound'
    BY <1>1 DEF RecordsInv, UnusedRows, WriterSound, IdleWriter
  <1>4. KnownRecords' /\ EnqueuersSound'
    BY <1>1, IdleEnqueuerFacts DEF RecordsInv, KnownRecords, EnqueuersSound
  <1>5. Covered'
    BY <1>1, <1>2 DEF RecordsInv, Covered
  <1> QED
    BY <1>3, <1>4, <1>5 DEF RecordsInv

\* The startup trim keeps a record in the oldest active job that carries it.
LEMMA OldestActiveJob ==
  ASSUME NEW e, e \in PayloadsOf(ActiveJob)
  PROVE  \E m \in Jobs(ActiveJob) :
            /\ e \in jobs[m].ids
            /\ \A i \in Jobs(ActiveJob) : i < m => e \notin jobs[i].ids
  <1> DEFINE T == {j \in Jobs(ActiveJob) : e \in jobs[j].ids}
             R == OpToRel(<, Nat)
  <1>1. T \subseteq Nat /\ T # {}
    BY BoundAssumption DEF PayloadsOf, Jobs, JobId
  <1>2. IsWellFoundedOn(R, Nat)
    BY NatLessThanWellFounded
  <1>3. \A x, y \in Nat : y < x => <<y, x>> \in R
    BY DEF OpToRel
  <1> HIDE DEF R
  <1>4. PICK m \in T : \A i \in T : ~ (<<i, m>> \in R)
    BY <1>1, <1>2, WFMin
  <1> QED
    BY <1>1, <1>3, <1>4

LEMMA ReconcileRecords ==
  ASSUME TypeInv, RecordsInv, NEW readable \in BOOLEAN, Reconcile(readable)
  PROVE  RecordsInv'
  <1> DEFINE missing == IF readable THEN Live \ vectors ELSE Live
             todo == missing \ PayloadsOf(ActiveJob)
  <1>0. jobs \in [JobId -> JobRow] /\ lastJob \in Nat /\ Live \subseteq Event
    BY BoundAssumption DEF TypeInv, TypeOK, Live
  <1>1. /\ UNCHANGED <<event, vectors, enq, writer>> /\ unscheduled' = {} /\ phase = "recovered"
    BY DEF Reconcile
  <1>2. PICK fresh \in Batchings(todo, ReconcileBatch) :
          LET n == Len(fresh)
              created(j) == j > lastJob /\ j - lastJob \in DOMAIN fresh
          IN  /\ lastJob + n <= MaxJobs
              /\ jobs' = [j \in JobId |->
                    IF created(j)
                    THEN NewJob("queued", fresh[j - lastJob], 0, TRUE, "reconcile")
                    ELSE IF jobs[j].status \in Pending /\ Kept(j, missing) # jobs[j].ids
                    THEN [jobs[j] EXCEPT !.ids = Kept(j, missing),
                                         !.status = IF Kept(j, missing) = {}
                                                    THEN "succeeded" ELSE @]
                    ELSE jobs[j]]
              /\ lastJob' = lastJob + n
    BY DEF Reconcile
  <1> DEFINE n == Len(fresh)
             created(j) == j > lastJob /\ j - lastJob \in 1 .. n
  <1>3. /\ n \in Nat /\ DOMAIN fresh = 1 .. n /\ Union(fresh) = todo
        /\ lastJob + n <= MaxJobs /\ lastJob' = lastJob + n
    <2>1. todo \in SUBSET Event /\ ReconcileBatch \in Nat \ {0}
      BY <1>0, BatchAssumption
    <2> QED
      BY <1>2, <2>1, BatchingsType
  <1>4. ASSUME NEW j \in JobId, created(j)
        PROVE  jobs'[j].status = "queued" /\ jobs'[j].ids = fresh[j - lastJob]
    BY <1>2, <1>3, <1>4 DEF NewJob
  <1>5. ASSUME NEW j \in JobId, ~created(j)
        PROVE  jobs'[j] = IF jobs[j].status \in Pending /\ Kept(j, missing) # jobs[j].ids
                          THEN [jobs[j] EXCEPT !.ids = Kept(j, missing),
                                               !.status = IF Kept(j, missing) = {}
                                                          THEN "succeeded" ELSE @]
                          ELSE jobs[j]
    BY <1>2, <1>3, <1>5
  <1>6. \A j \in JobId : created(j) => jobs[j].status = "none" /\ jobs[j].ids = {}
    BY DEF RecordsInv, UnusedRows
  <1> HIDE DEF missing, todo, n, created
  <1>7. ASSUME NEW j \in JobId, ~created(j)
        PROVE  /\ jobs'[j].ids \subseteq jobs[j].ids
               /\ jobs[j].status \notin Pending => jobs'[j] = jobs[j]
               /\ \A e \in Kept(j, missing) : jobs[j].status \in Pending =>
                      e \in jobs'[j].ids /\ jobs'[j].status = jobs[j].status
    <2>1. jobs[j] \in JobRow
      BY <1>0
    <2>2. Kept(j, missing) \subseteq jobs[j].ids
      BY DEF Kept
    <2>3. CASE jobs[j].status \in Pending /\ Kept(j, missing) # jobs[j].ids
      <3>1. /\ jobs'[j].ids = Kept(j, missing)
            /\ jobs'[j].status = IF Kept(j, missing) = {} THEN "succeeded" ELSE jobs[j].status
        BY <1>5, <1>7, <2>1, <2>3 DEF JobRow
      <3> QED
        BY <2>2, <2>3, <3>1
    <2>4. CASE ~(jobs[j].status \in Pending /\ Kept(j, missing) # jobs[j].ids)
      <3>1. jobs'[j] = jobs[j]
        BY <1>5, <1>7, <2>4
      <3> QED
        BY <2>2, <2>4, <3>1
    <2> QED
      BY <2>3, <2>4
  <1>8. ASSUME NEW e \in missing, e \in PayloadsOf(ActiveJob) PROVE Carried(e)'
    <2>1. PICK m \in Jobs(ActiveJob) :
            /\ e \in jobs[m].ids
            /\ \A i \in Jobs(ActiveJob) : i < m => e \notin jobs[i].ids
      BY <1>8, OldestActiveJob
    <2>2. m \in JobId /\ jobs[m].status \in ActiveJob /\ e \in Kept(m, missing)
      BY <2>1 DEF Jobs, Kept
    <2>3. ~created(m)
      BY <1>6, <2>2 DEF ActiveJob, Pending, Inflight
    <2>4. e \in jobs'[m].ids /\ jobs'[m].status = jobs[m].status
      BY <1>7, <2>1, <2>2, <2>3
    <2> QED
      BY <2>2, <2>4 DEF Carried, Carries, Carrier
  <1>9. ASSUME NEW e \in todo PROVE Carried(e)'
    <2>1. PICK k \in 1 .. n : e \in fresh[k]
      BY <1>3 DEF Union
    <2>2. PICK j \in JobId : created(j) /\ j - lastJob = k
      <3>1. lastJob + k \in JobId /\ lastJob + k > lastJob /\ (lastJob + k) - lastJob = k
        BY <1>0, <1>3, BoundAssumption DEF JobId
      <3> QED
        BY <3>1 DEF created
    <2>3. jobs'[j].status = "queued" /\ e \in jobs'[j].ids
      BY <1>4, <2>1, <2>2
    <2> QED
      BY <2>3 DEF Carried, Carries, Carrier, ActiveJob, Pending
  <1>10. \A e \in missing : Carried(e)'
    BY <1>8, <1>9 DEF todo
  <1>11. \A e \in Event : event[e] = "live" => e \in missing \/ e \in vectors
    BY DEF missing, Live
  <1>12. ASSUME NEW e \in Event, event[e] # "absent", Settled(e) PROVE Settled(e)'
    <2>1. event[e] \in {"live", "gone"}
      BY <1>12 DEF TypeInv, TypeOK
    <2> QED
      BY <1>1, <1>10, <1>11, <2>1 DEF Settled
  <1>13. UnusedRows'
    <2> SUFFICES ASSUME NEW j \in JobId, j > lastJob'
                 PROVE  jobs'[j].status = "none" /\ jobs'[j].ids = {}
      BY DEF UnusedRows
    <2>1. j > lastJob /\ ~created(j)
      BY <1>0, <1>3, BoundAssumption DEF JobId, created
    <2>2. jobs[j].status = "none" /\ jobs[j].ids = {}
      BY <2>1 DEF RecordsInv, UnusedRows
    <2>3. jobs'[j] = jobs[j]
      BY <1>7, <2>1, <2>2 DEF Pending
    <2> QED
      BY <2>2, <2>3
  <1>14. KnownRecords'
    <2>1. ASSUME NEW j \in JobId, NEW e \in jobs'[j].ids PROVE event'[e] # "absent"
      <3>1. CASE created(j)
        <4>1. e \in Union(fresh)
          BY <1>3, <1>4, <2>1, <3>1 DEF created, Union
        <4>2. event[e] = "live"
          BY <1>3, <4>1 DEF todo, missing, Live
        <4> QED
          BY <1>1, <4>2
      <3>2. CASE ~created(j)
        BY <1>1, <1>7, <2>1, <3>2 DEF RecordsInv, KnownRecords
      <3> QED
        BY <3>1, <3>2
    <2> QED
      BY <1>1, <2>1 DEF RecordsInv, KnownRecords
  <1>15. EnqueuersSound'
    <2>1. \A q \in Enqueuer : \A e \in enq[q].batch : e \in Event /\ event[e] # "absent"
      BY DEF TypeInv, TypeOK, RecordsInv, KnownRecords
    <2> QED
      BY <1>1, <1>12, <2>1 DEF RecordsInv, EnqueuersSound
  <1>16. WriterSound'
    BY <1>1 DEF RecordsInv, WriterSound
  <1>17. Covered'
    BY <1>1, <1>10, <1>11 DEF Covered, Settled
  <1> QED
    BY <1>13, <1>14, <1>15, <1>16, <1>17 DEF RecordsInv

LEMMA LifecycleRecords ==
  ASSUME TypeInv, RecordsInv,
         (\E j \in JobId : BecomesDue(j)) \/ (\E part \in SUBSET Event : Crash(part)) \/ Start
  PROVE  RecordsInv'
  <1>0. jobs \in [JobId -> JobRow]
    BY DEF TypeInv, TypeOK
  <1>1. ASSUME NEW j \in JobId, BecomesDue(j) PROVE RecordsInv'
    <2>1. \A i \in JobId : jobs'[i].ids = jobs[i].ids /\ jobs'[i].status = jobs[i].status
      BY <1>0, <1>1 DEF BecomesDue, JobRow
    <2>2. UnusedRows' /\ KnownRecords' /\ EnqueuersSound' /\ Covered'
      BY <1>1, <2>1, PayloadsKept DEF BecomesDue
    <2>3. WriterSound'
      BY <1>1, <2>1 DEF BecomesDue, TypeInv, HoldsJob, RecordsInv, WriterSound
    <2> QED
      BY <2>2, <2>3 DEF RecordsInv
  <1>2. CASE RecoverRunning
    <2>1. \A i \in JobId :
            /\ jobs'[i].ids = jobs[i].ids
            /\ jobs'[i].status = IF jobs[i].status \in Inflight THEN "retry" ELSE jobs[i].status
      BY <1>0, <1>2 DEF RecoverRunning, Recovered, JobRow
    <2>2. UnusedRows' /\ KnownRecords' /\ EnqueuersSound' /\ Covered'
      <3>1. UNCHANGED <<event, lastJob, enq, unscheduled>> /\ vectors \subseteq vectors'
        BY <1>2 DEF RecoverRunning
      <3> QED
        BY <2>1, <3>1, PayloadsKept DEF Carrier, ActiveJob, Pending, Inflight
    <2>3. WriterSound'
      BY <1>2 DEF RecoverRunning, RecordsInv, WriterSound
    <2> QED
      BY <2>2, <2>3 DEF RecordsInv
  <1>3. CASE StartUnreconciled
    <2>1. UnusedRows' /\ KnownRecords' /\ EnqueuersSound' /\ Covered'
      BY <1>3, PayloadsKept DEF StartUnreconciled
    <2>2. WriterSound'
      BY <1>3 DEF StartUnreconciled, RecordsInv, WriterSound
    <2> QED
      BY <2>1, <2>2 DEF RecordsInv
  <1> QED
    BY <1>1, <1>2, <1>3, CrashRecords, ReconcileRecords DEF Start

\* Every step keeps the invariant.
LEMMA RecordsStep ==
  ASSUME TailFlush = FALSE
  PROVE  TypeInv /\ RecordsInv /\ [Next]_vars => RecordsInv'
  <1> SUFFICES ASSUME TypeInv, RecordsInv, [Next]_vars PROVE RecordsInv'
    OBVIOUS
  <1>1. CASE EnqueuerNext
    BY <1>1, SaveRecords, RefusedRecords, PlanRecords, CommitRecords, DeleteRecords
       DEF EnqueuerNext
  <1>2. CASE WriterStep
    BY <1>2, ClaimRecords, ProcessRecords, MarkRecords, SplitRecords DEF WriterStep
  <1>3. CASE UNCHANGED vars
    <2>1. UnusedRows' /\ KnownRecords' /\ EnqueuersSound' /\ Covered'
      BY <1>3, PayloadsKept DEF vars
    <2>2. WriterSound'
      BY <1>3 DEF vars, RecordsInv, WriterSound
    <2> QED
      BY <2>1, <2>2 DEF RecordsInv
  <1> QED
    BY <1>1, <1>2, <1>3, LifecycleRecords DEF Next

\* With the tail flush off, every live record without a vector stays accounted
\* for, whatever interleaving of enqueues, splits, retries, deletions, stops
\* and startup reconciliations the process goes through.
THEOREM RecordsAccountedFor ==
  ASSUME TailFlush = FALSE
  PROVE  Spec => []NoRecordForgotten
  <1>1. TypeInv /\ RecordsInv => NoRecordForgotten
    BY CoveredSuffices DEF TypeInv, RecordsInv
  <1>2. Spec => []TypeInv
    BY TypeCorrect DEF TypeInv
  <1> QED
    BY <1>1, <1>2, RecordsInit, RecordsStep, PTL DEF Spec
-----------------------------------------------------------------------------
(***************************************************************************)
(* Rows keep their work.                                                   *)
(***************************************************************************)

\* What a step may do to the rows it finds.
RowsKept ==
    \A j \in JobId :
        /\ jobs[j].status \in Inflight /\ jobs'[j].status \in Inflight
              => jobs'[j].ids = jobs[j].ids
        /\ jobs[j].status \in Terminal => jobs'[j].status = jobs[j].status

\* Only pending rows, unused ones and the row the writer holds change.
LEMMA RowsKeptBy ==
  ASSUME NEW k, k \in JobId => jobs[k].status \in Inflight,
         \A j \in JobId : j # k => \/ jobs[j].status \in Pending \union {"none"}
                                   \/ jobs'[j].ids = jobs[j].ids /\ jobs'[j].status = jobs[j].status,
         k \in JobId => jobs'[k].ids = jobs[k].ids
  PROVE  RowsKept
  BY DEF RowsKept, Inflight, Terminal, Pending

\* No step rewrites a row in flight or makes a finished row active, when no tail is merged.
LEMMA StepKeepsRows ==
  ASSUME TypeInv, RecordsInv, Next
  PROVE  RowsKept
  <1> DEFINE Keeps(j) == jobs'[j].ids = jobs[j].ids /\ jobs'[j].status = jobs[j].status
  <1>1. jobs \in [JobId -> JobRow] /\ UnusedRows
    BY DEF TypeInv, TypeOK, RecordsInv
  <1>2. ASSUME writer.pc # "idle" PROVE writer.job \in JobId /\ jobs[writer.job].status \in Inflight
    BY <1>2 DEF TypeInv, HoldsJob, RecordsInv, WriterSound, Inflight
  <1>3. CASE jobs' = jobs
    BY <1>3 DEF RowsKept
  <1>4. ASSUME NEW p \in Enqueuer, EnqueueCommit(p) PROVE RowsKept
    <2> DEFINE plan == enq[p].plan
    <2>1. \A j \in JobId : plan.accepted[j] = {}
      BY DEF RecordsInv, EnqueuersSound
    <2>2. \A j \in JobId : IsFresh(plan, j) => jobs[j].status = "none"
      BY <1>1 DEF UnusedRows, IsFresh
    <2>3. \A j \in JobId : ~IsFresh(plan, j) => Keeps(j)
      BY <1>4, <2>1 DEF EnqueueCommit
    <2> QED
      BY <2>2, <2>3 DEF RowsKept, Inflight, Terminal
  <1>5. ASSUME NEW j \in JobId, BecomesDue(j) \/ Claim(j) PROVE RowsKept
    <2>1. jobs[j].status \in Pending /\ \A i \in JobId : i # j => Keeps(i)
      BY <1>1, <1>5 DEF BecomesDue, Claim, Due
    <2> QED
      BY <2>1 DEF RowsKept, Pending, Inflight, Terminal
  <1>6. CASE MarkSucceeded \/ MarkRetry \/ MarkFailed
    <2>1. writer.job \in JobId /\ jobs[writer.job].status \in Inflight
      BY <1>2, <1>6 DEF MarkSucceeded, MarkRetry, MarkFailed
    <2>2. jobs'[writer.job].status \notin Inflight /\ \A i \in JobId : i # writer.job => Keeps(i)
      BY <1>1, <1>6, <2>1 DEF MarkSucceeded, MarkRetry, MarkFailed, JobRow, Inflight
    <2> QED
      BY <2>1, <2>2 DEF RowsKept, Inflight, Terminal
  <1>7. CASE MarkSplit
    <2> DEFINE c1 == lastJob + 1
               c2 == lastJob + 2
               j == writer.job
    <2>1. j \in JobId /\ jobs[j].status \in Inflight
      BY <1>2, <1>7 DEF MarkSplit
    <2>2. c1 > lastJob /\ c2 > lastJob
      BY BoundAssumption DEF TypeInv, TypeOK
    <2>3. \A i \in JobId : i \in {c1, c2} => jobs[i].status = "none"
      BY <1>1, <2>2 DEF UnusedRows
    <2>4. \A i \in JobId \ {c1, c2, j} : jobs'[i] = jobs[i]
      BY <1>7 DEF MarkSplit
    <2>5. jobs'[j].status = "succeeded"
      <3>1. j \notin {c1, c2}
        BY <2>1, <2>3 DEF Inflight
      <3>2. jobs'[j] = [jobs[j] EXCEPT !.status = "succeeded"]
        BY <1>7, <2>1, <3>1 DEF MarkSplit
      <3> QED
        BY <1>1, <2>1, <3>2 DEF JobRow
    <2> QED
      BY <2>1, <2>3, <2>4, <2>5 DEF RowsKept, Inflight, Terminal
  <1>8. CASE RecoverRunning
    <2>1. \A i \in JobId : jobs'[i] = IF jobs[i].status \in Inflight
                                      THEN [jobs[i] EXCEPT !.status = "retry", !.due = TRUE] ELSE jobs[i]
      BY <1>8 DEF RecoverRunning, Recovered
    <2>2. \A i \in JobId : jobs[i].status \in Inflight => jobs'[i].status = "retry"
      BY <1>1, <2>1 DEF JobRow
    <2> QED
      BY <2>1, <2>2 DEF RowsKept, Inflight, Terminal
  <1>9. ASSUME NEW r \in BOOLEAN, Reconcile(r) PROVE RowsKept
    <2>1. \A i \in JobId : \/ i > lastJob \/ jobs[i].status \in Pending \/ jobs'[i] = jobs[i]
      BY <1>9 DEF Reconcile
    <2> QED
      BY <1>1, <2>1 DEF UnusedRows, RowsKept, Inflight, Terminal, Pending
  <1> QED
    BY <1>3, <1>4, <1>5, <1>6, <1>7, <1>8, <1>9
      DEF Next, EnqueuerNext, WriterStep, Start, SaveEvents, EnqueueRefused, EnqueuePlan, DeleteEvents,
          ReadPayload, LoadEvents, WriteVectors, ProcessFails, MarkSucceededFails, MarkRaises,
          Crash, StartUnreconciled

\* RowsKeepTheirWork: with the tail flush off, no enqueue, split, stop or startup changes
\* the payload of a job whose write is in flight, or makes a finished job active again
\* (_plan_pending_event_deduplication, _claim_batch, _recover_running).
THEOREM RowsKeep ==
  ASSUME TailFlush = FALSE
  PROVE  Spec => RowsKeepTheirWork
  <1>1. Spec => []TypeInv
    BY TypeCorrect DEF TypeInv
  <1>2. Spec => []RecordsInv
    BY <1>1, RecordsInit, RecordsStep, PTL DEF Spec
  <1>3. TypeInv /\ RecordsInv /\ [Next]_vars =>
          /\ [\A j \in JobId : jobs[j].status \in Inflight /\ jobs'[j].status \in Inflight
                 => jobs'[j].ids = jobs[j].ids]_vars
          /\ [\A j \in JobId : jobs[j].status \in Terminal => jobs'[j].status = jobs[j].status]_vars
    BY StepKeepsRows DEF RowsKept
  <1>4. Spec => RunningJobImmutable
    BY <1>1, <1>2, <1>3, PTL DEF Spec, RunningJobImmutable
  <1>5. Spec => TerminalIsFinal
    BY <1>1, <1>2, <1>3, PTL DEF Spec, TerminalIsFinal
  <1> QED
    BY <1>4, <1>5 DEF RowsKeepTheirWork

-----------------------------------------------------------------------------
(***************************************************************************)
(* Row numbers: what the next two theorems need of every build, with the   *)
(* tail flush on or off.                                                   *)
(***************************************************************************)

\* No row beyond the last number is used, planned for or held.
LaidOut ==
    /\ UnusedRows
    /\ \A p \in Enqueuer : \A j \in JobId : enq[p].plan.accepted[j] # {} => j <= lastJob
    /\ writer.pc # "idle" => writer.job <= lastJob

\* The rows after a split: two children beyond the last number, the parent done.
LEMMA SplitRows ==
  ASSUME TypeInv, LaidOut, MarkSplit
  PROVE  LET j == writer.job
             Child(S) == NewJob("retry", S, jobs[j].attempts, TRUE, jobs[j].origin)
         IN  /\ j \in JobId /\ j <= lastJob /\ lastJob + 1 \in JobId /\ lastJob + 2 \in JobId
             /\ lastJob' = lastJob + 2
             /\ \E A \in Half(jobs[j].ids) :
                  /\ jobs'[lastJob + 1] = Child(A)
                  /\ jobs'[lastJob + 2] = Child(jobs[j].ids \ A)
             /\ \A i \in JobId \ {lastJob + 1, lastJob + 2} :
                  jobs'[i] = IF i = j THEN [jobs[j] EXCEPT !.status = "succeeded"] ELSE jobs[i]
  <1> DEFINE j == writer.job
             c1 == lastJob + 1
             c2 == lastJob + 2
             half(A) == [c \in {c1, c2} |-> IF c = c1 THEN A ELSE jobs[j].ids \ A]
  <1>1. j \in JobId /\ j <= lastJob /\ lastJob \in Nat /\ MaxJobs \in Nat
    BY BoundAssumption DEF MarkSplit, TypeInv, TypeOK, HoldsJob, LaidOut
  <1>2. c1 \in JobId /\ c2 \in JobId /\ c1 # c2 /\ j \notin {c1, c2} /\ lastJob' = c2
    BY <1>1 DEF MarkSplit, JobId
  <1>3. PICK A \in Half(jobs[j].ids) : jobs' = [i \in JobId |->
                   CASE i \in {c1, c2} ->
                           NewJob("retry", half(A)[i], jobs[j].attempts, TRUE, jobs[j].origin)
                     [] i = j -> [jobs[j] EXCEPT !.status = "succeeded"]
                     [] OTHER -> jobs[i]]
    BY DEF MarkSplit
  <1>4. half(A)[c1] = A /\ half(A)[c2] = jobs[j].ids \ A
    BY <1>2
  <1>5. \A i \in {c1, c2} : jobs'[i] = NewJob("retry", half(A)[i], jobs[j].attempts, TRUE, jobs[j].origin)
    BY <1>2, <1>3
  <1>6. \A i \in JobId \ {c1, c2} :
           jobs'[i] = IF i = j THEN [jobs[j] EXCEPT !.status = "succeeded"] ELSE jobs[i]
    BY <1>3
  <1> QED
    BY <1>1, <1>2, <1>4, <1>5, <1>6

\* The rows after the write transaction of an enqueue.
LEMMA CommitRows ==
  ASSUME TypeInv, LaidOut, NEW p \in Enqueuer, EnqueueCommit(p)
  PROVE  LET plan == enq[p].plan
         IN  /\ plan \in PlanType
             /\ lastJob' \in Nat /\ lastJob <= lastJob' /\ lastJob' = lastJob + Len(plan.fresh)
             /\ \A j \in JobId :
                  IF lastJob < j /\ j <= lastJob'
                  THEN /\ j - lastJob \in DOMAIN plan.fresh
                       /\ \E d \in BOOLEAN : jobs'[j] = NewJob("queued", plan.fresh[j - lastJob], 0, d, "ingest")
                  ELSE IF plan.accepted[j] # {}
                  THEN \E d \in BOOLEAN :
                         jobs'[j] = [jobs[j] EXCEPT !.ids = plan.payload[j],
                                                    !.count = Cardinality(plan.payload[j]), !.due = d]
                  ELSE jobs'[j] = jobs[j]
  <1> DEFINE plan == enq[p].plan
             n == Len(plan.fresh)
  <1>1. plan \in PlanType /\ lastJob \in Nat /\ jobs \in [JobId -> JobRow]
    BY BoundAssumption DEF TypeInv, TypeOK, PlanType
  <1>2. n \in Nat /\ DOMAIN plan.fresh = 1 .. n /\ plan.tail \in BOOLEAN
    BY <1>1 DEF PlanType
  <1>3. lastJob' = lastJob + n
    BY DEF EnqueueCommit
  <1>4. \A j \in JobId : IsFresh(plan, j) <=> lastJob < j /\ j <= lastJob'
    <2> SUFFICES ASSUME NEW j \in JobId PROVE IsFresh(plan, j) <=> lastJob < j /\ j <= lastJob + n
      BY <1>3
    <2>1. j \in Int
      BY DEF JobId
    <2> HIDE DEF plan, n
    <2> QED
      BY <1>1, <1>2, <2>1 DEF IsFresh, n
  <1>5. ASSUME NEW j \in JobId, IsFresh(plan, j)
        PROVE  \E d \in BOOLEAN : jobs'[j] = NewJob("queued", plan.fresh[j - lastJob], 0, d, "ingest")
    <2>1. jobs'[j] = NewJob("queued", Batch(plan, j), 0, ~DelayedTail(plan, j), "ingest")
      BY <1>5 DEF EnqueueCommit
    <2> QED
      BY <2>1 DEF Batch
  <1>6. ASSUME NEW j \in JobId, ~IsFresh(plan, j), plan.accepted[j] # {}
        PROVE  \E d \in BOOLEAN :
                  jobs'[j] = [jobs[j] EXCEPT !.ids = plan.payload[j],
                                             !.count = Cardinality(plan.payload[j]), !.due = d]
    <2> DEFINE d == IF Cardinality(plan.payload[j]) >= BatchSize THEN TRUE ELSE jobs[j].due
    <2>1. jobs'[j] = [jobs[j] EXCEPT !.ids = plan.payload[j],
                                     !.count = Cardinality(plan.payload[j]), !.due = d]
      BY <1>6 DEF EnqueueCommit
    <2>2. d \in BOOLEAN
      BY <1>1 DEF JobRow
    <2> HIDE DEF d
    <2> QED
      BY <2>1, <2>2
  <1>7. ASSUME NEW j \in JobId, ~IsFresh(plan, j), plan.accepted[j] = {}
        PROVE  jobs'[j] = jobs[j]
    BY <1>7 DEF EnqueueCommit
  <1>8. \A j \in JobId : IsFresh(plan, j) => j - lastJob \in DOMAIN plan.fresh
    BY DEF IsFresh
  <1>9. lastJob' \in Nat /\ lastJob <= lastJob' /\ lastJob' = lastJob + n
    BY <1>1, <1>2, <1>3
  <1> HIDE DEF plan
  <1> QED
    BY <1>1, <1>4, <1>5, <1>6, <1>7, <1>8, <1>9 DEF plan

\* The rows after the reconciliation of a start.
LEMMA ReconcileRows ==
  ASSUME TypeInv, LaidOut, NEW r \in BOOLEAN, Reconcile(r)
  PROVE  /\ lastJob' \in Nat /\ lastJob <= lastJob'
         /\ \A j \in JobId :
              \/ /\ lastJob < j /\ j <= lastJob'
                 /\ \E S \in SUBSET Event : /\ Cardinality(S) <= ReconcileBatch
                                            /\ jobs'[j] = NewJob("queued", S, 0, TRUE, "reconcile")
              \/ /\ jobs[j].status \in Pending
                 /\ \E S \in SUBSET jobs[j].ids, st \in Pending \union {"succeeded"} :
                       jobs'[j] = [jobs[j] EXCEPT !.ids = S, !.status = st]
              \/ jobs'[j] = jobs[j]
  <1> DEFINE missing == IF r THEN Live \ vectors ELSE Live
             todo == missing \ PayloadsOf(ActiveJob)
  <1>0. todo \in SUBSET Event /\ lastJob \in Nat
    BY BoundAssumption DEF Live, TypeInv, TypeOK
  <1>1. PICK fresh \in Batchings(todo, ReconcileBatch) :
          /\ jobs' = [j \in JobId |->
                 IF j > lastJob /\ j - lastJob \in DOMAIN fresh
                 THEN NewJob("queued", fresh[j - lastJob], 0, TRUE, "reconcile")
                 ELSE IF jobs[j].status \in Pending /\ Kept(j, missing) # jobs[j].ids
                 THEN [jobs[j] EXCEPT !.ids = Kept(j, missing),
                                      !.status = IF Kept(j, missing) = {}
                                                 THEN "succeeded" ELSE @]
                 ELSE jobs[j]]
          /\ lastJob' = lastJob + Len(fresh)
    BY DEF Reconcile
  <1>2. /\ fresh \in Seq(SUBSET Event) /\ Len(fresh) \in Nat /\ DOMAIN fresh = 1 .. Len(fresh)
        /\ \A k \in DOMAIN fresh : Cardinality(fresh[k]) <= ReconcileBatch
    <2>1. fresh \in Seq(SUBSET Event) /\ Len(fresh) \in Nat /\ DOMAIN fresh = 1 .. Len(fresh)
      BY <1>0, BatchingsType, BatchAssumption
    <2> DEFINE n == (Cardinality(todo) + ReconcileBatch - 1) \div ReconcileBatch
    <2>2. fresh \in [1 .. n -> SUBSET todo] /\ \A k \in 1 .. n : Cardinality(fresh[k]) \in 1 .. ReconcileBatch
      BY DEF Batchings
    <2>3. DOMAIN fresh = 1 .. n
      BY <2>2
    <2>4. \A k \in DOMAIN fresh : Cardinality(fresh[k]) <= ReconcileBatch
      <3> HIDE DEF n, todo
      <3> QED
        BY <2>2, <2>3, BatchAssumption
    <2> QED
      BY <2>1, <2>4
  <1>3. ASSUME NEW j \in JobId, j > lastJob /\ j - lastJob \in DOMAIN fresh
        PROVE  /\ lastJob < j /\ j <= lastJob'
               /\ \E S \in SUBSET Event : /\ Cardinality(S) <= ReconcileBatch
                                          /\ jobs'[j] = NewJob("queued", S, 0, TRUE, "reconcile")
    <2>1. jobs'[j] = NewJob("queued", fresh[j - lastJob], 0, TRUE, "reconcile")
      BY <1>1, <1>3
    <2>2. fresh[j - lastJob] \in SUBSET Event /\ Cardinality(fresh[j - lastJob]) <= ReconcileBatch
      BY <1>2, <1>3
    <2>3. j \in Int
      BY DEF JobId
    <2>4. lastJob < j /\ j <= lastJob'
      <3>1. j - lastJob \in 1 .. Len(fresh) /\ lastJob' = lastJob + Len(fresh) /\ Len(fresh) \in Nat
        BY <1>1, <1>2, <1>3
      <3> HIDE DEF todo, missing
      <3> QED
        BY <1>0, <1>3, <2>3, <3>1
    <2> QED
      BY <2>1, <2>2, <2>4
  <1>4. ASSUME NEW j \in JobId, ~(j > lastJob /\ j - lastJob \in DOMAIN fresh),
               jobs[j].status \in Pending, Kept(j, missing) # jobs[j].ids
        PROVE  \E S \in SUBSET jobs[j].ids, st \in Pending \union {"succeeded"} :
                  jobs'[j] = [jobs[j] EXCEPT !.ids = S, !.status = st]
    <2> DEFINE S == Kept(j, missing)
               st == IF S = {} THEN "succeeded" ELSE jobs[j].status
    <2>1. jobs'[j] = [jobs[j] EXCEPT !.ids = S, !.status = st]
      BY <1>1, <1>4
    <2>2. S \in SUBSET jobs[j].ids
      BY DEF Kept
    <2>3. st \in Pending \union {"succeeded"}
      BY <1>4
    <2> HIDE DEF S, st
    <2> QED
      BY <2>1, <2>2, <2>3
  <1>5. ASSUME NEW j \in JobId, ~(j > lastJob /\ j - lastJob \in DOMAIN fresh),
               ~(jobs[j].status \in Pending /\ Kept(j, missing) # jobs[j].ids)
        PROVE  jobs'[j] = jobs[j]
    BY <1>1, <1>5
  <1>6. lastJob' \in Nat /\ lastJob <= lastJob'
    <2>1. lastJob' = lastJob + Len(fresh) /\ Len(fresh) \in Nat
      BY <1>1, <1>2
    <2> QED
      BY <1>0, <2>1
  <1> HIDE DEF missing
  <1> QED
    BY <1>3, <1>4, <1>5, <1>6

\* A step that adds no row, uses none and takes up none beyond the last.
LEMMA LaidOutKept ==
  ASSUME LaidOut, lastJob' = lastJob,
         \A j \in JobId : jobs[j].status = "none" /\ jobs[j].ids = {} =>
                          jobs'[j].status = "none" /\ jobs'[j].ids = {},
         \A p \in Enqueuer : \A j \in JobId :
             enq'[p].plan.accepted[j] # {} => enq[p].plan.accepted[j] # {} \/ j <= lastJob,
         writer'.pc # "idle" => (writer.pc # "idle" /\ writer'.job = writer.job) \/ writer'.job <= lastJob
  PROVE  LaidOut'
  BY DEF LaidOut, UnusedRows

\* Every step numbers its rows one after the other.
LEMMA LaidOutStep ==
  ASSUME TypeInv, LaidOut, [Next]_vars
  PROVE  LaidOut'
  <1>1. /\ jobs \in [JobId -> JobRow] /\ lastJob \in Nat /\ UnusedRows
        /\ \A p \in Enqueuer : enq[p] \in [pc : {"idle", "saved", "planned"}, batch : SUBSET Event, plan : PlanType]
    BY BoundAssumption DEF TypeInv, TypeOK, PlanType, LaidOut
  <1>2. \A j \in JobId : NoPlan.accepted[j] = {}
    BY DEF NoPlan
  <1>3. \A p \in Enqueuer : enq' = [enq EXCEPT ![p] = IdleEnqueuer] =>
           \A q \in Enqueuer : \A j \in JobId :
              enq'[q].plan.accepted[j] # {} => enq[q].plan.accepted[j] # {}
    BY <1>2 DEF IdleEnqueuer, TypeInv, TypeOK
  <1>4. CASE UNCHANGED vars
    BY <1>4 DEF vars, LaidOut, UnusedRows
  <1>5. ASSUME NEW p \in Enqueuer, NEW S \in SUBSET Event, SaveEvents(p, S) PROVE LaidOut'
    <2>1. \A q \in Enqueuer : enq'[q].plan = enq[q].plan
      BY <1>1, <1>5 DEF SaveEvents, TypeInv, TypeOK
    <2> QED
      BY <1>5, <2>1, LaidOutKept DEF SaveEvents
  <1>6. ASSUME NEW p \in Enqueuer, EnqueueRefused(p) PROVE LaidOut'
    BY <1>3, <1>6, LaidOutKept DEF EnqueueRefused
  <1>7. ASSUME NEW p \in Enqueuer, EnqueuePlan(p) PROVE LaidOut'
    <2>1. ASSUME NEW plan, Planned(p, plan), \A j \in JobId : plan.accepted[j] # {} => j <= lastJob
          PROVE  LaidOut'
      <3>1. \A q \in Enqueuer : q # p => enq'[q] = enq[q]
        BY <2>1 DEF Planned, TypeInv, TypeOK
      <3>2. enq'[p].plan = plan
        BY <1>1, <2>1 DEF Planned, TypeInv, TypeOK
      <3>3. UNCHANGED <<lastJob, jobs, writer>>
        BY <1>7 DEF EnqueuePlan
      <3> QED
        BY <2>1, <3>1, <3>2, <3>3, LaidOutKept
    <2>2. CASE enq' = [enq EXCEPT ![p] = IdleEnqueuer]
      BY <1>3, <1>7, <2>2, LaidOutKept DEF EnqueuePlan
    <2>3. ASSUME NEW f, Planned(p, [NoPlan EXCEPT !.fresh = f]) PROVE LaidOut'
      BY <1>2, <2>1, <2>3 DEF NoPlan
    <2>4. ASSUME NEW f, NEW c \in 1 .. lastJob + 1, NEW acc \in Merges(f[Len(f)], {j \in TailJobs : j >= c}),
                 Planned(p, MergedPlan(f, acc))
          PROVE  LaidOut'
      <3>1. MergedPlan(f, acc).accepted = acc
        BY DEF MergedPlan
      <3>2. \A j \in JobId : acc[j] # {} => j \in TailJobs
        BY <2>4 DEF Merges
      <3>3. \A j \in TailJobs : j <= lastJob
        BY <1>1 DEF TailJobs, Jobs, Pending, UnusedRows, JobId
      <3> QED
        BY <2>1, <2>4, <3>1, <3>2, <3>3
    <2> QED
      BY <1>7, <2>2, <2>3, <2>4 DEF EnqueuePlan
  <1>8. ASSUME NEW p \in Enqueuer, EnqueueCommit(p) PROVE LaidOut'
    <2> DEFINE plan == enq[p].plan
    <2>1. /\ lastJob' \in Nat /\ lastJob <= lastJob'
          /\ \A j \in JobId : lastJob' < j => plan.accepted[j] = {} /\ jobs'[j] = jobs[j]
      <3>1. /\ lastJob' \in Nat /\ lastJob <= lastJob'
            /\ \A j \in JobId : ~(lastJob < j /\ j <= lastJob') /\ plan.accepted[j] = {} => jobs'[j] = jobs[j]
        BY <1>8, CommitRows
      <3>2. \A j \in JobId : lastJob' < j => plan.accepted[j] = {}
        BY <1>1, <3>1 DEF LaidOut, JobId
      <3> QED
        BY <3>1, <3>2 DEF JobId
    <2>2. UnusedRows'
      BY <1>1, <2>1 DEF UnusedRows, JobId
    <2>3. \A q \in Enqueuer : \A j \in JobId : enq'[q].plan.accepted[j] # {} => j <= lastJob'
      <3>1. enq' = [enq EXCEPT ![p] = IdleEnqueuer]
        BY <1>8 DEF EnqueueCommit
      <3>2. \A q \in Enqueuer : \A j \in JobId : enq'[q].plan.accepted[j] # {} => j <= lastJob
        BY <1>3, <3>1 DEF LaidOut
      <3> HIDE DEF plan
      <3> QED
        BY <1>1, <2>1, <3>2 DEF JobId
    <2>4. writer'.pc # "idle" => writer'.job <= lastJob'
      <3>1. writer' = writer
        BY <1>8 DEF EnqueueCommit
      <3>2. writer.job \in Int
        BY BoundAssumption DEF TypeInv, TypeOK
      <3> HIDE DEF plan
      <3> QED
        BY <1>1, <2>1, <3>1, <3>2 DEF LaidOut
    <2> QED
      BY <2>2, <2>3, <2>4 DEF LaidOut
  <1>9. ASSUME NEW S \in SUBSET Event, DeleteEvents(S) PROVE LaidOut'
    BY <1>9, LaidOutKept DEF DeleteEvents
  <1>10. ASSUME NEW j \in JobId, Claim(j) PROVE LaidOut'
    <2>1. writer' = [IdleWriter EXCEPT !.pc = "claimed", !.job = j] /\ jobs[j].status \in Pending
      BY <1>10 DEF Claim, Due
    <2>2. writer'.job = j /\ j <= lastJob
      BY <1>1, <2>1 DEF IdleWriter, UnusedRows, Pending, JobId
    <2>3. \A i \in JobId : i # j => jobs'[i] = jobs[i]
      BY <1>1, <1>10 DEF Claim
    <2> QED
      BY <1>10, <2>1, <2>2, <2>3, LaidOutKept DEF Claim, Pending
  <1>11. CASE ReadPayload \/ LoadEvents \/ WriteVectors \/ (\E part \in SUBSET Event, r \in BOOLEAN : ProcessFails(part, r))
              \/ (\E r \in BOOLEAN : MarkSucceededFails(r))
    <2>1. /\ writer.pc # "idle" /\ writer'.job = writer.job
          /\ jobs' = jobs /\ enq' = enq /\ lastJob' = lastJob
      BY <1>11 DEF ReadPayload, LoadEvents, WriteVectors, ProcessFails, MarkSucceededFails, TypeInv, TypeOK
    <2> QED
      BY <2>1, LaidOutKept
  <1>12. CASE MarkSucceeded \/ MarkRetry \/ MarkFailed \/ MarkRaises
    <2>1. writer.job \in JobId /\ writer.job <= lastJob /\ writer'.pc = "idle" /\ lastJob' = lastJob /\ enq' = enq
      BY <1>12 DEF MarkSucceeded, MarkRetry, MarkFailed, MarkRaises, TypeInv, HoldsJob, LaidOut, IdleWriter
    <2>2. \A i \in JobId : i # writer.job => jobs'[i] = jobs[i]
      BY <1>1, <1>12 DEF MarkSucceeded, MarkRetry, MarkFailed, MarkRaises
    <2>3. \A i \in JobId : i > lastJob => jobs'[i] = jobs[i]
      BY <1>1, <2>1, <2>2 DEF JobId
    <2> QED
      BY <1>1, <2>1, <2>3 DEF LaidOut, UnusedRows
  <1>13. CASE MarkSplit
    <2>1. /\ lastJob' = lastJob + 2 /\ writer.job <= lastJob /\ writer.job \in JobId
          /\ \A i \in JobId \ {lastJob + 1, lastJob + 2} :
                  jobs'[i] = IF i = writer.job THEN [jobs[writer.job] EXCEPT !.status = "succeeded"] ELSE jobs[i]
      BY <1>13, SplitRows
    <2>2. \A i \in JobId : i > lastJob' => jobs'[i] = jobs[i] /\ i > lastJob
      BY <1>1, <2>1 DEF JobId
    <2>3. writer'.pc = "idle" /\ enq' = enq
      BY <1>13 DEF MarkSplit, IdleWriter
    <2>4. \A q \in Enqueuer : \A j \in JobId : enq'[q].plan.accepted[j] # {} => j <= lastJob'
      BY <1>1, <2>1, <2>3 DEF LaidOut, JobId
    <2> QED
      BY <1>1, <2>2, <2>3, <2>4 DEF LaidOut, UnusedRows
  <1>14. ASSUME NEW j \in JobId, BecomesDue(j) PROVE LaidOut'
    <2>1. \A i \in JobId : jobs'[i].status = jobs[i].status /\ jobs'[i].ids = jobs[i].ids
      BY <1>1, <1>14 DEF BecomesDue, JobRow
    <2> QED
      BY <1>14, <2>1, LaidOutKept DEF BecomesDue
  <1>15. CASE \E part \in SUBSET Event : Crash(part)
    BY <1>2, <1>15, LaidOutKept DEF Crash, IdleWriter, IdleEnqueuer
  <1>16. CASE RecoverRunning
    <2>1. \A i \in JobId : jobs[i].status = "none" => jobs'[i] = jobs[i]
      BY <1>16 DEF RecoverRunning, Recovered, Inflight
    <2> QED
      BY <1>16, <2>1, LaidOutKept DEF RecoverRunning
  <1>17. ASSUME NEW r \in BOOLEAN, Reconcile(r) PROVE LaidOut'
    <2>1. /\ lastJob' \in Nat /\ lastJob <= lastJob'
          /\ \A j \in JobId : (lastJob < j /\ j <= lastJob') \/ jobs[j].status \in Pending \/ jobs'[j] = jobs[j]
      BY <1>17, ReconcileRows
    <2>2. UnusedRows'
      <3> SUFFICES ASSUME NEW j \in JobId, j > lastJob' PROVE jobs'[j].status = "none" /\ jobs'[j].ids = {}
        BY DEF UnusedRows
      <3>1. j > lastJob /\ ~(j <= lastJob')
        BY <1>1, <2>1 DEF JobId
      <3>2. jobs[j].status = "none" /\ jobs[j].ids = {}
        BY <1>1, <3>1 DEF UnusedRows
      <3> QED
        BY <2>1, <3>1, <3>2 DEF Pending
    <2>3. enq' = enq /\ writer' = writer
      BY <1>17 DEF Reconcile
    <2>4. \A q \in Enqueuer : \A j \in JobId : enq'[q].plan.accepted[j] # {} => j <= lastJob'
      BY <1>1, <2>1, <2>3 DEF LaidOut, JobId
    <2>5. writer'.pc # "idle" => writer'.job <= lastJob'
      BY <1>1, <2>1, <2>3, BoundAssumption DEF LaidOut, TypeInv, TypeOK
    <2> QED
      BY <2>2, <2>4, <2>5 DEF LaidOut
  <1>18. CASE StartUnreconciled
    BY <1>18, LaidOutKept DEF StartUnreconciled
  <1> QED
    BY <1>4, <1>5, <1>6, <1>7, <1>8, <1>9, <1>10, <1>11, <1>12, <1>13, <1>14, <1>15, <1>16, <1>17, <1>18
      DEF Next, EnqueuerNext, WriterStep, Start

\* Rows are numbered in every state.
LEMMA RowsLaidOut == Spec => []LaidOut
  <1>1. Init => LaidOut
    BY DEF Init, LaidOut, UnusedRows, NoJob, IdleEnqueuer, IdleWriter, NoPlan
  <1>2. Spec => []TypeInv
    BY TypeCorrect DEF TypeInv
  <1> QED
    BY <1>1, <1>2, LaidOutStep, PTL DEF Spec

-----------------------------------------------------------------------------
(***************************************************************************)
(* Rows in flight are held.                                                *)
(***************************************************************************)

\* The writer works only while the process is up; and once the rows of the last
\* run are recovered, what is in flight is what it holds, unless marking failed.
HeldInv ==
    /\ writer.pc # "idle" => phase = "up"
    /\ faults = 0 /\ phase # "down" =>
          \A j \in JobId : jobs[j].status \in Inflight => writer.pc # "idle" /\ writer.job = j

\* A step that puts no row in flight and leaves the writer with its job.
LEMMA HeldKept ==
  ASSUME HeldInv, phase' = phase, faults' = 0 => faults = 0,
         \A j \in JobId : jobs'[j].status \in Inflight => jobs[j].status \in Inflight,
         \/ writer' = writer
         \/ writer.pc # "idle" /\ writer'.pc # "idle" /\ writer'.job = writer.job
  PROVE  HeldInv'
  BY DEF HeldInv

\* A marked job leaves the hands of the writer and the rows in flight together.
LEMMA HeldMarked ==
  ASSUME TypeInv, HeldInv, writer.pc # "idle", writer' = IdleWriter, phase' = phase, faults' = faults,
         \A j \in JobId : jobs'[j].status \in Inflight => jobs[j].status \in Inflight /\ j # writer.job
  PROVE  HeldInv'
  BY DEF HeldInv, IdleWriter

\* Every step keeps the rows in flight held.
LEMMA HeldStep ==
  ASSUME TypeInv, LaidOut, HeldInv, [Next]_vars
  PROVE  HeldInv'
  <1>1. jobs \in [JobId -> JobRow] /\ faults \in Nat /\ MaxFaults \in Nat
    BY BoundAssumption DEF TypeInv, TypeOK
  <1>2. CASE UNCHANGED vars
    BY <1>2 DEF vars, HeldInv
  <1>3. CASE EnqueuerNext
    <2>1. \A j \in JobId : jobs'[j].status \in Inflight => jobs[j].status \in Inflight
      <3>1. CASE jobs' = jobs
        BY <3>1
      <3>2. ASSUME NEW p \in Enqueuer, EnqueueCommit(p), NEW j \in JobId
            PROVE  jobs'[j].status \in {"queued", jobs[j].status}
        <4> DEFINE plan == enq[p].plan
        <4>1. CASE IsFresh(plan, j)
          BY <3>2, <4>1 DEF EnqueueCommit, NewJob
        <4>2. CASE ~IsFresh(plan, j) /\ plan.accepted[j] # {}
          BY <1>1, <3>2, <4>2 DEF EnqueueCommit, JobRow
        <4>3. CASE ~IsFresh(plan, j) /\ plan.accepted[j] = {}
          BY <3>2, <4>3 DEF EnqueueCommit
        <4> QED
          BY <4>1, <4>2, <4>3
      <3> QED
        BY <1>3, <3>1, <3>2 DEF EnqueuerNext, SaveEvents, EnqueueRefused, EnqueuePlan, DeleteEvents, Inflight
    <2>2. phase' = phase /\ writer' = writer /\ faults' = faults
      BY <1>3 DEF EnqueuerNext, SaveEvents, EnqueueRefused, EnqueuePlan, EnqueueCommit, DeleteEvents
    <2> QED
      BY <2>1, <2>2, HeldKept
  <1>4. ASSUME NEW j \in JobId, Claim(j) PROVE HeldInv'
    <2>1. writer' = [IdleWriter EXCEPT !.pc = "claimed", !.job = j]
      BY <1>4 DEF Claim
    <2>2. writer'.pc = "claimed" /\ writer'.job = j
      BY <2>1 DEF IdleWriter
    <2>3. \A i \in JobId : i # j => jobs'[i] = jobs[i]
      BY <1>1, <1>4 DEF Claim
    <2> QED
      BY <1>4, <2>2, <2>3 DEF Claim, HeldInv
  <1>5. CASE ReadPayload \/ LoadEvents \/ WriteVectors \/ (\E part \in SUBSET Event, r \in BOOLEAN : ProcessFails(part, r))
             \/ (\E r \in BOOLEAN : MarkSucceededFails(r))
    <2>1. /\ writer.pc # "idle" /\ writer'.pc # "idle" /\ writer'.job = writer.job
          /\ jobs' = jobs /\ phase' = phase
      BY <1>5 DEF ReadPayload, LoadEvents, WriteVectors, ProcessFails, MarkSucceededFails, TypeInv, TypeOK
    <2>2. faults' = 0 => faults = 0
      <3>1. faults' = faults \/ faults' = faults + 1
        BY <1>5 DEF ReadPayload, LoadEvents, WriteVectors, ProcessFails, MarkSucceededFails
      <3> QED
        BY <1>1, <3>1
    <2> QED
      BY <2>1, <2>2, HeldKept
  <1>6. CASE MarkSucceeded \/ MarkRetry \/ MarkFailed
    <2>1. \A j \in JobId : jobs'[j].status \in Inflight => jobs[j].status \in Inflight /\ j # writer.job
      BY <1>1, <1>6 DEF MarkSucceeded, MarkRetry, MarkFailed, JobRow, Inflight
    <2> QED
      BY <1>6, <2>1, HeldMarked DEF MarkSucceeded, MarkRetry, MarkFailed
  <1>7. CASE MarkSplit
    <2> DEFINE j == writer.job
    <2>1. /\ jobs'[lastJob + 1].status = "retry" /\ jobs'[lastJob + 2].status = "retry"
          /\ \A i \in JobId \ {lastJob + 1, lastJob + 2} :
                jobs'[i] = IF i = j THEN [jobs[j] EXCEPT !.status = "succeeded"] ELSE jobs[i]
      <3>1. PICK A : /\ jobs'[lastJob + 1] = NewJob("retry", A, jobs[j].attempts, TRUE, jobs[j].origin)
                     /\ jobs'[lastJob + 2] = NewJob("retry", jobs[j].ids \ A, jobs[j].attempts, TRUE,
                                                   jobs[j].origin)
        BY <1>7, SplitRows
      <3>2. jobs'[lastJob + 1].status = "retry" /\ jobs'[lastJob + 2].status = "retry"
        BY <3>1 DEF NewJob
      <3> QED
        BY <1>7, <3>2, SplitRows
    <2>2. j \in JobId /\ [jobs[j] EXCEPT !.status = "succeeded"].status = "succeeded"
      BY <1>1, <1>7 DEF MarkSplit, TypeInv, HoldsJob, JobRow
    <2>5. \A i \in JobId : jobs'[i].status \in Inflight => jobs[i].status \in Inflight /\ i # j
      BY <2>1, <2>2 DEF Inflight
    <2> QED
      BY <1>7, <2>5, HeldMarked DEF MarkSplit
  <1>8. CASE MarkRaises
    BY <1>1, <1>8 DEF MarkRaises, HeldInv, IdleWriter
  <1>9. ASSUME NEW j \in JobId, BecomesDue(j) PROVE HeldInv'
    <2>1. \A i \in JobId : jobs'[i].status = jobs[i].status
      BY <1>1, <1>9 DEF BecomesDue, JobRow
    <2> QED
      BY <1>9, <2>1, HeldKept DEF BecomesDue
  <1>10. CASE \E part \in SUBSET Event : Crash(part)
    BY <1>10 DEF Crash, HeldInv, IdleWriter
  <1>11. CASE RecoverRunning
    <2>1. \A i \in JobId : jobs'[i].status \notin Inflight
      BY <1>1, <1>11 DEF RecoverRunning, Recovered, JobRow, Inflight
    <2> QED
      BY <1>11, <2>1 DEF RecoverRunning, HeldInv
  <1>12. CASE (\E r \in BOOLEAN : Reconcile(r)) \/ StartUnreconciled
    <2>1. \A i \in JobId : jobs'[i].status \in Inflight => jobs[i].status \in Inflight
      <3>1. CASE StartUnreconciled
        BY <3>1 DEF StartUnreconciled
      <3>2. ASSUME NEW r \in BOOLEAN, Reconcile(r), NEW i \in JobId, jobs'[i].status \in Inflight
            PROVE  jobs[i].status \in Inflight
        <4> DEFINE missing == IF r THEN Live \ vectors ELSE Live
        <4>1. PICK fresh : jobs' = [j \in JobId |->
                   IF j > lastJob /\ j - lastJob \in DOMAIN fresh
                   THEN NewJob("queued", fresh[j - lastJob], 0, TRUE, "reconcile")
                   ELSE IF jobs[j].status \in Pending /\ Kept(j, missing) # jobs[j].ids
                   THEN [jobs[j] EXCEPT !.ids = Kept(j, missing),
                                        !.status = IF Kept(j, missing) = {}
                                                   THEN "succeeded" ELSE @]
                   ELSE jobs[j]]
          BY <3>2 DEF Reconcile
        <4>2. CASE i > lastJob /\ i - lastJob \in DOMAIN fresh
          BY <3>2, <4>1, <4>2 DEF NewJob, Inflight
        <4>3. CASE jobs'[i] = [jobs[i] EXCEPT !.ids = Kept(i, missing),
                                        !.status = IF Kept(i, missing) = {} THEN "succeeded" ELSE @]
          BY <1>1, <3>2, <4>3 DEF JobRow, Inflight
        <4> QED
          BY <3>2, <4>1, <4>2, <4>3
      <3> QED
        BY <1>12, <3>1, <3>2
    <2>2. phase # "down" /\ phase' = "up" /\ writer' = writer /\ faults' = faults
      BY <1>12 DEF Reconcile, StartUnreconciled
    <2> QED
      BY <2>1, <2>2 DEF HeldInv
  <1> QED
    BY <1>2, <1>3, <1>4, <1>5, <1>6, <1>7, <1>8, <1>9, <1>10, <1>11, <1>12 DEF Next, WriterStep, Start

\* InflightIsHeld: as long as no commit that marks a job has failed, a row in flight is the
\* one the writer holds, whatever stops, splits and enqueues it meets (_run_one_due,
\* _recover_running).  With MaxFaults = 0 it is the invariant of the runs.
THEOREM InflightHeld == Spec => [](faults = 0 => InflightIsHeld)
  <1>1. Init => HeldInv
    BY DEF Init, HeldInv, IdleWriter, NoJob, Inflight
  <1>2. TypeInv /\ LaidOut /\ HeldInv /\ [Next]_vars => HeldInv'
    BY HeldStep
  <1>3. HeldInv => (faults = 0 => InflightIsHeld)
    BY DEF HeldInv, InflightIsHeld
  <1>4. Spec => []TypeInv
    BY TypeCorrect DEF TypeInv
  <1> QED
    BY <1>1, <1>2, <1>3, <1>4, RowsLaidOut, PTL DEF Spec

-----------------------------------------------------------------------------
(***************************************************************************)
(* Batches are bounded.                                                    *)
(***************************************************************************)

Fits(row) == Cardinality(row.ids) <= IF row.origin = "ingest" THEN BatchSize ELSE ReconcileBatch
PlanFits(plan) ==
    /\ \A j \in JobId : plan.accepted[j] # {} =>
          jobs[j].origin = "ingest" /\ Cardinality(plan.payload[j]) <= BatchSize
    /\ \A k \in DOMAIN plan.fresh : Cardinality(plan.fresh[k]) <= BatchSize

\* What is planned fits as well: the payload of a merge is written as it was planned.
BoundedInv == (\A j \in JobId : Fits(jobs[j])) /\ (\A p \in Enqueuer : PlanFits(enq[p].plan))

\* A subset of a set that fits is no larger.
LEMMA SmallerFits ==
  ASSUME NEW S \in SUBSET Event, NEW T \in SUBSET S
  PROVE  Cardinality(T) <= Cardinality(S) /\ Cardinality(T) \in Nat /\ Cardinality(S) \in Nat
  <1>1. IsFiniteSet(S)
    BY FS_Subset, EventAssumption
  <1> QED
    BY <1>1, FS_Subset, FS_CardinalityType

\* A step whose rows shrink, keep their origin or are new and fit.
LEMMA BoundedKept ==
  ASSUME TypeInv, LaidOut, BoundedInv,
         \A j \in JobId :
            \/ jobs'[j].ids \subseteq jobs[j].ids /\ jobs'[j].origin = jobs[j].origin
            \/ lastJob < j /\ Fits(jobs'[j])
            \/ jobs'[j].origin = jobs[j].origin /\ Fits(jobs'[j]),
         \A p \in Enqueuer : enq'[p].plan = enq[p].plan \/ enq'[p].plan = NoPlan
  PROVE  BoundedInv'
  <1>1. \A j \in JobId : jobs[j].ids \in SUBSET Event
    BY DEF TypeInv, TypeOK, JobRow
  <1>2. ASSUME NEW j \in JobId PROVE Fits(jobs'[j])
    <2>1. CASE jobs'[j].ids \subseteq jobs[j].ids /\ jobs'[j].origin = jobs[j].origin
      <3>1. /\ Cardinality(jobs'[j].ids) <= Cardinality(jobs[j].ids)
            /\ Cardinality(jobs'[j].ids) \in Nat /\ Cardinality(jobs[j].ids) \in Nat
        BY <1>1, <2>1, SmallerFits
      <3> QED
        BY <2>1, <3>1, BatchAssumption DEF BoundedInv, Fits
    <2> QED
      BY <2>1
  <1>3. ASSUME NEW p \in Enqueuer, enq'[p].plan = NoPlan
        PROVE  PlanFits(enq[p].plan)'
    BY <1>3 DEF NoPlan, PlanFits
  <1>4. ASSUME NEW p \in Enqueuer, enq'[p].plan = enq[p].plan
        PROVE  PlanFits(enq[p].plan)'
    <2>1. \A j \in JobId : enq[p].plan.accepted[j] # {} => ~(lastJob < j)
      BY BoundAssumption DEF LaidOut, TypeInv, TypeOK, JobId
    <2>2. \A j \in JobId : enq[p].plan.accepted[j] # {} => jobs'[j].origin = jobs[j].origin
      BY <2>1
    <2> QED
      BY <1>4, <2>2 DEF BoundedInv, PlanFits
  <1> QED
    BY <1>2, <1>3, <1>4 DEF BoundedInv

\* The slices of a batch have at most the given size.
LEMMA SlicesFit ==
  ASSUME NEW S \in SUBSET Event, NEW f \in Batchings(S, BatchSize)
  PROVE  \A k \in DOMAIN f : Cardinality(f[k]) <= BatchSize
  <1> DEFINE n == (Cardinality(S) + BatchSize - 1) \div BatchSize
  <1>1. DOMAIN f = 1 .. n /\ \A k \in 1 .. n : Cardinality(f[k]) \in 1 .. BatchSize
    BY DEF Batchings
  <1> HIDE DEF n
  <1> QED
    BY <1>1, BatchAssumption

\* What an enqueue plans fits: a merge adds no more than the room it read.
LEMMA MergedFits ==
  ASSUME TypeOK, BoundedInv, NEW S \in SUBSET Event, S # {}, NEW f \in Batchings(S, BatchSize),
         NEW C \in SUBSET TailJobs, NEW acc \in Merges(f[Len(f)], C)
  PROVE  PlanFits(MergedPlan(f, acc))
  <1> DEFINE n == Len(f)
             T == f[n]
             rest == T \ Union(acc)
             full == SubSeq(f, 1, n - 1)
             plan == MergedPlan(f, acc)
  <1>1. f \in Seq(SUBSET Event) /\ n \in Nat /\ Union(f) = S /\ DOMAIN f = 1 .. n
    BY BatchingsType, BatchAssumption
  <1>2. n \in 1 .. n /\ T \in SUBSET Event
    BY <1>1 DEF Union
  <1>3. acc \in [JobId -> SUBSET T]
    BY DEF Merges
  <1>4. ASSUME NEW j \in JobId, acc[j] # {}
        PROVE  jobs[j].origin = "ingest" /\ Cardinality(jobs[j].ids \union acc[j]) <= BatchSize
    <2>1. j \in C /\ Cardinality(acc[j]) <= Room(j)
      BY <1>4 DEF Merges
    <2>2. jobs[j].origin = "ingest"
      BY <2>1 DEF TailJobs
    <2>3. IsFiniteSet(jobs[j].ids) /\ IsFiniteSet(acc[j])
      <3>1. jobs[j].ids \in SUBSET Event /\ acc[j] \in SUBSET Event
        BY <1>2, <1>3 DEF TypeOK, JobRow
      <3> QED
        BY <3>1, FS_Subset, EventAssumption
    <2>4. /\ Cardinality(jobs[j].ids) \in Nat /\ Cardinality(acc[j]) \in Nat
          /\ Cardinality(jobs[j].ids \cap acc[j]) \in Nat
          /\ Cardinality(jobs[j].ids \union acc[j]) =
                Cardinality(jobs[j].ids) + Cardinality(acc[j]) - Cardinality(jobs[j].ids \cap acc[j])
      <3>1. IsFiniteSet(jobs[j].ids \cap acc[j])
        BY <2>3, FS_Intersection
      <3> QED
        BY <2>3, <3>1, FS_Union, FS_CardinalityType
    <2> QED
      BY <2>1, <2>2, <2>4, BatchAssumption DEF Room
  <1>5. \A k \in 1 .. n : Cardinality(f[k]) <= BatchSize
    BY <1>1, SlicesFit
  <1>6. Cardinality(rest) <= BatchSize
    <2>1. Cardinality(rest) <= Cardinality(T) /\ Cardinality(rest) \in Nat /\ Cardinality(T) \in Nat
      BY <1>2, SmallerFits
    <2>2. Cardinality(T) <= BatchSize
      BY <1>2, <1>5
    <2> HIDE DEF T, rest, n
    <2> QED
      BY <2>1, <2>2, BatchAssumption
  <1>7. \A k \in DOMAIN plan.fresh : Cardinality(plan.fresh[k]) <= BatchSize
    <2>1. plan.fresh = IF rest = {} THEN full ELSE Append(full, rest)
      BY DEF MergedPlan
    <2>2. full \in Seq(SUBSET Event) /\ Len(full) = n - 1 /\ \A k \in 1 .. n - 1 : full[k] = f[k]
      BY <1>1, <1>2
    <2>3. DOMAIN full = 1 .. n - 1 /\ n - 1 \in Nat
      BY <1>1, <1>2, <2>2
    <2>4. \A k \in DOMAIN full : Cardinality(full[k]) <= BatchSize
      <3>1. \A k \in 1 .. n - 1 : k \in 1 .. n
        <4> HIDE DEF n
        <4> QED
          BY <1>1
      <3> QED
        BY <1>5, <2>2, <2>3, <3>1
    <2>5. CASE rest # {}
      <3>1. rest \in SUBSET Event
        BY <1>2
      <3> HIDE DEF rest, full, plan, T
      <3>2. /\ DOMAIN Append(full, rest) = 1 .. Len(full) + 1
            /\ \A k \in 1 .. Len(full) + 1 :
                  Append(full, rest)[k] = IF k = Len(full) + 1 THEN rest ELSE full[k]
        BY <2>2, <3>1
      <3>3. \A k \in 1 .. Len(full) + 1 : k = Len(full) + 1 \/ k \in DOMAIN full
        BY <2>2, <2>3
      <3> QED
        BY <1>6, <2>1, <2>4, <2>5, <3>2, <3>3
    <2> QED
      BY <2>1, <2>4, <2>5
  <1>8. plan.accepted = acc /\ \A j \in JobId : acc[j] # {} => plan.payload[j] = jobs[j].ids \union acc[j]
    BY DEF MergedPlan
  <1> QED
    BY <1>4, <1>7, <1>8 DEF PlanFits

\* Every step keeps the rows and the plans within their bounds.
LEMMA BoundedStep ==
  ASSUME TypeInv, LaidOut, BoundedInv, [Next]_vars
  PROVE  BoundedInv'
  <1>1. /\ jobs \in [JobId -> JobRow] /\ lastJob \in Nat /\ TypeOK
        /\ \A p \in Enqueuer : enq[p] \in [pc : {"idle", "saved", "planned"}, batch : SUBSET Event, plan : PlanType]
    BY BoundAssumption DEF TypeInv, TypeOK, PlanType
  <1>2. \A p \in Enqueuer : enq' = [enq EXCEPT ![p] = IdleEnqueuer] =>
           \A q \in Enqueuer : enq'[q].plan = enq[q].plan \/ enq'[q].plan = NoPlan
    BY <1>1 DEF IdleEnqueuer, TypeOK
  <1>3. ASSUME jobs' = jobs, \A q \in Enqueuer : enq'[q].plan = enq[q].plan \/ enq'[q].plan = NoPlan
        PROVE  BoundedInv'
    BY <1>3, BoundedKept
  <1>4. ASSUME NEW p \in Enqueuer, NEW S \in SUBSET Event, SaveEvents(p, S) PROVE BoundedInv'
    <2>1. \A q \in Enqueuer : enq'[q].plan = enq[q].plan
      BY <1>1, <1>4 DEF SaveEvents, TypeOK
    <2> QED
      BY <1>3, <1>4, <2>1 DEF SaveEvents
  <1>5. ASSUME NEW p \in Enqueuer, EnqueueRefused(p) PROVE BoundedInv'
    BY <1>2, <1>3, <1>5 DEF EnqueueRefused
  <1>6. ASSUME NEW p \in Enqueuer, EnqueuePlan(p) PROVE BoundedInv'
    <2>1. jobs' = jobs
      BY <1>6 DEF EnqueuePlan
    <2>2. ASSUME NEW plan, Planned(p, plan), PlanFits(plan) PROVE BoundedInv'
      <3>1. \A q \in Enqueuer : q # p => enq'[q] = enq[q]
        BY <2>2 DEF Planned, TypeInv, TypeOK
      <3>2. enq'[p].plan = plan
        BY <1>1, <2>2 DEF Planned, TypeOK
      <3> QED
        BY <2>1, <2>2, <3>1, <3>2 DEF BoundedInv, PlanFits
    <2>3. CASE enq' = [enq EXCEPT ![p] = IdleEnqueuer]
      BY <1>2, <1>3, <2>1, <2>3
    <2> DEFINE todo == enq[p].batch \ PayloadsOf(ActiveJob)
    <2>4. todo \in SUBSET Event
      BY <1>1
    <2>5. ASSUME NEW f \in Batchings(todo, BatchSize), Planned(p, [NoPlan EXCEPT !.fresh = f])
          PROVE  BoundedInv'
      <3>1. \A k \in DOMAIN f : Cardinality(f[k]) <= BatchSize
        BY <2>4, SlicesFit
      <3>2. PlanFits([NoPlan EXCEPT !.fresh = f])
        BY <3>1 DEF PlanFits, NoPlan
      <3> QED
        BY <2>2, <2>5, <3>2
    <2>6. ASSUME todo # {}, NEW f \in Batchings(todo, BatchSize), NEW c \in 1 .. lastJob + 1,
                 NEW acc \in Merges(f[Len(f)], {j \in TailJobs : j >= c}), Planned(p, MergedPlan(f, acc))
          PROVE  BoundedInv'
      <3>1. {j \in TailJobs : j >= c} \in SUBSET TailJobs
        OBVIOUS
      <3>2. PlanFits(MergedPlan(f, acc))
        BY <1>1, <2>4, <2>6, <3>1, MergedFits
      <3> QED
        BY <2>2, <2>6, <3>2
    <2> QED
      BY <1>6, <2>3, <2>5, <2>6 DEF EnqueuePlan
  <1>7. ASSUME NEW p \in Enqueuer, EnqueueCommit(p) PROVE BoundedInv'
    <2> DEFINE plan == enq[p].plan
    <2>1. PlanFits(plan)
      BY DEF BoundedInv
    <2>2. ASSUME NEW j \in JobId
          PROVE  \/ jobs'[j].ids \subseteq jobs[j].ids /\ jobs'[j].origin = jobs[j].origin
                 \/ lastJob < j /\ Fits(jobs'[j])
                 \/ jobs'[j].origin = jobs[j].origin /\ Fits(jobs'[j])
      <3>1. CASE lastJob < j /\ j <= lastJob'
        <4>1. PICK d \in BOOLEAN : jobs'[j] = NewJob("queued", plan.fresh[j - lastJob], 0, d, "ingest")
          BY <1>7, <3>1, CommitRows
        <4>2. j - lastJob \in DOMAIN plan.fresh
          BY <1>7, <3>1, CommitRows
        <4>3. Fits(jobs'[j])
          BY <2>1, <4>1, <4>2 DEF PlanFits, Fits, NewJob
        <4> QED
          BY <3>1, <4>3
      <3>2. CASE ~(lastJob < j /\ j <= lastJob') /\ plan.accepted[j] # {}
        <4>1. PICK d \in BOOLEAN :
                 jobs'[j] = [jobs[j] EXCEPT !.ids = plan.payload[j],
                                            !.count = Cardinality(plan.payload[j]), !.due = d]
          BY <1>7, <3>2, CommitRows
        <4>2. jobs'[j].ids = plan.payload[j] /\ jobs'[j].origin = jobs[j].origin
          BY <1>1, <4>1 DEF JobRow
        <4>3. jobs[j].origin = "ingest" /\ Cardinality(plan.payload[j]) <= BatchSize
          BY <2>1, <3>2 DEF PlanFits
        <4> QED
          BY <4>2, <4>3 DEF Fits
      <3>3. CASE ~(lastJob < j /\ j <= lastJob') /\ plan.accepted[j] = {}
        <4>1. jobs'[j] = jobs[j]
          BY <1>7, <3>3, CommitRows
        <4> QED
          BY <4>1
      <3> QED
        BY <3>1, <3>2, <3>3
    <2>3. enq' = [enq EXCEPT ![p] = IdleEnqueuer]
      BY <1>7 DEF EnqueueCommit
    <2> QED
      BY <1>2, <2>2, <2>3, BoundedKept
  <1>8. CASE (\E j \in JobId : BecomesDue(j) \/ Claim(j)) \/ MarkSucceeded \/ MarkRetry \/ MarkFailed \/ RecoverRunning
    <2>1. \A j \in JobId : jobs'[j].ids = jobs[j].ids /\ jobs'[j].origin = jobs[j].origin
      <3>1. CASE \E j \in JobId : BecomesDue(j) \/ Claim(j)
        BY <1>1, <3>1 DEF BecomesDue, Claim, JobRow
      <3>2. CASE MarkSucceeded \/ MarkRetry \/ MarkFailed
        BY <1>1, <3>2 DEF MarkSucceeded, MarkRetry, MarkFailed, JobRow
      <3>3. CASE RecoverRunning
        BY <1>1, <3>3 DEF RecoverRunning, Recovered, JobRow
      <3> QED
        BY <1>8, <3>1, <3>2, <3>3
    <2>2. enq' = enq
      BY <1>8 DEF BecomesDue, Claim, MarkSucceeded, MarkRetry, MarkFailed, RecoverRunning
    <2> QED
      BY <2>1, <2>2, BoundedKept
  <1>9. CASE MarkSplit
    <2> DEFINE j == writer.job
               Child(S) == NewJob("retry", S, jobs[j].attempts, TRUE, jobs[j].origin)
    <2>1. j \in JobId /\ jobs[j].ids \in SUBSET Event
      BY <1>1, <1>9 DEF MarkSplit, TypeInv, HoldsJob, JobRow
    <2>2. ASSUME NEW S \in SUBSET jobs[j].ids PROVE Fits(Child(S))
      <3>1. /\ Cardinality(S) <= Cardinality(jobs[j].ids)
            /\ Cardinality(S) \in Nat /\ Cardinality(jobs[j].ids) \in Nat
        BY <2>1, SmallerFits
      <3>2. Child(S).ids = S /\ Child(S).origin = jobs[j].origin
        BY DEF NewJob
      <3>3. Fits(jobs[j])
        BY <2>1 DEF BoundedInv
      <3> HIDE DEF Child
      <3> QED
        BY <3>1, <3>2, <3>3, BatchAssumption DEF Fits
    <2>3. PICK A \in Half(jobs[j].ids) : /\ jobs'[lastJob + 1] = Child(A)
                                         /\ jobs'[lastJob + 2] = Child(jobs[j].ids \ A)
      BY <1>9, SplitRows
    <2>4. A \in SUBSET jobs[j].ids
      BY DEF Half
    <2>5. Fits(jobs'[lastJob + 1]) /\ Fits(jobs'[lastJob + 2])
      BY <2>2, <2>3, <2>4
    <2>6. \A i \in JobId \ {lastJob + 1, lastJob + 2} :
             jobs'[i] = IF i = j THEN [jobs[j] EXCEPT !.status = "succeeded"] ELSE jobs[i]
      BY <1>9, SplitRows
    <2>7. \A i \in JobId \ {lastJob + 1, lastJob + 2} :
             jobs'[i].ids = jobs[i].ids /\ jobs'[i].origin = jobs[i].origin
      BY <1>1, <2>1, <2>6 DEF JobRow
    <2>8. lastJob < lastJob + 1 /\ lastJob < lastJob + 2
      BY <1>1
    <2>9. enq' = enq
      BY <1>9 DEF MarkSplit
    <2> QED
      BY <2>5, <2>7, <2>8, <2>9, BoundedKept
  <1>10. ASSUME NEW r \in BOOLEAN, Reconcile(r) PROVE BoundedInv'
    <2>1. ASSUME NEW j \in JobId
          PROVE  \/ jobs'[j].ids \subseteq jobs[j].ids /\ jobs'[j].origin = jobs[j].origin
                 \/ lastJob < j /\ Fits(jobs'[j])
      <3>1. ASSUME NEW S \in SUBSET Event, Cardinality(S) <= ReconcileBatch, lastJob < j,
                   jobs'[j] = NewJob("queued", S, 0, TRUE, "reconcile")
            PROVE  lastJob < j /\ Fits(jobs'[j])
        BY <3>1 DEF Fits, NewJob
      <3>2. ASSUME NEW S \in SUBSET jobs[j].ids, NEW st, jobs'[j] = [jobs[j] EXCEPT !.ids = S, !.status = st]
            PROVE  jobs'[j].ids \subseteq jobs[j].ids /\ jobs'[j].origin = jobs[j].origin
        BY <1>1, <3>2 DEF JobRow
      <3> QED
        BY <1>10, <3>1, <3>2, ReconcileRows
    <2>2. enq' = enq
      BY <1>10 DEF Reconcile
    <2> QED
      BY <2>1, <2>2, BoundedKept
  <1>11. CASE \E part \in SUBSET Event : Crash(part)
    BY <1>3, <1>11 DEF Crash, IdleEnqueuer
  <1>12. CASE UNCHANGED vars
    BY <1>3, <1>12 DEF vars
  <1>13. CASE jobs' = jobs /\ enq' = enq
    BY <1>3, <1>13
  <1> QED
    BY <1>4, <1>5, <1>6, <1>7, <1>8, <1>9, <1>10, <1>11, <1>12, <1>13
      DEF Next, EnqueuerNext, WriterStep, Start, DeleteEvents, ReadPayload, LoadEvents, WriteVectors,
          ProcessFails, MarkSucceededFails, MarkRaises, StartUnreconciled

\* BatchBounded: no payload outgrows its batch size, though two enqueues that read the same
\* room of a tail job both merge into it, and splits, trims and reconciliation rewrite the
\* rows (_plan_pending_event_deduplication, _merge_tail_payload).
THEOREM BatchesBounded == Spec => []BatchBounded
  <1>1. Init => BoundedInv
    <2> SUFFICES ASSUME Init PROVE BoundedInv
      OBVIOUS
    <2>1. \A j \in JobId : Fits(jobs[j])
      <3>1. \A j \in JobId : jobs[j].ids = {} /\ jobs[j].origin = "ingest"
        BY DEF Init, NoJob
      <3> QED
        BY <3>1, FS_EmptySet, BatchAssumption DEF Fits
    <2>2. \A p \in Enqueuer : PlanFits(enq[p].plan)
      BY DEF Init, IdleEnqueuer, NoPlan, PlanFits
    <2> QED
      BY <2>1, <2>2 DEF BoundedInv
  <1>2. TypeInv /\ LaidOut /\ BoundedInv /\ [Next]_vars => BoundedInv'
    BY BoundedStep
  <1>3. BoundedInv => BatchBounded
    BY DEF BoundedInv, Fits, BatchBounded
  <1>4. Spec => []TypeInv
    BY TypeCorrect DEF TypeInv
  <1> QED
    BY <1>1, <1>2, <1>3, <1>4, RowsLaidOut, PTL DEF Spec
=============================================================================
