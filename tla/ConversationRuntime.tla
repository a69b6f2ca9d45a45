------------------------- MODULE ConversationRuntime -------------------------
(***************************************************************************)
(* The conversation runtime of the web client                              *)
(* (apps/web/lib/conversation-runtime.ts) with the event stream it reads   *)
(* (apps/web/lib/sse.ts) and the server it talks to, which is external.    *)
(*                                                                         *)
(* rt is the ConversationRuntime object: one action per public method and  *)
(* one per place where an awaited call, a timer or a stream resumes it.    *)
(* Everything between two awaits is one step, as in the code.  net is the  *)
(* world outside: the server's threads and messages, the run it executes,  *)
(* the events on the wire and the requests in flight.                      *)
(*                                                                         *)
(* Messages are abstracted to their place in time: turn k asks the user    *)
(* message 2k and is answered by the assistant message 2k+1; saved says    *)
(* which of its two ids a message goes by, the server's or the local one.  *)
(* The text of an answer is the sequence of deltas it is made of.          *)
(***************************************************************************)
EXTENDS Naturals, Sequences, FiniteSets, SequencesExt, AgentRunActivity

CONSTANTS Sessions,       \* session ids, never used twice
          Threads,        \* thread ids of the server
          MaxSessions,    \* options.maxSessions
          MaxMessages,    \* options.maxMessagesPerSession
          PageSize,       \* messages in one page of history
          None,           \* null
          OldTurns,       \* turns asked before the program started
          Scenarios       \* bounds, one of which is chosen at the start

ASSUME RuntimeAssumption ==
    /\ MaxSessions \in Nat \ {0}
    /\ PageSize \in Nat /\ PageSize >= 2      \* a page holds a question and its answer
    /\ MaxMessages \in Nat /\ MaxMessages >= PageSize
    /\ None \notin Sessions \cup Threads
    /\ OldTurns \in Nat

(* A scenario bounds what happens: the sessions and threads, the questions *)
(* asked, the deltas and tool calls of a run, the pages asked for, the     *)
(* deletions, the faults (failed calls, broken streams, repeated events,   *)
(* disposal) and the events on the wire; and says which surfaces come and  *)
(* go.                                                                     *)
ScenarioAssumption ==
    \A b \in Scenarios :
        /\ b.sessions \cup b.mounts \subseteq Sessions /\ b.threads \subseteq Threads
        /\ {b.turns, b.deltas, b.calls, b.loads, b.drops, b.faults, b.wire} \subseteq Nat
ASSUME ScenarioAssumption

VARIABLES rt, net
vars == <<rt, net>>

UserOf(turn)   == 2 * turn
AnswerOf(turn) == 2 * turn + 1
Canonical      == <<0>>       \* the text the server stores for an answer

Deliveries == {"pending", "streaming", "complete", "failed", "cancelled", "persisted"}

Message(o, saved, delivery, text) ==
    [o |-> o, saved |-> saved, delivery |-> delivery, text |-> text]

(* What the runtime holds.                                                 *)
Messages  == [o : Nat, saved : BOOLEAN, delivery : Deliveries, text : Seq(Nat)]
Approvals == [call : Nat, resolving : BOOLEAN]
Runs      == [turn : Nat, steps : Seq(LiveSteps), approval : Approvals \cup {None},
              lifecycle : {"preparing", "running", "stopping"}]
Histories == [status : {"idle", "loading", "ready", "error"}, req : Nat,
              more : BOOLEAN, cursor : Nat]
Snapshots == [thread : Threads \cup {None}, msgs : Seq(Messages), run : Runs \cup {None},
              hist : Histories]
EventTypes ==
    {"run.started", "turn.started", "message.delta", "message.completed",
     "tool.approval_required", "tool.started", "tool.completed", "tool.failed",
     "universe.activation", "run.completed", "run.failed", "run.cancelled"}
Outcomes  == {"completed", "failed", "cancelled"}
Operations ==
    [s : Sessions, turn : Nat, stage : {"creating", "streaming"}, userSaved : BOOLEAN,
     runKnown : BOOLEAN, seq : Nat, seen : SUBSET EventTypes, pending : Seq(Nat), flush : BOOLEAN,
     stop : BOOLEAN, cancel : {"none", "asked", "answered"}, grace : BOOLEAN,
     aborted : BOOLEAN, terminal : Outcomes \cup {None}]
Runtimes ==
    [snap : [Sessions -> Snapshots], lru : Seq(Sessions), used : SUBSET Sessions,
     byThread : [Threads -> Sessions \cup {None}], active : Sessions \cup {None},
     op : Operations \cup {None}, hops : [Sessions -> Nat], subs : [Sessions -> BOOLEAN],
     turns : Nat, disposed : BOOLEAN]

ASSUME NullAssumption == None \notin Runs \cup Operations

(* What is outside it.                                                     *)
RunPlaces == {"none", "posted", "think", "model", "answered", "batch", "waiting", "preflight",
              "running", "done"}
Events    == [type : EventTypes, seq : Nat, key : Nat, tools : BOOLEAN, delta : Nat]
ServerRuns ==
    [turn : Nat, thread : Threads \cup {None}, at : RunPlaces, seq : Nat, model : Nat,
     calls : Nat, open : SUBSET Nat, deltas : Nat, cancel : BOOLEAN]
Replies   == [items : Seq(Nat), more : BOOLEAN]
PageRequests ==
    [s : Sessions, thread : Threads, mode : {"replace", "prepend"}, req : Nat, cursor : Nat,
     reply : Replies \cup {None}]
Deletions == [s : Sessions, thread : Threads, m : Nat \X BOOLEAN,
              reply : {"deleted", "refused", None}]
Decisions == [turn : Nat, yes : BOOLEAN, call : Nat, reply : {"taken", "refused", None}]
Worlds ==
    [bound : Scenarios, threads : SUBSET Threads, log : [Threads -> SUBSET Nat],
     srv : ServerRuns, wire : Seq(Events), conn : {"none", "open", "closed", "broken"},
     pages : SUBSET PageRequests, asks : SUBSET Decisions, torn : SUBSET Nat,
     dels : SUBSET Deletions, gone : SUBSET (Sessions \X Nat),
     drops : Nat, loads : Nat, faults : Nat]

(* normalizeMessage: a row of the server.                                  *)
Persisted(o) ==
    Message(o, TRUE, "persisted", IF o % 2 = 1 THEN Canonical ELSE <<>>)

Id(m) == <<m.o, m.saved>>
IdsOf(msgs) == {Id(msgs[i]) : i \in DOMAIN msgs}

(* The elements at a set of positions, in order; a set of numbers as such. *)
Keep(seq, places) ==
    LET upTo[i \in 0..Len(seq)] ==
            IF i = 0 THEN <<>>
            ELSE IF i \in places THEN Append(upTo[i - 1], seq[i]) ELSE upTo[i - 1]
    IN  upTo[Len(seq)]

Ascending(S, limit) == Keep([i \in 1..limit |-> i], S)

InitialSnapshot(t) ==
    [thread |-> t, msgs |-> <<>>, run |-> None,
     hist |-> [status |-> "idle", req |-> 0, more |-> FALSE, cursor |-> 0]]

NoSnapshot == InitialSnapshot(None)

Present(r) == Range(r.lru)

----------------------------------------------------------------------------
(* The private helpers of the class, on a value r of rt.                   *)

Touch(r, s) ==
    IF s \in Present(r)
    THEN [r EXCEPT !.lru = Append(Keep(@, {i \in DOMAIN @ : @[i] # s}), s)]
    ELSE r

(* updateSession: record() throws when the session is not there; callers   *)
(* of this operator have checked.                                          *)
SetHist(r, s, hist) == [r EXCEPT !.snap[s].hist = hist]

\* Mutant: a running session that is not looked at may be evicted.
EvictableRunning(r, s) == s # r.active /\ ~r.subs[s] /\ r.hops[s] = 0

Evictable(r, s) ==
    /\ s # r.active
    /\ r.op = None \/ r.op.s # s
    /\ r.snap[s].run = None
    /\ ~r.subs[s]
    /\ r.hops[s] = 0

(* while (size > maxSessions) delete the candidate used longest ago.       *)
PruneSessions(r) ==
    LET places  == {i \in DOMAIN r.lru : Evictable(r, r.lru[i])}
        excess  == IF Len(r.lru) > MaxSessions THEN Len(r.lru) - MaxSessions ELSE 0
        evicted == {r.lru[i] : i \in {p \in places :
                       Cardinality({q \in places : q < p}) < excess}}
    IN  [r EXCEPT
           !.lru = Keep(@, {i \in DOMAIN @ : @[i] \notin evicted}),
           !.snap = [s \in Sessions |-> IF s \in evicted THEN NoSnapshot ELSE @[s]],
           !.byThread = [t \in Threads |->
               IF \E s \in evicted : r.snap[s].thread = t THEN None ELSE @[t]]]

(* boundMessages: one message per id, the last one; the newest that fit,   *)
(* the running pair always among them.                                     *)
BoundMessages(r, s, msgs) ==
    LET unique == {i \in DOMAIN msgs :
                     \A j \in DOMAIN msgs : j > i => Id(msgs[j]) # Id(msgs[i])}
        pair   == IF r.op # None /\ r.op.s = s
                  THEN {<<UserOf(r.op.turn), r.op.userSaved>>, <<AnswerOf(r.op.turn), FALSE>>}
                  ELSE {}
        kept   == {i \in unique : Id(msgs[i]) \in pair}
        newest == {i \in unique \ kept :
                     Cardinality({j \in unique \ kept : j > i}) + Cardinality(kept) < MaxMessages}
    IN  Keep(msgs, IF Cardinality(unique) <= MaxMessages THEN unique ELSE kept \cup newest)

(* mergeHistory: the page, then the local messages it does not hold.       *)
MergeHistory(page, msgs) ==
    page \o Keep(msgs, {i \in DOMAIN msgs : /\ msgs[i].delivery # "persisted"
                                           /\ Id(msgs[i]) \notin IdsOf(page)})

PrependHistory(page, msgs) ==
    Keep(page, {i \in DOMAIN page : Id(page[i]) \notin IdsOf(msgs)}) \o msgs

(* loadHistoryPage up to its await: an older request of the session is     *)
(* superseded, the new one is sent.  The caller adds PageRequest to the    *)
(* requests in flight.                                                     *)
BeginLoad(r, s) ==
    LET req == r.snap[s].hist.req + 1 IN
    [r EXCEPT !.snap[s].hist.req = req,
              !.snap[s].hist.status = "loading",
              !.hops[s] = req]

PageRequest(r, s, mode) ==
    [s |-> s, thread |-> r.snap[s].thread, mode |-> mode, req |-> r.snap[s].hist.req + 1,
     cursor |-> IF mode = "prepend" THEN r.snap[s].hist.cursor ELSE 0, reply |-> None]

WithDeltas(m, deltas) == [m EXCEPT !.text = @ \o deltas, !.delivery = "streaming"]

(* flushTokens: the buffered deltas reach the assistant message.           *)
FlushTokens(r) ==
    LET s  == r.op.s
        at == {i \in DOMAIN r.snap[s].msgs : Id(r.snap[s].msgs[i]) = <<AnswerOf(r.op.turn), FALSE>>}
    IN  IF r.op.pending = <<>> THEN r
        ELSE [r EXCEPT !.op.pending = <<>>,
                       !.snap[s].msgs = [i \in DOMAIN @ |->
                           IF i \in at THEN WithDeltas(@[i], r.op.pending) ELSE @[i]]]

\* Mutant: the answer keeps its local id.
FinishOperationLocalId(r, outcome) ==
    LET f  == FlushTokens(r)
        s  == r.op.s
        Settled(m) == IF m.delivery \in {"pending", "streaming"}
                      THEN [m EXCEPT !.delivery = IF outcome = "completed" \/ m.o % 2 = 0
                                                  THEN "complete" ELSE outcome]
                      ELSE m
    IN  [f EXCEPT !.op = None, !.snap[s].run = None,
                  !.snap[s].msgs = [i \in DOMAIN @ |-> Settled(@[i])]]

(* finishOperation up to its await: what the outcome makes of the pair.    *)
FinishOperation(r, outcome) ==
    LET f  == FlushTokens(r)
        s  == r.op.s
        id == <<AnswerOf(r.op.turn), FALSE>>
        settled == [i \in DOMAIN f.snap[s].msgs |->
            LET m == f.snap[s].msgs[i] IN
            CASE Id(m) = id /\ outcome = "completed" ->
                     [m EXCEPT !.saved = TRUE, !.delivery = "complete"]
              [] Id(m) = id /\ outcome # "completed" -> [m EXCEPT !.delivery = outcome]
              [] Id(m) # id /\ m.delivery = "pending" -> [m EXCEPT !.delivery = "complete"]
              [] OTHER -> m]
        done == [f EXCEPT !.op = None]
    IN  [done EXCEPT !.snap[s].msgs = BoundMessages(done, s, settled),
                     !.snap[s].run = None]
----------------------------------------------------------------------------
(* The state the program starts in: no session, nothing on the server but  *)
(* threads that may exist already, each with some turns in its log.        *)

RuntimeInit ==
    rt = [snap     |-> [s \in Sessions |-> NoSnapshot],
          lru      |-> <<>>,              \* sessions, the longest unused first
          used     |-> {},                \* ids createId has handed out
          byThread |-> [t \in Threads |-> None],
          active   |-> None,
          op       |-> None,              \* activeOperation
          hops     |-> [s \in Sessions |-> 0],   \* historyOperations: request id
          subs     |-> [s \in Sessions |-> FALSE],
          turns    |-> OldTurns + 1,
          disposed |-> FALSE]

NoRun == [turn |-> 0, thread |-> None, at |-> "none", seq |-> 0, model |-> 0,
          calls |-> 0, open |-> {}, deltas |-> 0, cancel |-> FALSE]

(* The logs may hold messages of the turns asked before the program ran.   *)
WorldInit(logs, bound) ==
    net = [bound   |-> bound,
           threads |-> {t \in Threads : logs[t] # {}},
           log     |-> logs,
           srv     |-> NoRun,
           wire    |-> <<>>,
           conn    |-> "none",            \* none, open, closed, broken
           pages   |-> {},                \* listMessages requests in flight
           asks    |-> {},                \* approveTool and rejectTool requests
           torn    |-> {},                \* turns whose stream had no terminal event
           dels    |-> {},                \* deleteMessage requests in flight
           gone    |-> {},                \* history: answers a session saw deleted
           drops   |-> 0,
           loads   |-> 0,
           faults  |-> 0]

Fault(n) == [n EXCEPT !.faults = @ + 1]
MayFault == net.faults < net.bound.faults

----------------------------------------------------------------------------
(* Sessions.                                                               *)

Available == ~rt.disposed

NewSession(r, s, t, activate) ==
    [r EXCEPT !.snap[s]  = InitialSnapshot(t),
              !.lru      = Append(@, s),
              !.used     = @ \cup {s},
              !.byThread = [u \in Threads |-> IF u = t THEN s ELSE @[u]],
              !.active   = IF activate \/ @ = None THEN s ELSE @]

CreateDraft(s) ==
    /\ Available /\ s \in net.bound.sessions \ rt.used
    /\ rt' = PruneSessions(NewSession(rt, s, None, TRUE))
    /\ UNCHANGED net

ForThread(t, s, activate) ==
    /\ Available /\ t \in net.threads
    /\ rt.byThread[t] = None /\ s \in net.bound.sessions \ rt.used
    /\ rt' = PruneSessions(NewSession(rt, s, t, activate))
    /\ UNCHANGED net

(* activate, and forThread for a thread that has a session.                *)
Activate(s) ==
    /\ Available /\ s \in Present(rt)
    /\ rt' = IF rt.active = s THEN Touch(rt, s)
             ELSE PruneSessions([Touch(rt, s) EXCEPT !.active = s])
    /\ UNCHANGED net

SubscribeSession(s) ==
    /\ Available /\ s \in Present(rt) \cap net.bound.mounts /\ ~rt.subs[s]
    /\ rt' = [Touch(rt, s) EXCEPT !.subs[s] = TRUE]
    /\ UNCHANGED net

Unsubscribe(s) ==
    /\ Available /\ rt.subs[s]
    /\ rt' = PruneSessions([rt EXCEPT !.subs[s] = FALSE])
    /\ UNCHANGED net

(* dispose: nothing is served any more; the stream is aborted.             *)
Dispose ==
    /\ Available /\ MayFault
    /\ rt' = [rt EXCEPT !.disposed = TRUE, !.op = None,
                        !.hops = [s \in Sessions |-> 0], !.subs = [s \in Sessions |-> FALSE]]
    /\ net' = Fault([net EXCEPT !.conn = "none", !.wire = <<>>, !.srv = NoRun])

----------------------------------------------------------------------------
(* History.                                                                *)

Load(s, mode) ==
    /\ net.loads < net.bound.loads
    /\ rt' = BeginLoad(rt, s)
    /\ net' = [net EXCEPT !.pages = @ \cup {PageRequest(rt, s, mode)}, !.loads = @ + 1]

EnsureHistory(s, force) ==
    /\ Available /\ s \in Present(rt)
    /\ IF rt.snap[s].thread = None
       THEN /\ rt' = [rt EXCEPT !.snap[s].hist.status = "ready"]
            /\ UNCHANGED net
       ELSE /\ force \/ rt.snap[s].hist.status \notin {"loading", "ready"}
            /\ Load(s, "replace")

LoadOlder(s) ==
    /\ Available /\ s \in Present(rt)
    /\ LET hist == rt.snap[s].hist IN
       IF Len(rt.snap[s].msgs) >= MaxMessages
       THEN /\ rt' = SetHist(rt, s, [hist EXCEPT !.status = "ready", !.more = FALSE, !.cursor = 0])
            /\ UNCHANGED net
       ELSE /\ rt.snap[s].thread # None /\ hist.status # "loading" /\ hist.more
            /\ Load(s, "prepend")

(* The server reads the page: the newest messages before the cursor.       *)
PageIsRead(p) ==
    /\ p.reply = None
    /\ LET rows  == {o \in net.log[p.thread] : p.cursor = 0 \/ o < p.cursor}
           items == {o \in rows : Cardinality({q \in rows : q > o}) < PageSize}
           reply == [items |-> Ascending(items, AnswerOf(rt.turns)), more |-> rows # items]
       IN  net' = [net EXCEPT !.pages = (@ \ {p}) \cup {[p EXCEPT !.reply = reply]}]
    /\ UNCHANGED rt

IsCurrentHistory(p) == ~rt.disposed /\ rt.hops[p.s] = p.req

(* The page arrives: a request that was superseded changes nothing.        *)
PageArrives(p) ==
    /\ p.reply # None
    /\ net' = [net EXCEPT !.pages = @ \ {p},
                          !.gone = {g \in @ : ~(IsCurrentHistory(p) /\ g[1] = p.s /\ Contains(p.reply.items, g[2]))}]
    /\ IF ~IsCurrentHistory(p)
       THEN rt' = IF rt.disposed THEN rt ELSE PruneSessions(rt)
       ELSE LET current == rt.snap[p.s].msgs
                page    == [i \in DOMAIN p.reply.items |-> Persisted(p.reply.items[i])]
                msgs    == BoundMessages(rt, p.s,
                               IF p.mode = "prepend" THEN PrependHistory(page, current)
                                                     ELSE MergeHistory(page, current))
                more    == /\ Len(msgs) < MaxMessages
                           /\ p.mode = "replace" \/ ~(IdsOf(page) \subseteq IdsOf(current))
                           /\ p.reply.more
                hist    == [status |-> "ready", req |-> p.req, more |-> more,
                            cursor |-> IF more THEN p.reply.items[1] ELSE 0]
            IN  rt' = PruneSessions([rt EXCEPT !.snap[p.s].msgs = msgs,
                                               !.snap[p.s].hist = hist,
                                               !.hops[p.s] = 0])

(* It fails, or was aborted by the request that superseded it.             *)
PageFails(p) ==
    LET gone == [net EXCEPT !.pages = @ \ {p}] IN
    IF IsCurrentHistory(p)
    THEN /\ MayFault
         /\ net' = Fault(gone)
         /\ rt' = PruneSessions([rt EXCEPT !.snap[p.s].hist.status = "error", !.hops[p.s] = 0])
    ELSE /\ net' = gone
         /\ rt' = IF rt.disposed THEN rt ELSE PruneSessions(rt)
----------------------------------------------------------------------------
(* Runs.  send up to its first await: the pair of messages and the run are *)
(* there before anything is asked of the server.                           *)

NewOperation(s, stage) ==
    [s |-> s, turn |-> rt.turns, stage |-> stage, userSaved |-> FALSE, runKnown |-> FALSE,
     seq |-> 0, seen |-> {}, pending |-> <<>>, flush |-> FALSE,
     stop |-> FALSE, cancel |-> "none", grace |-> FALSE, aborted |-> FALSE, terminal |-> None]

PostRun(n, t, turn) ==
    [n EXCEPT !.srv = [NoRun EXCEPT !.turn = turn, !.thread = t, !.at = "posted"],
              !.conn = "open", !.wire = <<>>]

Send(s) ==
    /\ Available /\ s \in Present(rt) /\ rt.turns <= OldTurns + net.bound.turns
    /\ rt.op = None                           \* else ConversationBusyError
    /\ LET t    == rt.snap[s].thread
           op   == NewOperation(s, IF t = None THEN "creating" ELSE "streaming")
           pair == << Message(UserOf(op.turn), FALSE, "pending", <<>>),
                      Message(AnswerOf(op.turn), FALSE, "streaming", <<>>) >>
           r    == Touch([rt EXCEPT !.op = op, !.turns = @ + 1], s)
       IN  /\ rt' = [r EXCEPT
                       !.snap[s].msgs = BoundMessages(r, s, @ \o pair),
                       !.snap[s].run  = [turn |-> op.turn, steps |-> <<>>, approval |-> None,
                                         lifecycle |-> IF t = None THEN "preparing" ELSE "running"]]
           /\ net' = IF t = None THEN net ELSE PostRun(net, t, op.turn)

Creating == rt.op # None /\ rt.op.stage = "creating"
Streaming == rt.op # None /\ rt.op.stage = "streaming"

(* finishOperation and what follows it in send: a completed run reads its  *)
(* thread again.                                                           *)
Finish(n, outcome) ==
    LET done == FinishOperation(rt, outcome)
        s    == rt.op.s
        gone == [n EXCEPT !.conn = "none", !.wire = <<>>]
    IN  IF outcome = "completed"
        THEN /\ rt' = BeginLoad(done, s)
             /\ net' = [gone EXCEPT !.pages = @ \cup {PageRequest(done, s, "replace")}]
        ELSE /\ rt' = done
             /\ net' = gone

OutcomeOfError == IF rt.op.stop THEN "cancelled" ELSE "failed"

(* createThread answers.  The server has the thread before the client      *)
(* hears of it: another surface may have opened it meanwhile (forThread),  *)
(* and bindThread then refuses it.                                         *)
ThreadIsCreated(t) ==
    /\ Creating /\ ~rt.op.aborted /\ t \in net.bound.threads \ net.threads
    /\ net' = [net EXCEPT !.threads = @ \cup {t}, !.srv.thread = t]
    /\ net.srv.at = "none" /\ net.srv.thread = None
    /\ UNCHANGED rt

ThreadIsBound ==
    /\ Creating /\ ~rt.op.aborted /\ net.srv.thread # None
    /\ LET t == net.srv.thread
           s == rt.op.s
       IN  IF rt.byThread[t] \notin {None, s}
           THEN Finish([net EXCEPT !.srv = NoRun], OutcomeOfError)
           ELSE /\ rt' = [rt EXCEPT !.byThread[t] = s,
                                    !.snap[s].thread = t,
                                    !.snap[s].run.lifecycle = "running",
                                    !.op.stage = "streaming"]
                /\ net' = PostRun(net, t, rt.op.turn)

CreateThreadFails ==
    /\ Creating /\ ~rt.op.aborted /\ MayFault
    /\ Finish(Fault([net EXCEPT !.srv = NoRun]), OutcomeOfError)

(* stop up to its await.  Without a run id there is nothing to cancel on   *)
(* the server: the request itself is aborted.  The surfaces offer stop     *)
(* only while the run is not stopping.                                     *)
Stop(s) ==
    /\ Available /\ rt.op # None /\ rt.op.s = s
    /\ rt.snap[s].run.lifecycle # "stopping"
    /\ rt' = [rt EXCEPT !.op.stop = TRUE,
                        !.snap[s].run.lifecycle = "stopping",
                        !.op.aborted = rt.snap[s].thread = None \/ ~rt.op.runKnown,
                        !.op.cancel = IF rt.snap[s].thread = None \/ ~rt.op.runKnown
                                      THEN "none" ELSE "asked"]
    /\ UNCHANGED net

(* cancelRun reaches the server, which may ignore it or be past it.        *)
CancelReaches ==
    /\ Streaming /\ rt.op.cancel = "asked" /\ ~net.srv.cancel
    /\ net.srv.at \notin {"none", "posted", "done"}
    /\ net' = [net EXCEPT !.srv.cancel = TRUE]
    /\ UNCHANGED rt

\* Mutant: the stop relies on the server alone.
CancelAnsweredNoTimer ==
    /\ Streaming /\ rt.op.cancel = "asked"
    /\ rt' = [rt EXCEPT !.op.cancel = "answered"]
    /\ UNCHANGED net

CancelAnswered ==
    /\ Streaming /\ rt.op.cancel = "asked"
    /\ rt' = [rt EXCEPT !.op.cancel = "answered", !.op.grace = TRUE]
    /\ UNCHANGED net

CancelFails ==
    /\ Streaming /\ rt.op.cancel = "asked" /\ MayFault
    /\ rt' = [rt EXCEPT !.op.cancel = "answered", !.op.aborted = TRUE]
    /\ net' = Fault(net)

(* setTimeout(() => controller.abort(), stopGraceMs)                       *)
StopGraceElapsed ==
    /\ rt.op # None /\ rt.op.grace
    /\ rt' = [rt EXCEPT !.op.grace = FALSE, !.op.aborted = TRUE]
    /\ UNCHANGED net

(* The connection is gone: what the server had at hand it may still store. *)
Torn(n) == [n EXCEPT !.torn = @ \cup {rt.op.turn}, !.srv = NoRun]

Abandoned(n) ==
    LET rest == CASE n.srv.at = "posted"   -> {UserOf(n.srv.turn)}
                  [] n.srv.at = "answered" -> {AnswerOf(n.srv.turn)}
                  [] OTHER                 -> {}
    IN  {Torn(n)} \cup
        IF rest = {} THEN {} ELSE {Torn([n EXCEPT !.log[n.srv.thread] = @ \cup rest])}

(* The aborted call rejects: AbortError, the run counts as cancelled.      *)
AbortSeen ==
    /\ rt.op # None /\ rt.op.aborted
    /\ \E n \in Abandoned(net) : Finish(n, "cancelled")

----------------------------------------------------------------------------
(* The run on the server (external): the order of its events, what it      *)
(* stores and when, as the client relies on it.                            *)

Event(n, type, key) ==
    [type |-> type, seq |-> n.srv.seq + 1, key |-> key, tools |-> FALSE, delta |-> 0]

Emit(n, e) == [n EXCEPT !.wire = Append(@, e), !.srv.seq = e.seq]

Serving == net.conn = "open" /\ Len(net.wire) < net.bound.wire

(* One event of the given type about key, then the run is at another place.*)
ServerEmits(type, key, at) ==
    /\ Serving
    /\ net' = Emit([net EXCEPT !.srv.at = at], Event(net, type, key))
    /\ UNCHANGED rt

ServerStarts ==
    /\ Serving /\ net.srv.at = "posted"
    /\ LET n == [net EXCEPT !.srv.at = "think",
                            !.log[net.srv.thread] = @ \cup {UserOf(net.srv.turn)}]
       IN  net' = Emit(n, Event(n, "run.started", 0))
    /\ UNCHANGED rt

ServerTurn ==
    /\ Serving /\ net.srv.at \in {"think", "preflight", "running"} /\ net.srv.open = {}
    /\ LET n == [net EXCEPT !.srv.at = "model", !.srv.model = @ + 1]
       IN  net' = Emit(n, Event(n, "turn.started", n.srv.model))
    /\ UNCHANGED rt

ServerDelta ==
    /\ Serving /\ net.srv.at = "model" /\ net.srv.deltas < net.bound.deltas
    /\ LET n == [net EXCEPT !.srv.deltas = @ + 1]
       IN  net' = Emit(n, [Event(n, "message.delta", n.srv.model) EXCEPT !.delta = n.srv.deltas])
    /\ UNCHANGED rt

ServerMessage(tools) ==
    /\ Serving /\ net.srv.at = "model" /\ (tools => net.srv.calls < net.bound.calls)
    /\ LET n == [net EXCEPT !.srv.at = IF tools THEN "batch" ELSE "answered"]
       IN  net' = Emit(n, [Event(n, "message.completed", n.srv.model) EXCEPT !.tools = tools])
    /\ UNCHANGED rt

(* The calls of a batch pass the gate one after the other, then they run.  *)
NextCall == /\ net.srv.at \in {"batch", "preflight"}
            /\ net.srv.calls < net.bound.calls

ServerAsks ==
    /\ Serving /\ NextCall
    /\ LET n == [net EXCEPT !.srv.at = "waiting", !.srv.calls = @ + 1]
       IN  net' = Emit(n, Event(n, "tool.approval_required", n.srv.calls))
    /\ UNCHANGED rt

Started(n) ==
    LET m == [n EXCEPT !.srv.at = "preflight", !.srv.open = @ \cup {n.srv.calls}]
    IN  Emit(m, Event(m, "tool.started", m.srv.calls))

ServerStartsTool ==
    /\ Serving /\ NextCall
    /\ net' = Started([net EXCEPT !.srv.calls = @ + 1])
    /\ UNCHANGED rt

(* A finished search also announces a universe activation, with the        *)
(* sequence number of the tool's own event.                                *)
ServerToolEnds(call, type, activation) ==
    /\ Serving /\ net.srv.at \in {"preflight", "running"} /\ call \in net.srv.open
    /\ LET n == [net EXCEPT !.srv.at = "running", !.srv.open = @ \ {call}]
           e == Event(n, type, call)
           m == IF activation THEN [n EXCEPT !.wire = Append(@, [e EXCEPT !.type = "universe.activation"])]
                              ELSE n
       IN  net' = Emit(m, e)
    /\ UNCHANGED rt

ServerCompletes ==
    /\ Serving /\ net.srv.at = "answered"
    /\ LET n == [net EXCEPT !.srv.at = "done",
                            !.log[net.srv.thread] = @ \cup {AnswerOf(net.srv.turn)}]
       IN  net' = Emit(n, Event(n, "run.completed", 0))
    /\ UNCHANGED rt

UnderWay == net.srv.at \notin {"none", "posted", "done"}

ServerFails ==
    /\ UnderWay /\ MayFault /\ Serving
    /\ net' = Fault(Emit([net EXCEPT !.srv.at = "done"], Event(net, "run.failed", 0)))
    /\ UNCHANGED rt

ServerCancels == UnderWay /\ net.srv.cancel /\ ServerEmits("run.cancelled", 0, "done")

ServerCloses ==
    /\ net.conn = "open" /\ net.srv.at = "done"
    /\ net' = [net EXCEPT !.conn = "closed", !.srv = NoRun]
    /\ UNCHANGED rt

(* The connection breaks; some of what was on the wire still arrives.      *)
ConnectionBreaks ==
    /\ net.conn = "open" /\ rt.op # None /\ MayFault
    /\ \E n \in Abandoned(net), k \in 0..Len(net.wire) :
           net' = Fault([n EXCEPT !.conn = "broken", !.wire = SubSeq(@, 1, k)])
    /\ UNCHANGED rt

(* An event is delivered again, behind those that followed it.             *)
EventRepeated ==
    /\ net.conn = "open" /\ MayFault
    /\ \E i \in DOMAIN net.wire : net' = Fault([net EXCEPT !.wire = Append(@, net.wire[i])])
    /\ UNCHANGED rt
----------------------------------------------------------------------------
(* The client reads the stream.                                            *)

TerminalTypes == {"run.completed", "run.failed", "run.cancelled"}

ToOutcome(type) == CASE type = "run.completed" -> "completed"
                     [] type = "run.cancelled" -> "cancelled"
                     [] OTHER                  -> "failed"

(* The event that names a tool call settles the approval it waits for.     *)
ApprovalAfter(approval, e) ==
    CASE e.type = "tool.approval_required" -> [call |-> e.key, resolving |-> FALSE]
      [] e.type \in {"tool.started", "tool.completed", "tool.failed"}
         /\ approval # None /\ approval.call = e.key -> None
      [] OTHER -> approval

(* What the event does to one message of the session.                      *)
MessageAfter(m, op, e) ==
    CASE e.type = "run.started" /\ Id(m) = <<UserOf(op.turn), op.userSaved>> ->
             [m EXCEPT !.saved = TRUE]
      [] e.type = "run.completed" /\ Id(m) = <<AnswerOf(op.turn), FALSE>> ->
             [m EXCEPT !.text = Canonical]
      [] OTHER -> m

\* Mutant: only older numbers are stale.
IsStaleOlder(op, e)    == e.seq < op.seq

IsStale(op, e) == e.seq < op.seq \/ (e.seq = op.seq /\ e.type \in op.seen)

(* handleEvent: an event that is older than the last one, or of a type     *)
(* already seen under its number, changes nothing.                         *)
HandleEvent(r, e) ==
    IF IsStale(r.op, e) THEN r
    ELSE LET s == r.op.s
             pending == CASE e.type = "message.delta" -> Append(r.op.pending, e.delta)
                          [] e.type = "run.completed" -> <<>>
                          [] OTHER -> r.op.pending
         IN  [r EXCEPT
                !.op.seen = IF e.seq > r.op.seq THEN {e.type} ELSE @ \cup {e.type},
                !.op.seq = e.seq,
                !.op.runKnown = TRUE,
                !.op.userSaved = @ \/ e.type = "run.started",
                !.op.pending = pending,
                !.op.flush = pending # <<>>,
                !.snap[s].run.steps = ReduceAgentRunSteps(@, e),
                !.snap[s].run.approval = ApprovalAfter(@, e),
                !.snap[s].msgs = [i \in DOMAIN @ |-> MessageAfter(@[i], r.op, e)]]

(* dispatch in streamPost: nothing may follow the terminal event.          *)
ReadEvent ==
    /\ Streaming /\ ~rt.op.aborted /\ net.wire # <<>>
    /\ LET e == Head(net.wire)
           n == [net EXCEPT !.wire = Tail(@)]
       IN  IF rt.op.terminal # None
           THEN Finish(Torn(n), OutcomeOfError)
           ELSE /\ net' = n
                /\ LET r == HandleEvent(rt, e) IN
                   rt' = IF e.type \in TerminalTypes
                         THEN [r EXCEPT !.op.terminal = ToOutcome(e.type)]
                         ELSE r

(* The response has ended: without a terminal event that is an error, and  *)
(* a broken connection is one in any case.                                 *)
StreamEnds ==
    /\ Streaming /\ ~rt.op.aborted /\ net.wire = <<>> /\ net.conn \in {"closed", "broken"}
    /\ IF net.conn = "closed" /\ rt.op.terminal # None
       THEN Finish(net, rt.op.terminal)
       ELSE Finish(Torn(net), OutcomeOfError)

FlushTimer ==
    /\ rt.op # None /\ rt.op.flush
    /\ rt' = [FlushTokens(rt) EXCEPT !.op.flush = FALSE]
    /\ UNCHANGED net

----------------------------------------------------------------------------
(* resolveApproval: one decision at a time is sent.                        *)

ResolveApproval(s, yes) ==
    /\ Available /\ Streaming /\ rt.op.s = s /\ rt.op.runKnown
    /\ rt.snap[s].run.approval # None /\ ~rt.snap[s].run.approval.resolving
    /\ rt' = [rt EXCEPT !.snap[s].run.approval.resolving = TRUE]
    /\ net' = [net EXCEPT !.asks = @ \cup {[turn |-> rt.op.turn, yes |-> yes, reply |-> None,
                                            call |-> rt.snap[s].run.approval.call]}]

(* The server takes the decision if its run waits for it, or refuses it.   *)
DecisionReaches(a) ==
    /\ a.reply = None
    /\ LET Answered(n, ok) == [n EXCEPT !.asks = (@ \ {a}) \cup {[a EXCEPT !.reply = ok]}]
           waits == /\ net.srv.at = "waiting" /\ net.srv.turn = a.turn /\ net.srv.calls = a.call
       IN  IF waits
           THEN /\ Serving
                /\ net' = Answered(IF a.yes THEN Started(net)
                                   ELSE Emit([net EXCEPT !.srv.at = "preflight"],
                                             Event(net, "tool.failed", a.call)), "taken")
           ELSE net' = Answered(net, "refused")
    /\ UNCHANGED rt

(* The answer comes back, or is lost: only the approval it was about, of   *)
(* the run it was about, is touched.                                       *)
DecisionAnswered(a) ==
    /\ a.reply # None
    /\ \E lost \in {FALSE} \cup {x \in {TRUE} : MayFault} :
        /\ LET n == [net EXCEPT !.asks = @ \ {a}] IN net' = IF lost THEN Fault(n) ELSE n
        /\ rt' = IF /\ rt.op # None /\ rt.op.turn = a.turn
                    /\ rt.snap[rt.op.s].run.approval # None
                    /\ rt.snap[rt.op.s].run.approval.call = a.call
                 THEN [rt EXCEPT !.snap[rt.op.s].run.approval =
                          IF a.reply = "taken" /\ ~lost THEN None
                          ELSE [@ EXCEPT !.resolving = FALSE]]
                 ELSE rt

----------------------------------------------------------------------------
(* deleteMessage.  The panel offers it for an answer it has from the       *)
(* server, while nothing runs in its session.  The retry beside it asks    *)
(* the question again: a Send.                                             *)
DeleteMessage(s, m) ==
    /\ Available /\ s \in Present(rt) /\ net.drops < net.bound.drops
    /\ rt.snap[s].thread # None /\ rt.snap[s].run = None
    /\ m.o % 2 = 1 /\ m.delivery = "persisted"
    /\ net' = [net EXCEPT !.dels = @ \cup {[s |-> s, thread |-> rt.snap[s].thread, m |-> Id(m), reply |-> None]},
                          !.drops = @ + 1]
    /\ UNCHANGED rt

(* A message the server does not have is refused.                          *)
DeletionReaches(d) ==
    /\ d.reply = None
    /\ LET found == d.m[1] \in net.log[d.thread]
           reply == IF found THEN "deleted" ELSE "refused"
       IN  net' = [net EXCEPT !.dels = (@ \ {d}) \cup {[d EXCEPT !.reply = reply]},
                              !.log[d.thread] = IF found THEN @ \ {d.m[1]} ELSE @]
    /\ UNCHANGED rt

(* The answer comes back, or is lost.  A session evicted or disposed of    *)
(* meanwhile is not there to be changed.                                   *)
WithoutMessage(r, d) ==
    PruneSessions([r EXCEPT !.snap[d.s].msgs = Keep(@, {i \in DOMAIN @ : Id(@[i]) # d.m})])

DeletionAnswered(d) ==
    /\ d.reply # None
    /\ \E lost \in {FALSE} \cup {x \in {TRUE} : MayFault} :
        LET n    == [net EXCEPT !.dels = @ \ {d}]
            seen == d.reply = "deleted" /\ ~lost /\ Available /\ d.s \in Present(rt)
        IN  /\ rt' = IF seen THEN WithoutMessage(rt, d) ELSE rt
            /\ net' = IF lost THEN Fault(n)
                      ELSE IF seen THEN [n EXCEPT !.gone = @ \cup {<<d.s, d.m[1]>>}] ELSE n

----------------------------------------------------------------------------
Init == \E bound \in Scenarios :
        \E old \in SUBSET bound.threads :
            /\ RuntimeInit
            /\ WorldInit([t \in Threads |-> IF t \in old THEN UserOf(1)..AnswerOf(OldTurns) ELSE {}],
                         bound)

SessionStep ==
    \E s \in Sessions :
        \/ CreateDraft(s)
        \/ \E t \in Threads, activate \in BOOLEAN : ForThread(t, s, activate)
        \/ Activate(s) \/ SubscribeSession(s) \/ Unsubscribe(s)

HistoryStep ==
    \/ \E s \in Sessions : LoadOlder(s) \/ \E force \in BOOLEAN : EnsureHistory(s, force)
    \/ \E p \in net.pages : PageIsRead(p) \/ PageArrives(p) \/ PageFails(p)
    \/ \E s \in Sessions : \E m \in Range(rt.snap[s].msgs) : DeleteMessage(s, m)
    \/ \E d \in net.dels : DeletionReaches(d) \/ DeletionAnswered(d)

ServerStep ==
    \/ ServerStarts \/ ServerTurn \/ ServerDelta \/ ServerAsks \/ ServerStartsTool
    \/ \E tools \in BOOLEAN : ServerMessage(tools)
    \/ \E call \in net.srv.open : \/ ServerToolEnds(call, "tool.completed", TRUE)
                                  \/ ServerToolEnds(call, "tool.completed", FALSE)
                                  \/ ServerToolEnds(call, "tool.failed", FALSE)
    \/ ServerCompletes \/ ServerFails \/ ServerCancels \/ ServerCloses
    \/ ConnectionBreaks \/ EventRepeated

RunStep ==
    \/ \E s \in Sessions : Send(s) \/ Stop(s) \/ \E yes \in BOOLEAN : ResolveApproval(s, yes)
    \/ \E t \in Threads : ThreadIsCreated(t)
    \/ ThreadIsBound \/ CreateThreadFails
    \/ CancelReaches \/ CancelAnswered \/ CancelFails \/ StopGraceElapsed \/ AbortSeen
    \/ ReadEvent \/ StreamEnds \/ FlushTimer
    \/ \E a \in net.asks : DecisionReaches(a) \/ DecisionAnswered(a)

Next == SessionStep \/ HistoryStep \/ ServerStep \/ RunStep \/ Dispose

Spec == Init /\ [][Next]_vars

(* What a stop waits for: the browser answers the request or fails it,     *)
(* fires its timer, resumes what was aborted.  It never stops doing so;    *)
(* the server need not end a run.                                          *)
StopUnwinds == CancelAnswered \/ StopGraceElapsed \/ AbortSeen

Fairness == WF_vars(StopUnwinds)

FairSpec == Spec /\ Fairness

----------------------------------------------------------------------------
(* Every field keeps its type.                                             *)
TypeOK ==
    /\ rt \in Runtimes /\ Present(rt) \subseteq rt.used
    /\ net \in Worlds

(* A session shows a run exactly while the one operation of the runtime is *)
(* its own, of the same turn; the session is then never evicted, and the   *)
(* thread map and the sessions name each other.                            *)
OneRun ==
    ~rt.disposed =>
    /\ \A s \in Sessions :
         rt.snap[s].run # None <=> rt.op # None /\ rt.op.s = s
    /\ rt.op # None => /\ rt.op.s \in Present(rt)
                       /\ rt.snap[rt.op.s].run.turn = rt.op.turn
    /\ \A t \in Threads, s \in Sessions :
         rt.byThread[t] = s <=> s \in Present(rt) /\ rt.snap[s].thread = t

(* While a run is under way both messages of its turn stay in the session, *)
(* whatever page of history arrives and however small the window is, and   *)
(* the answer is still streaming.                                          *)
PairKept ==
    rt.op # None =>
    LET msgs == rt.snap[rt.op.s].msgs IN
    /\ <<UserOf(rt.op.turn), rt.op.userSaved>> \in IdsOf(msgs)
    /\ \E i \in DOMAIN msgs : /\ Id(msgs[i]) = <<AnswerOf(rt.op.turn), FALSE>>
                              /\ msgs[i].delivery = "streaming"

(* Until the canonical text replaces it, the answer shown and the deltas   *)
(* buffered are together the deltas read so far, each once and in order,   *)
(* even when events are delivered twice.                                   *)
TokensExact ==
    Streaming =>
    LET msgs == rt.snap[rt.op.s].msgs
        mine == {i \in DOMAIN msgs : Id(msgs[i]) = <<AnswerOf(rt.op.turn), FALSE>>}
    IN  \A i \in mine : msgs[i].text # Canonical =>
           LET shown == msgs[i].text \o rt.op.pending IN
           /\ shown = [k \in DOMAIN shown |-> k]
           /\ net.conn = "open" =>
                Len(shown) = net.srv.deltas
                             - Cardinality({e.seq : e \in {d \in Range(net.wire) :
                                              d.type = "message.delta" /\ d.seq > rt.op.seq}})

(* A tool call the server waits to have decided is offered to the user     *)
(* once its event is read, unless its decision is on the way; and when no  *)
(* event is on the wire a tool step is active exactly while the server has *)
(* the call at its gate or running.                                        *)
ToolsTruthful ==
    Streaming /\ ~rt.op.aborted /\ net.conn = "open" /\ net.wire = <<>> /\ rt.op.terminal = None =>
    LET run == rt.snap[rt.op.s].run
        active == {run.steps[i].key : i \in {j \in DOMAIN run.steps :
                      run.steps[j].kind = "tool" /\ run.steps[j].status = "active"}}
        gate == IF net.srv.at = "waiting" THEN {net.srv.calls} ELSE {}
    IN  /\ active = net.srv.open \cup gate
        /\ gate # {} => run.approval # None /\ run.approval.call = net.srv.calls
        /\ gate # {} /\ run.approval.resolving =>
              \E a \in net.asks : a.turn = rt.op.turn /\ a.call = net.srv.calls

(* Once a session has no run and no page under way, no message of a turn   *)
(* whose stream ended with its terminal event is shown twice, under its    *)
(* local id and under the server's.                                        *)
NoTurnTwice ==
    \A s \in Present(rt) :
        rt.snap[s].run = None /\ rt.hops[s] = 0 /\ rt.snap[s].hist.status = "ready" =>
        LET msgs == rt.snap[s].msgs IN
        \A i, j \in DOMAIN msgs :
            i # j /\ msgs[i].o = msgs[j].o => msgs[i].o \div 2 \in net.torn

(* history.status says loading exactly while a request will still settle   *)
(* it: the current one is in flight.                                       *)
LoadingIsServed ==
    ~rt.disposed =>
    \A s \in Sessions :
        /\ rt.hops[s] # 0 => \E p \in net.pages : p.s = s /\ p.req = rt.hops[s]
        /\ rt.snap[s].hist.status = "loading" => rt.hops[s] = rt.snap[s].hist.req

(* An answer that a session saw deleted is not shown there, whatever run   *)
(* ends or page arrives, but one that was read before the deletion.        *)
DeletedStaysGone == \A g \in net.gone : <<g[2], TRUE>> \notin IdsOf(rt.snap[g[1]].msgs)

(* The sessions, their one operation and their pages of history stay       *)
(* consistent (updateSession, finishOperation, mergeHistory).              *)
RuntimeConsistent == TypeOK /\ OneRun /\ PairKept /\ LoadingIsServed /\ DeletedStaysGone

(* What a session shows of its run is what the server emitted              *)
(* (handleEvent, reduceAgentRunSteps).                                     *)
StreamExact == TokensExact /\ ToolsTruthful

(* A run the user stopped ends, even when the server ignores the           *)
(* cancellation or answers it with an error.                               *)
StopEnds == (rt.op # None /\ rt.op.stop) ~> (rt.op = None)

=============================================================================
