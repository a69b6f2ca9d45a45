--------------------------- MODULE SearchWorkspace ---------------------------
(***************************************************************************)
(* The search workspace: its lifecycle (components/features/search/        *)
(* search-state.ts), the provider that runs searches over a stream         *)
(* (search-provider.tsx) and what a search does to the universe through    *)
(* the bus (UniverseSession).                                              *)
(*                                                                         *)
(* A query is an abstract key, as createSearchKey makes it; topK counts    *)
(* batches of twelve.  requests has every run ever started: one that was   *)
(* replaced is aborted, but what its stream delivered before may still be  *)
(* handled.                                                                *)
(***************************************************************************)
EXTENDS UniverseSession

CONSTANTS
    Queries,        \* the queries a reader may type
    MaxTopK,        \* batches a search may ask for
    SearchHits,     \* [Queries -> [1..MaxTopK -> sequence of bundles]]
    Journeys        \* what the reader and the answers may do in a behaviour, how often

ASSUME SearchAssumption ==
    /\ MaxTopK \in Nat \ {0}
    /\ \A q \in Queries, k \in 1..MaxTopK : Merged(SearchHits[q][k])

VARIABLES finder, journey
searchVars == <<scene, bus, finder, journey>>

NoResult == [is |-> FALSE]
NoQuery  == 0

ResultOf(by, key, topK, final) ==
    [is |-> TRUE, by |-> by, key |-> key, topK |-> topK, final |-> final]

(* captureSearchLifecycle: what a failed load-more goes back to.           *)
Lifecycle(f) ==
    [phase |-> f.phase, result |-> f.result, key |-> f.key, topK |-> f.topK, more |-> f.more]

FinderInit ==
    /\ finder = [query |-> NoQuery, phase |-> "idle", result |-> NoResult, key |-> NoQuery,
                 topK |-> 1, more |-> FALSE, issued |-> 0, live |-> 0, requests |-> <<>>]
    /\ journey \in Journeys

----------------------------------------------------------------------------
(* The lifecycle.                                                          *)

CanLoadMore(f) ==
    /\ f.phase = "idle" /\ f.result.is /\ f.more /\ f.topK < MaxTopK
    /\ f.key # NoQuery /\ f.query = f.key

BeginReplace(f, topK) ==
    [f EXCEPT !.result = NoResult, !.phase = "searching", !.key = NoQuery,
              !.topK = topK, !.more = FALSE]

BeginLoadMore(f) == [f EXCEPT !.phase = "loading-more"]

ReceiveResult(f, i) ==
    [f EXCEPT !.phase = "streaming",
              !.result = ResultOf(i, f.requests[i].key, f.requests[i].topK, FALSE)]

CompleteSearch(f, i, more) ==
    [f EXCEPT !.phase = "idle", !.key = f.requests[i].key, !.topK = f.requests[i].topK,
              !.more = more,
              !.result = ResultOf(i, f.requests[i].key, f.requests[i].topK, TRUE)]

\* Mutant: a failed load-more keeps what it had received.
FailWithoutRollback(f, i) ==
    IF f.requests[i].intent = "load-more" THEN [f EXCEPT !.phase = "idle"]
    ELSE [f EXCEPT !.phase = "idle", !.result = NoResult, !.key = NoQuery, !.more = FALSE]

FailSearch(f, i) ==
    LET back == f.requests[i].rollback
    IN  IF f.requests[i].intent = "load-more"
        THEN [f EXCEPT !.phase = "idle", !.result = back.result, !.key = back.key,
                       !.topK = back.topK, !.more = back.more]
        ELSE [f EXCEPT !.phase = "idle", !.result = NoResult, !.key = NoQuery, !.more = FALSE]

----------------------------------------------------------------------------
(* The provider.                                                           *)

(* cancel: a new number, so that nothing that is under way counts.         *)
Cancelled(f) ==
    LET over == [f EXCEPT !.issued = @ + 1, !.live = 0,
                          !.requests = Append(@, [intent |-> "none", stage |-> "over"])]
    IN  IF f.live = 0 THEN f ELSE FailSearch(over, f.live)

Cleared(f) ==
    [Cancelled(f) EXCEPT !.query = NoQuery, !.result = NoResult, !.phase = "idle",
                         !.key = NoQuery, !.topK = 1, !.more = FALSE]

Issue(f, intent, key, topK, epoch) ==
    [f EXCEPT !.issued = @ + 1, !.live = f.issued + 1,
              !.requests = Append(@, [intent |-> intent, key |-> key, topK |-> topK,
                                      epoch |-> epoch, stage |-> "sent",
                                      rollback |-> IF intent = "load-more" THEN Lifecycle(f)
                                                   ELSE NothingLeft])]

SearchFor(key) ==
    LET b == Dispatched(bus)
    IN  /\ bus' = b
        /\ SceneBecomes(OnReset(scene, b, TRUE))
        /\ finder' = [BeginReplace(Issue(finder, "replace", key, 1, b.epoch), 1)
                          EXCEPT !.query = key]

LoadMore ==
    /\ CanLoadMore(finder)
    /\ finder' = BeginLoadMore(Issue(finder, "load-more", finder.key, finder.topK + 1, 0))
    /\ UNCHANGED <<scene, bus>>

TypeQuery(key) ==
    /\ key # finder.query
    /\ finder' = [finder EXCEPT !.query = key]
    /\ UNCHANGED <<scene, bus>>

CancelSearch ==
    /\ finder.live # 0
    /\ finder' = Cancelled(finder)
    /\ UNCHANGED <<scene, bus>>

(* The field is emptied, or cleared.                                       *)
ClearSearch ==
    LET b == Dispatched(bus)
    IN  /\ finder.query # NoQuery \/ finder.live # 0
        /\ finder' = Cleared(finder)
        /\ bus' = b
        /\ SceneBecomes(OnReset(scene, b, TRUE))

Counts(f, i) == i = f.issued /\ i = f.live

(* The stream's first result.                                              *)
ResultStreams(i) ==
    /\ finder.requests[i].stage = "sent"
    /\ LET f == [finder EXCEPT !.requests[i].stage = "streaming"]
       IN  finder' = IF Counts(finder, i) THEN ReceiveResult(f, i) ELSE f
    /\ UNCHANGED <<scene, bus>>

(* The stream's end: the graph takes the result if nothing else was put on *)
(* the bus since the search reset it; a load-more resets it only now.      *)
SearchCompletes(i, more) ==
    LET r     == finder.requests[i]
        f     == [finder EXCEPT !.requests[i].stage = "over"]
        b1    == IF r.intent = "load-more" THEN Dispatched(bus) ELSE bus
        s1    == IF r.intent = "load-more" THEN OnReset(scene, b1, TRUE) ELSE scene
        hears == r.intent = "load-more" \/ r.epoch = bus.epoch
        b2    == IF hears THEN Dispatched(b1) ELSE b1
    IN  /\ r.stage = "streaming"
        /\ more => r.topK < MaxTopK
        /\ IF Counts(finder, i)
           THEN /\ finder' = [CompleteSearch(f, i, more) EXCEPT !.live = 0]
                /\ bus' = b2
                /\ SceneBecomes(IF hears THEN OnActivate(s1, b2, "search", SearchHits[r.key][r.topK])
                                ELSE s1)
           ELSE finder' = f /\ UNCHANGED <<scene, bus>>

SearchFails(i) ==
    LET f == [finder EXCEPT !.requests[i].stage = "over"]
    IN  /\ finder.requests[i].stage \in {"sent", "streaming"}
        /\ finder' = IF Counts(finder, i) THEN [FailSearch(f, i) EXCEPT !.live = 0] ELSE f
        /\ UNCHANGED <<scene, bus>>

----------------------------------------------------------------------------
(* The reader's steps and the answers are bounded; what they set going is  *)
(* not.                                                                    *)

ReaderStep ==
    /\ \/ /\ "browse" \in journey.acts
          /\ \/ \E source \in DOMAIN BrowseScene : OpenSource(source)
             \/ scene.source # 0 /\ \E place \in DOMAIN BrowseScene[scene.source] : BrowseOn(place)
             \/ GoHome
             \/ EnterExplore
       \/ "lock" \in journey.acts /\ \E node \in NodesOf(scene.shown) : LockNode(node)
       \/ "panel" \in journey.acts /\ (ShowPanel \/ HidePanel \/ ReturnToExploration)
       \/ "settings" \in journey.acts /\ \E k \in DOMAIN SceneSettings : ChangeSceneSettings(k)
       \/ "expand" \in journey.acts /\ \E node \in DOMAIN ExpansionPages : Expand(node)
       \/ "answer" \in journey.acts /\ \E bundles \in Answers : AnswerArrives(bundles)
    /\ UNCHANGED finder

FinderStep ==
    /\ "search" \in journey.acts
    /\ \/ \E key \in Queries : SearchFor(key) \/ TypeQuery(key)
       \/ LoadMore
       \/ CancelSearch
       \/ ClearSearch

SceneAnswer ==
    /\ TransitionTimer \/ ExpansionArrives \/ ExpansionFails
    /\ UNCHANGED finder

StreamStep ==
    \E i \in DOMAIN finder.requests :
        \/ ResultStreams(i)
        \/ \E more \in BOOLEAN : SearchCompletes(i, more)
        \/ SearchFails(i)

SessionNext ==
    \/ journey.left > 0 /\ journey' = [journey EXCEPT !.left = @ - 1] /\ (ReaderStep \/ FinderStep)
    \/ UNCHANGED journey /\ (SceneAnswer \/ StreamStep)

SessionInit == SceneInit /\ FinderInit
SessionSpec == SessionInit /\ [][SessionNext]_searchVars
----------------------------------------------------------------------------
(* What must hold.                                                         *)

(* A result on the screen is never older than a search the reader started  *)
(* after it: late streams of replaced or cancelled searches change nothing *)
(* (isCurrentRequest in search-provider.tsx).                              *)
NewestResultWins ==
    finder.result.is =>
        \A j \in DOMAIN finder.requests :
            j > finder.result.by => finder.requests[j].intent # "replace"

(* A result shown while no search runs is a completed one, with the key    *)
(* and the number of hits the workspace says it has: a load-more that      *)
(* fails or is cancelled after its first result gives the former one back  *)
(* (failSearchLifecycle).                                                  *)
CommittedResult ==
    finder.phase = "idle" /\ finder.result.is =>
        finder.result.final /\ finder.result.key = finder.key /\ finder.result.topK = finder.topK

(* The workspace is busy exactly while a request counts: no order of runs, *)
(* cancels, clears and late streams leaves it searching for ever.          *)
SearchIsServed == finder.phase # "idle" <=> finder.live # 0

(* The evidence in the scene and the search that asked for it stay         *)
(* together (dispatchUniverseActivation, commitResult).                    *)
SessionConsistent ==
    PendingOnItsWay /\ SceneShowsWindow /\ NewestResultWins /\ CommittedResult /\ SearchIsServed
=============================================================================
