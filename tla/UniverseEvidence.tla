-------------------------- MODULE UniverseEvidence --------------------------
(***************************************************************************)
(* The evidence kernel of the universe: the FIFO cache of event bundles    *)
(* (apps/web/lib/universe-event-cache.ts), the window of bundles the scene *)
(* shows and its transition (universe-scene-window.ts) and the             *)
(* accumulation that feeds one from the other (universe-accumulation.ts).  *)
(*                                                                         *)
(* A bundle is [event, entities]: an event and the entities it mentions;   *)
(* its relations go from the event to each of them.  The cache is the      *)
(* sequence of its records in the order of their admission.                *)
(***************************************************************************)
EXTENDS Integers, Sequences, FiniteSets, SequencesExt, FiniteSetsExt

(* A sequence; and one that has each event once, as the adapter of the     *)
(* activations and expansions makes it (universe-event-bundle-adapter.ts). *)
Listed(s) == s \in Seq(Range(s))
Merged(bundles) ==
    Listed(bundles) /\ \A i, j \in DOMAIN bundles : bundles[i].event = bundles[j].event => i = j

EventsOf(bundles) == {bundles[i].event : i \in DOMAIN bundles}

(* The bundles at these places, in their order.                            *)
Selected(bundles, places) ==
    LET upto[i \in 0..Len(bundles)] ==
            IF i = 0 THEN <<>>
            ELSE IF i \in places THEN Append(upto[i - 1], bundles[i]) ELSE upto[i - 1]
    IN  upto[Len(bundles)]

Without(bundles, events) == Selected(bundles, {i \in DOMAIN bundles : bundles[i].event \notin events})
LastOnes(s, n)  == SubSeq(s, Max({1, Len(s) - n + 1}), Len(s))
FirstOnes(s, n) == SubSeq(s, 1, Min({n, Len(s)}))

(* Each event once, at its last place.                                     *)
LatestOfEach(bundles) ==
    Selected(bundles, {i \in DOMAIN bundles :
                          \A j \in DOMAIN bundles : j > i => bundles[j].event # bundles[i].event})

(* The nodes of a graph that shows these bundles.                          *)
NodesOf(bundles) == EventsOf(bundles) \cup UNION {bundles[i].entities : i \in DOMAIN bundles}

----------------------------------------------------------------------------
(* The cache.                                                              *)

(* A known event is enriched where it stands; a new one is queued; what    *)
(* overflows leaves from the front.                                        *)
Enrich(bundle, more) ==
    IF bundle.event = more.event
    THEN [bundle EXCEPT !.entities = @ \cup more.entities] ELSE bundle

EnrichOrQueue(cache, b) ==
    IF b.event \in EventsOf(cache) THEN [i \in DOMAIN cache |-> Enrich(cache[i], b)]
    ELSE Append(cache, b)

ResizeCache(cache, capacity) == LastOnes(cache, capacity)

CacheAdmit(cache, capacity, bundles) ==
    ResizeCache(FoldLeft(EnrichOrQueue, cache, bundles), capacity)

UpdatedIn(cache, bundles) ==
    {e \in EventsOf(cache) : \E i \in DOMAIN cache, j \in DOMAIN bundles :
        /\ cache[i].event = e /\ bundles[j].event = e
        /\ ~(bundles[j].entities \subseteq cache[i].entities)}

(* Bundles as the cache knows them now.                                    *)
Refreshed(bundles, cache) ==
    [i \in DOMAIN bundles |->
        IF bundles[i].event \in EventsOf(cache)
        THEN cache[CHOOSE j \in DOMAIN cache : cache[j].event = bundles[i].event]
        ELSE bundles[i]]

----------------------------------------------------------------------------
(* The window of the scene.                                                *)

EmptySceneWindow(limit, capacity) ==
    [limit |-> limit, capacity |-> capacity, active |-> <<>>, incoming |-> <<>>,
     outgoing |-> <<>>, next |-> <<>>, moving |-> FALSE, revision |-> 0]

(* The newest bundles stay; what falls out of the limit goes.              *)
BeginTransition(w, admitted) ==
    LET next == LastOnes(w.active \o admitted, w.limit)
    IN  [w EXCEPT !.incoming = Without(next, EventsOf(w.active)),
                  !.outgoing = Without(w.active, EventsOf(next)),
                  !.next = next, !.moving = TRUE, !.revision = @ + 1]

SettleWindow(w) ==
    IF ~w.moving THEN w
    ELSE [w EXCEPT !.active = w.next, !.incoming = <<>>, !.outgoing = <<>>,
                   !.next = <<>>, !.moving = FALSE, !.revision = @ + 1]

(* New settings settle the window at once.                                 *)
ConfigureWindow(w, limit, capacity) ==
    [w EXCEPT !.limit = limit, !.capacity = capacity,
              !.active = LastOnes(IF w.moving THEN w.next ELSE @, limit),
              !.incoming = <<>>, !.outgoing = <<>>, !.next = <<>>,
              !.moving = FALSE, !.revision = @ + 1]

Resident(w) == IF w.moving THEN w.active \o Without(w.incoming, EventsOf(w.active)) ELSE w.active

----------------------------------------------------------------------------
(* The accumulation: the window, the events ever seen, the bundles that    *)
(* wait for the window.                                                    *)

NewAccumulation(limit, capacity) ==
    [window |-> EmptySceneWindow(limit, capacity), seen |-> {}, pending |-> <<>>]

StagePending(a) ==
    LET candidates == Without(LatestOfEach(a.pending), EventsOf(a.window.active))
        admitted   == FirstOnes(candidates, a.window.capacity)
    IN  IF a.window.moving \/ a.pending = <<>> THEN a
        ELSE [a EXCEPT !.pending = SubSeq(candidates, a.window.capacity + 1, Len(candidates)),
                       !.window = IF admitted = <<>> THEN @ ELSE BeginTransition(@, admitted)]

RefreshAccumulation(a, cache) ==
    [a EXCEPT !.window.active = Refreshed(@, cache), !.window.incoming = Refreshed(@, cache),
              !.window.outgoing = Refreshed(@, cache), !.window.next = Refreshed(@, cache),
              !.pending = Refreshed(@, cache)]

Unseen(a, bundles) == Without(bundles, a.seen)

(* An unseen event waits as the cache holds it; one the cache has already  *)
(* given up is counted as seen and shown nowhere.                          *)
AppendEvidence(a, before, after, bundles) ==
    LET refreshed == IF UpdatedIn(before, bundles) # {} THEN RefreshAccumulation(a, after) ELSE a
        unseen    == Unseen(a, bundles)
        fresh     == Without(Refreshed(unseen, after), EventsOf(unseen) \ EventsOf(after))
    IN  StagePending([refreshed EXCEPT !.seen = @ \cup EventsOf(unseen), !.pending = @ \o fresh])

AdvanceTransition(a) == StagePending([a EXCEPT !.window = SettleWindow(@)])
=============================================================================
