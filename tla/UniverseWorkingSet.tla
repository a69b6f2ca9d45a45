------------------------- MODULE UniverseWorkingSet -------------------------
(***************************************************************************)
(* The facts that a browse session keeps in memory and the part of them    *)
(* that reaches the scene: lib/universe-working-set.ts with the contracts  *)
(* of the pages it admits (lib/universe-timeline-admission.ts,             *)
(* lib/universe-expansion-admission.ts), the projection of                 *)
(* lib/universe-timeline-window.ts, and their use in                       *)
(* components/features/knowledge-universe.tsx.                             *)
(*                                                                         *)
(* A node is a number, an event when it is in FactEvents; a relation is a  *)
(* pair of an event and another node.  A bundle (an event with its         *)
(* entities, or a page about a node) is what enters and leaves as a whole; *)
(* ver stands for the texts it carries.  Bundles share nodes: a node stays *)
(* while one bundle that owns it does.                                     *)
(*                                                                         *)
(* The timeline is loaded towards the past only (UniverseTimeline has both *)
(* directions and the requests).  Locks pin a network through the          *)
(* library's own operation, as its tests do.                               *)
(***************************************************************************)
EXTENDS Integers, Sequences, FiniteSets, SequencesExt

CONSTANTS
    FactEvents,       \* the nodes that are events
    TimelinePages,    \* the pages of the timeline, newest first
    ExpansionOffers,  \* the pages the server has about a node
    FactActivations,  \* results that replace the graph: nodes and relations
    FactBudgets,      \* the budgets of the devices: nodes and edges
    FactWindow        \* cache, visible: limits of the timeline's window;
                      \* events, perEvent: limits of the scene

VARIABLE facts

----------------------------------------------------------------------------
(* Values.                                                                 *)

AppendNew(s, t) == FoldLeft(LAMBDA r, x : IF x \in ToSet(r) THEN r ELSE Append(r, x), s, t)

NoFacts(epoch) == [epoch |-> epoch, nodes |-> <<>>, rels |-> <<>>, roots |-> {},
                   bundles |-> <<>>, pins |-> <<>>, relPins |-> <<>>]

BundleIds(w)       == {b.id : b \in ToSet(w.bundles)}
BundleAt(w, id)    == CHOOSE b \in ToSet(w.bundles) : b.id = id
Only(bundles, ids) == SelectSeq(bundles, LAMBDA b : b.id \in ids)
OwnedNodes(bundles) == UNION {ToSet(b.nodes) : b \in ToSet(bundles)}
OwnedRels(bundles)  == UNION {ToSet(b.rels) : b \in ToSet(bundles)}
FactEventsOf(b)    == SelectSeq(b.nodes, LAMBDA n : n \in FactEvents)

FactsInit ==
    facts = [ws |-> NoFacts(1), cache |-> <<>>, page |-> 1, budget |-> 1, hidden |-> {}]

----------------------------------------------------------------------------
(* Eviction and admission.                                                 *)

FitsBudget(bundles, budget) ==
    /\ Cardinality(OwnedNodes(bundles)) <= budget.nodes
    /\ Cardinality(OwnedRels(bundles)) <= budget.edges

(* Evicting b would take away something that is protected and has no other *)
(* owner, or b is itself protected.                                        *)
Shielded(bundles, b, keep) ==
    LET others == SelectSeq(bundles, LAMBDA o : o.id # b.id)
    IN  \/ b.id \in keep.ids
        \/ (ToSet(b.nodes) \cap keep.nodes) \ OwnedNodes(others) # {}
        \/ (ToSet(b.rels) \cap keep.rels) \ OwnedRels(others) # {}

(* Expansions leave before the timeline's history, the oldest first.       *)
PlanBundleEvictions(bundles, budget, keep) ==
    LET Step(plan, b) ==
            CASE FitsBudget(plan.kept, budget)   -> plan
              [] ~FitsBudget(plan.kept, budget) /\ Shielded(plan.kept, b, keep) ->
                    [plan EXCEPT !.blocked = TRUE]
              [] OTHER -> [plan EXCEPT !.kept = SelectSeq(@, LAMBDA o : o.id # b.id),
                                       !.evicted = Append(@, b.id)]
    IN  FoldLeft(Step, [kept |-> bundles, evicted |-> <<>>, blocked |-> FALSE],
                 SelectSeq(bundles, LAMBDA b : b.origin = "expansion")
                     \o SelectSeq(bundles, LAMBDA b : b.origin # "expansion"))

Materialize(w, kept, pins, relPins) ==
    LET nodes == OwnedNodes(kept) \cap ToSet(w.nodes)
        rels  == SelectSeq(w.rels, LAMBDA r : r \in OwnedRels(kept) /\ {r[1], r[2]} \subseteq nodes)
    IN  [w EXCEPT !.nodes = SelectSeq(@, LAMBDA n : n \in nodes),
                  !.rels = rels, !.roots = @ \cap nodes,
                  !.bundles = [i \in DOMAIN kept |->
                      [kept[i] EXCEPT !.nodes = SelectSeq(@, LAMBDA n : n \in nodes),
                                      !.rels = SelectSeq(@, LAMBDA r : r \in ToSet(rels))]],
                  !.pins = SelectSeq(pins, LAMBDA n : n \in nodes),
                  !.relPins = SelectSeq(relPins, LAMBDA r : r \in ToSet(rels))]

NoFactsKept == [nodes |-> {}, rels |-> {}, ids |-> {}]

\* Mutant: only what the caller protects is kept from eviction.
WithPinsForgotten(w, keep) == keep

WithPins(w, keep) ==
    [keep EXCEPT !.nodes = @ \cup ToSet(w.pins), !.rels = @ \cup ToSet(w.relPins)]

(* A budget that was lowered is not allowed to tear a pinned network.      *)
TrimWorkingSet(w, budget, keep) ==
    LET plan == PlanBundleEvictions(w.bundles, budget, WithPins(w, keep))
    IN  IF FitsBudget(plan.kept, budget) THEN Materialize(w, plan.kept, w.pins, w.relPins) ELSE w

Refused(w, reason) ==
    [accepted |-> FALSE, ws |-> w, evicted |-> <<>>, reason |-> reason]

(* The nodes of b include the ends of its relations that are resident.     *)
Completed(b) ==
    [b EXCEPT !.nodes = AppendNew(AppendNew(<<>>, @),
                                  FlattenSeq([i \in DOMAIN b.rels |-> <<b.rels[i][1], b.rels[i][2]>>]))]

AdmitUniverseBundle(w, given, budget, keep, roots) ==
    LET b      == Completed(given)
        known  == ToSet(w.nodes) \cup ToSet(given.nodes)
        merged == [w EXCEPT !.nodes = AppendNew(@, b.nodes),
                            !.rels = SelectSeq(@, LAMBDA r : r \notin ToSet(b.rels)) \o b.rels,
                            !.roots = IF roots THEN @ \cup ToSet(b.nodes) ELSE @]
        alone  == FitsBudget(<<b>>, budget)
        plan   == PlanBundleEvictions(Append(w.bundles, b), budget,
                      [WithPins(w, keep) EXCEPT !.ids = @ \cup {b.id}])
    IN  CASE b.epoch # w.epoch -> Refused(w, "epoch_mismatch")
          [] b.epoch = w.epoch /\ (b.nodes = <<>> \/ ~(ToSet(b.nodes) \subseteq known)) ->
                Refused(w, "invalid_bundle")
          [] b.epoch = w.epoch /\ ToSet(b.nodes) \subseteq known /\ b.id \in BundleIds(w) ->
                IF BundleAt(w, b.id) = b
                THEN [accepted |-> TRUE, ws |-> w, evicted |-> <<>>, reason |-> ""]
                ELSE Refused(w, "duplicate_bundle")
          [] OTHER ->
                IF alone /\ FitsBudget(plan.kept, budget)
                THEN [accepted |-> TRUE, ws |-> Materialize(merged, plan.kept, w.pins, w.relPins),
                      evicted |-> plan.evicted, reason |-> ""]
                ELSE Refused(w, IF alone /\ plan.blocked THEN "protected_capacity" ELSE "over_budget")

(* A page stops at the first bundle that is refused.                       *)
AdmitUniverseBundles(w, page, budget, keep) ==
    LET Step(a, b) ==
            LET one == AdmitUniverseBundle(a.ws, b, budget, keep, TRUE)
            IN  IF ~a.accepted THEN a ELSE [one EXCEPT !.evicted = a.evicted \o @]
    IN  FoldLeft(Step, [accepted |-> TRUE, ws |-> w, evicted |-> <<>>, reason |-> ""], page)

(* Complete ownership for a result that replaces the graph: a bundle for   *)
(* each event with what it relates to, one for each node nothing relates   *)
(* to.                                                                     *)
ReplaceWorkingSet(activation, epoch, budget) ==
    LET rels   == SelectSeq(AppendNew(<<>>, activation.rels),
                            LAMBDA r : {r[1], r[2]} \subseteq ToSet(activation.nodes))
        nodes  == AppendNew(<<>>, activation.nodes)
        Of(e)  == SelectSeq(rels, LAMBDA r : r[1] = e)
        Led(e) == Completed([id |-> 100 + e, origin |-> "activation", anchor |-> 0, root |-> 0,
                             epoch |-> epoch, nodes |-> <<e>>, rels |-> Of(e), ver |-> 1])
        lead   == {n \in ToSet(nodes) : n \in FactEvents
                      \/ \A e \in ToSet(nodes) \cap FactEvents : n \notin ToSet(Led(e).nodes)}
        heads  == SelectSeq(nodes, LAMBDA n : n \in lead)
    IN  TrimWorkingSet([NoFacts(epoch) EXCEPT !.nodes = nodes, !.rels = rels, !.roots = ToSet(nodes),
                            !.bundles = [i \in DOMAIN heads |-> Led(heads[i])]],
                       budget, NoFactsKept)

(* One more result on top of the graph; the later texts win.               *)
MergeActivation(w, activation, budget) ==
    ReplaceWorkingSet([nodes |-> w.nodes \o activation.nodes, rels |-> w.rels \o activation.rels],
                      w.epoch, budget)

(* The one-hop network of a locked node.                                   *)
PinNetwork(w, nodes, rels) ==
    LET present == SelectSeq(AppendNew(<<>>, nodes), LAMBDA n : n \in ToSet(w.nodes))
    IN  [w EXCEPT !.pins = present,
                  !.relPins = SelectSeq(AppendNew(<<>>, rels), LAMBDA r : r \in ToSet(w.rels))]

----------------------------------------------------------------------------
(* The contracts of pages: a page that breaks one throws before anything   *)
(* is admitted.                                                            *)

Distinct(s) == Cardinality(ToSet(s)) = Len(s)

ValidTimelineBundle(b) ==
    /\ FactEventsOf(b) = <<b.nodes[1]>> /\ Distinct(b.nodes) /\ Distinct(b.rels)
    /\ \A r \in ToSet(b.rels) : r[1] = b.nodes[1] /\ r[2] \in ToSet(b.nodes)
    /\ \A n \in ToSet(b.nodes) \ FactEvents : <<b.nodes[1], n>> \in ToSet(b.rels)

ValidTimelinePage(page) ==
    /\ \A i \in DOMAIN page : ValidTimelineBundle(page[i])
    /\ Distinct([i \in DOMAIN page |-> page[i].id])
    /\ Distinct([i \in DOMAIN page |-> page[i].nodes[1]])

ValidExpansionPage(p) ==
    /\ p.nodes[1] = p.anchor /\ Distinct(p.nodes) /\ Distinct(p.rels)
    /\ \A r \in ToSet(p.rels) : {r[1], r[2]} \subseteq ToSet(p.nodes)
                                /\ r[1] \in FactEvents /\ r[2] \notin FactEvents
    /\ \A n \in ToSet(p.nodes) \ {p.anchor} : \E r \in ToSet(p.rels) : n \in {r[1], r[2]}
    /\ IF p.anchor \in FactEvents
       THEN \A r \in ToSet(p.rels) : r[1] = p.anchor
       ELSE \A e \in ToSet(FactEventsOf(p)) : <<e, p.anchor>> \in ToSet(p.rels)

----------------------------------------------------------------------------
(* Which expansions belong to a timeline: those whose lineage starts at a  *)
(* node that a bundle of it owns.                                          *)

LineageQualified(w, seeds) ==
    {b.id : b \in {x \in ToSet(w.bundles) : x.origin = "expansion" /\ x.root \in seeds}}

NodesOfBundles(w, ids) == OwnedNodes(Only(w.bundles, ids))

LineageRoot(w, cache, anchor) ==
    LET timeline == NodesOfBundles(w, cache)
        linked   == SelectSeq(w.bundles, LAMBDA b : b.origin = "expansion"
                                 /\ anchor \in ToSet(b.nodes) /\ b.root \in timeline)
    IN  CASE anchor \in timeline                    -> anchor
          [] anchor \notin timeline /\ linked # <<>> -> Last(linked).root
          [] OTHER                                   -> 0

RetentionIds(w, cache) == cache \cup (LineageQualified(w, NodesOfBundles(w, cache)) \ cache)

\* Mutant: dropping a bundle drops its nodes, whoever else owns them.
MaterializeUncounted(w, ids, nodesAllowed, relsAllowed) ==
    LET chosen == Only(w.bundles, ids)
        nodes  == (OwnedNodes(chosen) \cap nodesAllowed)
                  \ OwnedNodes(SelectSeq(w.bundles, LAMBDA b : b.id \notin ids))
        rels   == {r \in OwnedRels(chosen) \cap ToSet(w.rels) \cap relsAllowed :
                       {r[1], r[2]} \subseteq nodes}
        cut    == [i \in DOMAIN chosen |->
                      [chosen[i] EXCEPT !.nodes = SelectSeq(@, LAMBDA n : n \in nodes),
                                        !.rels = SelectSeq(@, LAMBDA r : r \in rels)]]
        order  == AppendNew(<<>>, FlattenSeq([i \in DOMAIN cut |-> cut[i].nodes]))
    IN  [w EXCEPT !.nodes = order,
                  !.rels = AppendNew(<<>>, FlattenSeq([i \in DOMAIN cut |-> cut[i].rels])),
                  !.roots = @ \cap nodes,
                  !.bundles = SelectSeq(cut, LAMBDA b : b.nodes # <<>>),
                  !.pins = SelectSeq(@, LAMBDA n : n \in nodes),
                  !.relPins = SelectSeq(@, LAMBDA r : r \in rels)]

(* What is left of w when only some bundles, nodes and relations may stay. *)
MaterializeBundles(w, ids, nodesAllowed, relsAllowed) ==
    LET chosen == Only(w.bundles, ids)
        nodes  == OwnedNodes(chosen) \cap ToSet(w.nodes) \cap nodesAllowed
        rels   == {r \in OwnedRels(chosen) \cap ToSet(w.rels) \cap relsAllowed :
                       {r[1], r[2]} \subseteq nodes}
        cut    == [i \in DOMAIN chosen |->
                      [chosen[i] EXCEPT !.nodes = SelectSeq(@, LAMBDA n : n \in nodes),
                                        !.rels = SelectSeq(@, LAMBDA r : r \in rels)]]
        order  == AppendNew(<<>>, FlattenSeq([i \in DOMAIN cut |-> cut[i].nodes]))
    IN  [w EXCEPT !.nodes = order,
                  !.rels = AppendNew(<<>>, FlattenSeq([i \in DOMAIN cut |-> cut[i].rels])),
                  !.roots = @ \cap nodes,
                  !.bundles = SelectSeq(cut, LAMBDA b : b.nodes # <<>>),
                  !.pins = SelectSeq(@, LAMBDA n : n \in nodes),
                  !.relPins = SelectSeq(@, LAMBDA r : r \in rels)]

RetainBundles(w, ids) == MaterializeBundles(w, ids, ToSet(w.nodes), ToSet(w.rels))

----------------------------------------------------------------------------
(* The projection: the events that get a place in the scene, then the      *)
(* relations they share the rest of the budget for.                        *)

(* The entity categories the reader filters out; events stay.              *)
WithoutHidden(w, hidden) ==
    LET kept == ToSet(w.nodes) \ (hidden \ FactEvents)
    IN  [w EXCEPT !.nodes = SelectSeq(@, LAMBDA n : n \in kept),
                  !.rels = SelectSeq(@, LAMBDA r : {r[1], r[2]} \subseteq kept),
                  !.roots = @ \cap kept]

PinnedBundle(w, b) ==
    ToSet(b.nodes) \cap ToSet(w.pins) # {} \/ ToSet(b.rels) \cap ToSet(w.relPins) # {}

(* Support that hangs on what is visible, pinned and recent pages first;   *)
(* a page whose anchor is not reachable waits for the page that brings it. *)
RankedSupport(w, visible, support) ==
    LET offered == SelectSeq(Reverse(w.bundles), LAMBDA b : b.id \in support \ visible)
        ranked  == SelectSeq(offered, LAMBDA b : PinnedBundle(w, b))
                       \o SelectSeq(offered, LAMBDA b : ~PinnedBundle(w, b))
        Ready(a, b) == b.origin # "expansion" \/ b.anchor \in a.reach \/ b.root \in a.reach
        Take(a, b) == IF b \in ToSet(a.order) \/ ~Ready(a, b) THEN a
                      ELSE [order |-> Append(a.order, b),
                            reach |-> a.reach \cup (ToSet(b.nodes) \cap ToSet(w.nodes))]
    IN  FoldLeft(LAMBDA a, b : FoldLeft(Take, a, ranked),
                 [order |-> <<>>, reach |-> NodesOfBundles(w, visible) \cap ToSet(w.nodes)],
                 ranked).order

(* The page that brought the anchor of b, when the timeline does not show  *)
(* it.                                                                     *)
SupportParent(w, support, shown, b) ==
    LET before == SelectSeq(SubSeq(w.bundles, 1, SelectInSeq(w.bundles, LAMBDA o : o.id = b.id) - 1),
                            LAMBDA o : o.id \in support /\ b.anchor \in ToSet(o.nodes))
    IN  IF b.anchor = 0 \/ b.anchor \in shown \/ before = <<>> THEN {} ELSE {Last(before)}

(* From a page back to the timeline.                                       *)
SupportChain(w, support, shown, leaf) ==
    LET Ends(b) == \/ b.anchor = 0 \/ b.anchor \in shown
                   \/ SupportParent(w, support, shown, b) = {}
        Step(chain, i) == IF Ends(Last(chain)) THEN chain
                          ELSE chain \o SetToSeq(SupportParent(w, support, shown, Last(chain)) \ ToSet(chain))
    IN  FoldLeft(Step, <<leaf>>, w.bundles)

EventsOfChain(chain) == AppendNew(<<>>, FlattenSeq([i \in DOMAIN chain |-> FactEventsOf(chain[i])]))

(* Pinned events, the active event, the newest or pinned branch as far as  *)
(* it fits, other branches that fit as a whole, then older events.         *)
SelectedEvents(w, visible, support, limit) ==
    LET shown     == NodesOfBundles(w, ToSet(visible)) \cap ToSet(w.nodes)
        ids       == {b.id : b \in ToSet(support)}
        recent    == SelectSeq(Reverse(w.bundles), LAMBDA b : b.id \in ids)
        parents   == UNION {SupportParent(w, ids, shown, b) : b \in ToSet(recent)}
        leaves    == LET l == SelectSeq(recent, LAMBDA b : b \notin parents)
                     IN  IF l = <<>> THEN recent ELSE l
        Chain(b)  == SupportChain(w, ids, shown, b)
        pinned    == SelectSeq(leaves, LAMBDA b : \E c \in ToSet(Chain(b)) : PinnedBundle(w, c))
        first     == AppendNew(pinned, SubSeq(leaves, 1, IF leaves = <<>> THEN 0 ELSE 1))
        others    == SelectSeq(leaves, LAMBDA b : b \notin ToSet(first))
        Present(s) == SelectSeq(s, LAMBDA n : n \in ToSet(w.nodes))
        TakeSome(sel, s) == LET all == AppendNew(sel, Present(s))
                            IN  SubSeq(all, 1, IF Len(all) < limit THEN Len(all) ELSE limit)
        TakeAll(sel, b) == LET all == AppendNew(sel, Present(EventsOfChain(Chain(b))))
                           IN  IF Len(all) > limit THEN sel ELSE all
        pins      == SelectSeq(w.pins, LAMBDA n : n \in FactEvents)
                         \o [i \in DOMAIN w.relPins |-> w.relPins[i][1]]
        active    == IF visible = <<>> \/ w.pins # <<>> \/ w.relPins # <<>> THEN <<>>
                     ELSE FactEventsOf(BundleAt(w, Last(visible)))
        branches  == FoldLeft(LAMBDA sel, b : TakeSome(sel, EventsOfChain(Chain(b))),
                              TakeSome(TakeSome(<<>>, pins), active), first)
        older     == FlattenSeq([i \in DOMAIN visible |->
                         FactEventsOf(BundleAt(w, Reverse(visible)[i]))])
    IN  [events |-> TakeSome(FoldLeft(TakeAll, branches, others), older),
         order  |-> AppendNew(FlattenSeq([i \in DOMAIN first |-> Chain(first[i])]), recent)]

RoomFor(a, r, budget) ==
    /\ Len(a.rels) < budget.edges
    /\ Len(SelectSeq(a.rels, LAMBDA o : o[1] = r[1])) < FactWindow.perEvent
    /\ Cardinality(a.nodes \cup {r[2]}) <= budget.nodes

(* Pinned relations first, then the others, one of each event in turn,     *)
(* while nodes, edges and the event's own limit leave room.                *)
AllocatedRelations(w, sel, visible, budget) ==
    LET byRank == sel.order \o [i \in DOMAIN visible |-> BundleAt(w, Reverse(visible)[i])]
        Of(e, isPinned) == AppendNew(<<>>, FlattenSeq([i \in DOMAIN byRank |->
            SelectSeq(w.rels, LAMBDA r : r[1] = e /\ r \in ToSet(byRank[i].rels)
                                         /\ (r \in ToSet(w.relPins)) = isPinned)]))
        Round(isPinned, i) == FlattenSeq([k \in DOMAIN sel.events |->
            LET own == Of(sel.events[k], isPinned) IN IF i <= Len(own) THEN <<own[i]>> ELSE <<>>])
        Rounds(isPinned) == FlattenSeq([i \in 1..Len(w.rels) |-> Round(isPinned, i)])
        Take(a, r) ==
            IF /\ RoomFor(a, r, budget)
               /\ r[2] \in FactEvents => r[2] \in ToSet(sel.events)
               /\ r[2] \in ToSet(w.nodes)
            THEN [nodes |-> a.nodes \cup {r[2]}, rels |-> Append(a.rels, r)] ELSE a
    IN  FoldLeft(Take, [nodes |-> ToSet(sel.events), rels |-> <<>>], Rounds(TRUE) \o Rounds(FALSE))

ProjectWindow(w, visible, support, budget) ==
    LET limit == IF budget.nodes < FactWindow.events THEN budget.nodes ELSE FactWindow.events
        Used(ranked, sel, take) ==
            {b \in ToSet(w.bundles) :
                /\ b.id \in ToSet(visible) \/ b \in ToSet(ranked)
                /\ \/ ToSet(b.nodes) \cap ToSet(sel.events) # {}
                   \/ ToSet(b.rels) \cap ToSet(take.rels) # {}}
    IN  CHOOSE p \in UNION {UNION {
              {MaterializeBundles(w, {b.id : b \in Used(ranked, sel, take)}, take.nodes, ToSet(take.rels)) :
                 take \in {AllocatedRelations(w, sel, visible, budget)}} :
                 sel \in {SelectedEvents(w, visible, ranked, limit)}} :
                 ranked \in {RankedSupport(w, ToSet(visible), support)}} : TRUE

----------------------------------------------------------------------------
(* A browse session.                                                       *)

BudgetNow == FactBudgets[facts.budget]

VisibleIds(cache) ==
    SubSeq(cache, IF Len(cache) > FactWindow.visible THEN Len(cache) - FactWindow.visible + 1 ELSE 1,
           Len(cache))

ProjectionOf(f) ==
    LET w       == WithoutHidden(f.ws, f.hidden)
        visible == VisibleIds(f.cache)
        seeds   == NodesOfBundles(w, ToSet(visible)) \cap ToSet(w.nodes)
    IN  IF f.cache = <<>> THEN w
        ELSE ProjectWindow(w, visible, LineageQualified(w, seeds) \ ToSet(f.cache),
                           FactBudgets[f.budget])

Protection(w, cache, f) ==
    [nodes |-> NodesOfBundles(w, ToSet(cache)), rels |-> OwnedRels(Only(w.bundles, ToSet(cache))),
     ids |-> ToSet(cache)
         \cup {b.id : b \in {x \in ToSet(ProjectionOf(f).bundles) : x.origin = "expansion"}}]

(* loadTimelinePage after its await: the window decides which bundles go,  *)
(* the page is admitted as a whole or the load is blocked, and what no     *)
(* bundle of the window leads to is dropped.                               *)
LoadTimelinePage ==
    LET page   == TimelinePages[facts.page]
        ids    == [i \in DOMAIN page |-> page[i].id]
        cache  == LET all == facts.cache \o ids
                  IN  SubSeq(all, IF Len(all) > FactWindow.cache THEN Len(all) - FactWindow.cache + 1
                                  ELSE 1, Len(all))
        within == [facts EXCEPT !.cache = SelectSeq(@, LAMBDA i : i \in ToSet(cache))]
    IN  /\ facts.page \in DOMAIN TimelinePages
        /\ ValidTimelinePage(page)
        /\ \E keep \in {Protection(facts.ws, cache, within)} :
           \E adm \in {AdmitUniverseBundles(facts.ws, page, BudgetNow, keep)} :
              /\ adm.accepted /\ ToSet(adm.evicted) \cap ToSet(cache) = {}
              /\ facts' = [facts EXCEPT !.page = @ + 1, !.cache = cache,
                                        !.ws = RetainBundles(adm.ws, RetentionIds(adm.ws, ToSet(cache)))]

(* A page about a node, admitted into the graph that shows the node (over  *)
(* a timeline the component then opens a scene of its own for what was     *)
(* admitted: UniverseSession).                                             *)
AdmitExpansionPage(p) ==
    LET root == LineageRoot(facts.ws, ToSet(facts.cache), p.anchor)
        base == Protection(facts.ws, facts.cache, facts)
    IN  /\ p.anchor \in ToSet(facts.ws.nodes) /\ root # 0
        /\ ValidExpansionPage(p)
        /\ \E adm \in {AdmitUniverseBundle(facts.ws, [p EXCEPT !.root = root], BudgetNow,
                                          [base EXCEPT !.nodes = @ \cup {p.anchor}], FALSE)} :
              adm.accepted /\ facts' = [facts EXCEPT !.ws = adm.ws]

(* A node is locked with its relations, or the lock is released.           *)
LockNetwork(n) ==
    LET rels == SelectSeq(facts.ws.rels, LAMBDA r : n \in {r[1], r[2]})
        near == FlattenSeq([i \in DOMAIN rels |-> <<rels[i][1], rels[i][2]>>])
    IN  /\ n \in ToSet(facts.ws.nodes) /\ facts.ws.pins = <<>>
        /\ facts' = [facts EXCEPT !.ws = PinNetwork(@, <<n>> \o near, rels)]

UnlockNetwork ==
    /\ facts.ws.pins # <<>>
    /\ facts' = [facts EXCEPT !.ws = PinNetwork(@, <<>>, <<>>)]

(* The viewport changes class, and with it the budget.                     *)
ChangeBudget(k) ==
    /\ k # facts.budget
    /\ facts' = [facts EXCEPT !.budget = k,
                     !.ws = IF facts.cache # <<>> THEN @
                            ELSE TrimWorkingSet(@, FactBudgets[k], NoFactsKept)]

FilterCategories(hidden) ==
    /\ hidden # facts.hidden
    /\ facts' = [facts EXCEPT !.hidden = hidden]

(* A search or an answer takes the graph over, or adds to it.              *)
ShowActivation(a) ==
    facts' = [facts EXCEPT !.cache = <<>>, !.page = Len(TimelinePages) + 1,
                  !.ws = IF facts.cache = <<>> /\ facts.ws.nodes # <<>>
                         THEN MergeActivation(@, a, BudgetNow)
                         ELSE ReplaceWorkingSet(a, 2, BudgetNow)]

FactsNext ==
    \/ LoadTimelinePage
    \/ \E p \in ExpansionOffers : AdmitExpansionPage(p)
    \/ \E n \in {TimelinePages[1][1].nodes[2]} \cup {p.anchor : p \in ExpansionOffers} : LockNetwork(n)
    \/ UnlockNetwork
    \/ \E k \in DOMAIN FactBudgets : ChangeBudget(k)
    \/ \E h \in {{}, {n \in ToSet(facts.ws.nodes) \ FactEvents : n % 2 = 1}} : FilterCategories(h)
    \/ \E a \in FactActivations : ShowActivation(a)

FactsSpec == FactsInit /\ [][FactsNext]_facts
----------------------------------------------------------------------------
(* What must hold.                                                         *)

PayloadOf(b) ==
    {p \in UNION {ToSet(TimelinePages[i]) : i \in DOMAIN TimelinePages} \cup ExpansionOffers : p.id = b.id}

(* Bundles enter, share nodes and leave in any order: a bundle that is     *)
(* still resident has all of its nodes and relations, and nothing is       *)
(* resident that no bundle owns (planBundleEvictions counts owners,        *)
(* materializeBundleState drops the rest).                                 *)
BundlesWhole ==
    LET w == facts.ws
    IN  /\ \A b \in ToSet(w.bundles) : PayloadOf(b) # {} => \E p \in PayloadOf(b) :
               ToSet(b.nodes) = ToSet(Completed(p).nodes) /\ ToSet(b.rels) = ToSet(p.rels)
        /\ ToSet(w.nodes) = OwnedNodes(w.bundles)
        /\ ToSet(w.rels) = OwnedRels(w.bundles)

(* The timeline's window and the graph may not drift apart: every bundle   *)
(* of the window is resident, and every resident expansion hangs on a node *)
(* of the window (loadTimelinePage commits both after one admission).      *)
WindowResident ==
    facts.cache # <<>> =>
        /\ ToSet(facts.cache) \subseteq BundleIds(facts.ws)
        /\ \A b \in ToSet(facts.ws.bundles) :
              b.id \in ToSet(facts.cache) \/ b.root \in NodesOfBundles(facts.ws, ToSet(facts.cache))

(* Neither a page nor a smaller budget takes a locked network apart while  *)
(* the lock is held.                                                       *)
LockedNetworkStays ==
    [][\A p \in ExpansionOffers, k \in DOMAIN FactBudgets : AdmitExpansionPage(p) \/ ChangeBudget(k) =>
          /\ ToSet(facts.ws.pins) \subseteq ToSet(facts'.ws.nodes)
          /\ ToSet(facts.ws.relPins) \subseteq ToSet(facts'.ws.rels)]_facts

(* What reaches the scene of a timeline fits the renderer, has no dangling *)
(* relation and no entity without an event, and shows the active event     *)
(* unless a lock has taken its place, whatever was expanded before.        *)
SceneFits ==
    LET active == FactEventsOf(BundleAt(facts.ws, Last(facts.cache)))[1]
    IN  facts.cache # <<>> => \A p \in {ProjectionOf(facts)} :
            /\ FitsBudget(p.bundles, BudgetNow)
            /\ Cardinality(ToSet(p.nodes) \cap FactEvents) <= FactWindow.events
            /\ \A n \in ToSet(p.nodes) \ FactEvents : \E r \in ToSet(p.rels) : r[2] = n
            /\ \A r \in ToSet(p.rels) : {r[1], r[2]} \subseteq ToSet(p.nodes)
            /\ facts.ws.pins = <<>> => active \in ToSet(p.nodes)

(* Memory, window and scene stay whole, resident and within the budget     *)
(* (admitUniverseBundle, retainUniverseWorkingSetBundles, graphData).      *)
FactsConsistent == BundlesWhole /\ WindowResident /\ SceneFits
=============================================================================
