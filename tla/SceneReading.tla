---------------------------- MODULE SceneReading ----------------------------
(***************************************************************************)
(* What the reader of the knowledge universe looks at: the events and      *)
(* entities the scene engine holds (universe-scene-engine.ts), the one     *)
(* that is locked, selected, hovered or reached with the keyboard, the     *)
(* cards that are shown, and the reading focus the controller keeps beside *)
(* it (knowledge-universe.tsx).  Data is delivered in three ways: a page   *)
(* turn or synchronisation that moves the window (nodes that leave stay as *)
(* ghosts until the motion ends), new nodes in place, another epoch or     *)
(* layout strategy.  The renderer may fail and be mounted again.           *)
(*                                                                         *)
(* Nodes are numbers, in the order of the timeline.  A position is Axis,   *)
(* along the timeline, or FreeCell, a place of the evidence graph.         *)
(* Sources, opacities and pixels are left out: the reader is inside a      *)
(* source or before gathered evidence, and what leaves the viewport is a   *)
(* choice.  The 512 places that are remembered suffice for all nodes.      *)
(***************************************************************************)
EXTENDS Integers, FiniteSets, Functions

CONSTANTS ReadNodes,        \* events and entities, numbers above 0
          ReadEvents,       \* those that are events
          ReadLinks,        \* the pairs {event, entity} that are related
          ReadBudget,       \* nodes the scene renders
          ReadCards,        \* event cards shown
          ReadTrips         \* bounds, one of which is chosen at the start

ReadActs == {"hover", "keys", "click", "assistant", "turn", "sync", "more", "gather", "home",
             "hide", "leave", "fail", "cards", "poll"}
ASSUME ReadAssumption ==
    /\ ReadNodes \subseteq Nat \ {0} /\ IsFiniteSet(ReadNodes) /\ ReadEvents \subseteq ReadNodes
    /\ ReadBudget \in Nat /\ ReadCards \in Nat \ {0}
    /\ \A t \in ReadTrips : t.acts \subseteq ReadActs /\ t.left \in Nat /\ t.still \in BOOLEAN

NoNode == 0
Axis   == 0                 \* the place of a node on the timeline

VARIABLES look,             \* the engine
          desk              \* the controller, and the bounds
readVars == <<look, desk>>

Scenes   == {S \in SUBSET ReadNodes : Cardinality(S) <= ReadBudget}
Near(n)  == {m \in ReadNodes : {m, n} \in ReadLinks}
Firsts(S, k) == {n \in S : Cardinality({m \in S : m < n}) < k}

----------------------------------------------------------------------------
(* Focus and cards.                                                        *)

FirstOf4(a, b, c, d) ==
    IF a # NoNode THEN a ELSE IF b # NoNode THEN b ELSE IF c # NoNode THEN c ELSE d
LabelFocus(l) == FirstOf4(l.locked, l.selected, l.keyed, l.hovered)
DeskBusy(l)       == l.turn # "idle"

(* The cards of the focus and its relations, or of the first events in     *)
(* view, with the entities related to them.                                *)
PlanCards(l) ==
    LET here    == l.nodes \ l.ghosts
        focus   == LabelFocus(l)
        focused == focus \in here
        network == IF focused THEN here \cap ({focus} \cup Near(focus)) ELSE here
        own     == {focus} \cap ReadEvents \cap here
        events  == own \cup Firsts((network \cap ReadEvents) \ own, ReadCards - Cardinality(own))
        related == IF focused THEN network ELSE UNION {Near(e) : e \in events}
    IN IF ~focused /\ ~l.withCards THEN {}
       ELSE events \cup ((network \ ReadEvents) \cap related)

RebuildLabels(l) == [l EXCEPT !.label = LabelFocus(l), !.cards = PlanCards(l)]
ApplyHighlight(l) == IF LabelFocus(l) # l.label THEN RebuildLabels(l) ELSE l

ClearKeys(l, refresh) ==
    LET clear == [l EXCEPT !.keyed = NoNode] IN
    IF l.keyed # NoNode /\ refresh THEN ApplyHighlight(clear) ELSE clear

HoverNode(l, n) ==
    IF DeskBusy(l) THEN l
    ELSE ApplyHighlight([ClearKeys(l, FALSE) EXCEPT !.clearing = FALSE, !.hovered = n])
HoverNothing(l) ==
    IF l.hovered = NoNode THEN [l EXCEPT !.clearing = FALSE]
    ELSE ApplyHighlight([l EXCEPT !.clearing = FALSE, !.hovered = NoNode])

FocusKey(l, n) ==
    ApplyHighlight([l EXCEPT !.clearing = FALSE, !.hovered = NoNode, !.keyed = n])

ReleaseLock(l) == [l EXCEPT !.locked = NoNode]
UnlockNode(l)  == IF l.live THEN RebuildLabels(ReleaseLock(l)) ELSE l
LockNode(l, n) ==
    IF ~l.live \/ n \notin l.nodes THEN l
    ELSE RebuildLabels([l EXCEPT !.locked = n, !.entering = @ \ {n}])

ClearSelection(l) ==
    IF ~l.live \/ LabelFocus(l) = NoNode THEN l
    ELSE RebuildLabels([l EXCEPT !.locked = NoNode, !.selected = NoNode, !.hovered = NoNode,
                                 !.keyed = NoNode, !.clearing = FALSE])

SetSelection(l, n) ==
    LET next == IF n \in l.nodes THEN n ELSE NoNode IN
    IF ~l.live \/ l.selected = next THEN l ELSE ApplyHighlight([l EXCEPT !.selected = next])

----------------------------------------------------------------------------
(* Nodes that come, move and go.                                           *)

\* Mutant: what was leaving is kept.
KeepRetiring(l) == RebuildLabels(l)
PruneRetiring(l) ==
    IF l.ghosts = {} THEN l
    ELSE RebuildLabels([l EXCEPT !.nodes = @ \ l.ghosts, !.ghosts = {},
                                 !.place = Restrict(@, l.nodes \ l.ghosts)])

FinishTurn(l) == IF l.turn # "entering" THEN l ELSE [PruneRetiring(l) EXCEPT !.turn = "idle"]
CancelTurn(l) == [PruneRetiring([l EXCEPT !.moving = {}]) EXCEPT !.turn = "idle"]

(* The force layout of entered evidence comes to rest; every place is      *)
(* remembered.                                                             *)
FinishSettle(l) ==
    [l EXCEPT !.settling = {},
              !.memory = [n \in DOMAIN @ \cup (l.settling \cap l.nodes) |->
                            IF n \in l.settling \cap l.nodes THEN l.place[n] ELSE @[n]]]

(* Nodes that stay keep their place; entrants take the timeline's, the     *)
(* remembered one, or a free one.                                          *)
FreeCell == 1
ReadTarget(l, n, animated) ==
    IF animated \/ l.strategy = "exploration" THEN Axis
    ELSE IF n \in DOMAIN l.memory THEN l.memory[n] ELSE FreeCell
Placed(l, old, S, animated) ==
    [n \in S |-> IF n \in old /\ ~animated THEN l.place[n] ELSE ReadTarget(l, n, animated)]

Remembered(l, boundary) == IF boundary THEN << >> ELSE l.memory

Ghosts(old, S) == Firsts(old \ S, ReadBudget - Cardinality(S))

(* The evidence graph shows no entity without an event.                    *)
Projected(l, S) ==
    IF l.strategy = "exploration" THEN S
    ELSE {n \in S : n \in ReadEvents \/ Near(n) \cap S # {}}

Forget(l, n) == IF n \in l.nodes THEN n ELSE NoNode
DropFocus(l) ==
    [l EXCEPT !.locked = Forget(l, @), !.selected = Forget(l, @), !.keyed = Forget(l, @),
              !.clearing = @ /\ l.hovered \in l.nodes, !.hovered = Forget(l, @)]

(* A delivery d: the nodes, whether the window moved, what moved it, the   *)
(* epoch, and whether an exploration is restored.  The engine at rest      *)
(* takes the nodes over.                                                   *)
NewEpoch(l, d) == d.epoch # l.epoch
Moves(l, d)    == d.moved /\ ~NewEpoch(l, d)
Stable(l, d)   == l.boundary /\ d.restoring
Animated(l, d) == Moves(l, d) /\ ~Stable(l, d) /\ l.strategy = "exploration"
CutShort(l, d) ==
    \/ NewEpoch(l, d)
    \/ d.cause = "synchronization" /\ l.turn = "entering"
    \/ Moves(l, d) /\ d.cause = "synchronization" /\ l.turn = "asked"

TakeOver(l, d, base) ==
    LET animated == Animated(l, d)
        old    == IF l.boundary THEN {} ELSE base.nodes
        S      == Projected(base, d.nodes)
        memory == Remembered(base, l.boundary \/ NewEpoch(l, d))
        here   == Placed([base EXCEPT !.memory = memory], old, S, animated)
        ghosts == IF animated /\ ~desk.trip.still THEN Ghosts(old, S) ELSE {}
        came   == IF animated \/ Stable(l, d) \/ desk.trip.still THEN {} ELSE S \ old
    IN [base EXCEPT
          !.boundary = FALSE, !.epoch = d.epoch, !.nodes = S \cup ghosts, !.ghosts = ghosts,
          !.moving = IF animated /\ ~desk.trip.still THEN S \cup ghosts ELSE {},
          !.entering = IF animated THEN {} ELSE (base.entering \cap old \cap S) \cup came,
          !.place = [n \in S \cup ghosts |-> IF n \in S THEN here[n] ELSE base.place[n]],
          !.memory = [n \in DOMAIN memory \cup S |-> IF n \in S THEN here[n] ELSE memory[n]],
          !.locked = IF NewEpoch(l, d) THEN NoNode ELSE base.locked,
          !.turn = IF animated THEN "entering" ELSE base.turn]

ReadData(l, d) ==
    LET rest  == FinishSettle(l)
        base  == IF CutShort(l, d) THEN CancelTurn(rest) ELSE rest
        shown == RebuildLabels(DropFocus(TakeOver(l, d, base)))
    IN IF ~l.live THEN l ELSE IF shown.moving = {} THEN FinishTurn(shown) ELSE shown

SetStrategy(l, s) ==
    IF ~l.live \/ l.strategy = s THEN l
    ELSE RebuildLabels([CancelTurn(FinishSettle(l)) EXCEPT !.strategy = s, !.boundary = TRUE])

PauseReading(l) ==
    IF ~l.live THEN l
    ELSE [FinishSettle(ClearKeys(l, FALSE)) EXCEPT !.paused = TRUE, !.clearing = FALSE,
                                                   !.hovered = NoNode]
ResumeReading(l) == IF ~l.live \/ desk.hidden THEN l ELSE ApplyHighlight([l EXCEPT !.paused = FALSE])

ClearReading(l) ==
    IF ~l.live THEN l
    ELSE RebuildLabels(HoverNothing(ClearKeys([CancelTurn(l) EXCEPT !.locked = NoNode,
                                                                    !.selected = NoNode], FALSE)))

NewEngine ==
    [live |-> TRUE, paused |-> FALSE, strategy |-> "exploration", boundary |-> FALSE, epoch |-> 0,
     turn |-> "idle", nodes |-> {}, ghosts |-> {}, moving |-> {}, entering |-> {}, settling |-> {},
     place |-> << >>, memory |-> << >>, locked |-> NoNode, selected |-> NoNode, hovered |-> NoNode,
     keyed |-> NoNode, clearing |-> FALSE, label |-> NoNode, cards |-> {}, withCards |-> TRUE]

(* React commits: the layout effects of the scene component.               *)
Delivery(c, moved, cause) ==
    [nodes |-> c.scene, moved |-> moved, cause |-> cause, epoch |-> c.epoch, restoring |-> FALSE]
Deliver(l, c, d) ==
    IF ~c.interactive THEN SetStrategy(l, c.strategy)
    ELSE ResumeReading(SetSelection(ReadData(SetStrategy(l, c.strategy), d), c.selected))

----------------------------------------------------------------------------
Doing(act) == act \in desk.trip.acts /\ desk.left > 0
Paid(c)    == [c EXCEPT !.left = @ - 1]
AtScene    == look.live /\ ~look.paused /\ desk.interactive
Unfocused(c) == [c EXCEPT !.locked = NoNode, !.selected = NoNode]
CancelFrame(c) == [c EXCEPT !.lockNext = NoNode, !.homeNext = FALSE]     \* clearCameraSchedule
LetGo(l)   == /\ look' = ClearSelection(l)               \* releaseReadingFocus
              /\ desk' = Paid(Unfocused(desk))
LockForReading(l, n) ==
    /\ look' = SetSelection(LockNode(l, n), n)
    /\ desk' = Paid([desk EXCEPT !.locked = n, !.selected = n])

(* Pointer and keyboard.  A node is not hovered during a page turn.        *)
HoverOver ==
    /\ Doing("hover") /\ AtScene
    /\ \E n \in look.nodes : look' = HoverNode(look, n)
    /\ desk' = Paid(desk)
HoverOff ==                 \* the pointer is between a star and its card, or gone
    /\ Doing("hover") /\ AtScene /\ look.hovered # NoNode /\ UNCHANGED desk
    /\ look' \in {[look EXCEPT !.clearing = TRUE], HoverNothing(look)}
HoverTimer == look.clearing /\ look' = HoverNothing(look) /\ UNCHANGED desk

Arrow ==
    /\ Doing("keys") /\ AtScene /\ ~DeskBusy(look)
    /\ \E n \in (look.nodes \ look.entering) \cup {NoNode} :
         look' = IF n = NoNode THEN ClearKeys(look, TRUE) ELSE FocusKey(look, n)
    /\ desk' = Paid(desk)
Blur == Doing("keys") /\ look.keyed # NoNode /\ look' = ClearKeys(look, TRUE) /\ UNCHANGED desk
Escape ==
    /\ Doing("keys") /\ AtScene
    /\ LET plain == HoverNothing(ClearKeys(look, TRUE)) IN
       IF look.locked # NoNode \/ look.selected # NoNode
       THEN LetGo(plain)
       ELSE look' = plain /\ desk' = Paid(desk)

(* A click on a star or a card, or Enter: it locks the node, or lets go of *)
(* the one that is locked.                                                 *)
Click(n) ==
    /\ Doing("click") /\ AtScene /\ ~DeskBusy(look)
    /\ IF desk.locked = n THEN LetGo(ClearKeys(look, TRUE))
       ELSE LockForReading(ClearKeys(look, TRUE), n)
ClickNode == \E n \in look.nodes : Click(n)
ViewDetails ==
    /\ Doing("click") /\ AtScene /\ ~DeskBusy(look) /\ look.label \in look.cards
    /\ LockForReading(ClearKeys(look, TRUE), look.label)
(* The background, Explore more, Ask AI, the wheel and the pager let go.   *)
Dismiss ==
    /\ Doing("click") /\ AtScene /\ (desk.locked # NoNode \/ LabelFocus(look) # NoNode)
    /\ LetGo(look)

(* The assistant shows a node, to be read or only selected.  The frame     *)
(* that was to come is dropped, also when the node is not in the scene.    *)
Activate ==
    /\ Doing("assistant")
    /\ \E n \in ReadNodes, lock \in BOOLEAN :
         LET c == CancelFrame(desk) IN
         IF n \notin desk.scene THEN UNCHANGED look /\ desk' = Paid(c)
         ELSE /\ look' = SetSelection(IF lock THEN LockNode(look, n) ELSE UnlockNode(look), n)
              /\ desk' = Paid([c EXCEPT !.locked = IF lock THEN n ELSE NoNode, !.selected = n])

(* A page turn; the pager has let go of the lock before, the wheel too.    *)
AskPage ==
    /\ Doing("turn") /\ AtScene /\ desk.strategy = "exploration" /\ ~DeskBusy(look)
    /\ look.locked = NoNode
    /\ look' = HoverNothing([ClearKeys(look, FALSE) EXCEPT !.turn = "asked"])
    /\ desk' = Paid(desk)
PageBlocked == look.turn = "asked" /\ look' = [look EXCEPT !.turn = "idle"] /\ UNCHANGED desk

Commits(c, moved, cause) ==
    /\ look' = Deliver(look, c, Delivery(c, moved, cause))
    /\ desk' = c
(* What is locked is pinned in the window.                                 *)
PageComes ==
    /\ look.turn = "asked" /\ desk.locked = NoNode
    /\ \E S \in Scenes \ {desk.scene} : Commits([desk EXCEPT !.scene = S], TRUE, "journey")
Synchronise ==
    /\ Doing("sync") /\ desk.interactive
    /\ \E S \in Scenes \ {desk.scene} :
         /\ desk.locked = NoNode \/ desk.locked \in S
         /\ \E moved \in BOOLEAN :
              Commits(Paid([desk EXCEPT !.scene = S]), moved, "synchronization")
MoreNodes ==
    /\ Doing("more") /\ desk.interactive
    /\ \E S \in Scenes \ {desk.scene} :
         /\ desk.scene \subseteq S
         /\ Commits(Paid([desk EXCEPT !.scene = S]), FALSE, "synchronization")
(* The budget has no room for what the lock keeps: it is released.         *)
ReleaseForCapacity ==
    /\ Doing("more") /\ desk.locked # NoNode
    /\ look' = SetSelection(UnlockNode(look), NoNode) /\ desk' = Paid(Unfocused(desk))
WithCards ==
    /\ Doing("cards") /\ look.live
    /\ look' = RebuildLabels([look EXCEPT !.withCards = ~@]) /\ desk' = Paid(desk)

(* Another scene: the evidence of a search or an answer, the return from   *)
(* it, the overview.                                                       *)
NextEpoch(c, S, s) ==
    [CancelFrame(Unfocused(c)) EXCEPT !.scene = S, !.strategy = s, !.epoch = @ + 1]
GatherEvidence ==
    /\ Doing("gather") /\ desk.interactive /\ desk.strategy = "exploration"
    /\ \E S \in Scenes, asked \in BOOLEAN :
         LET c == Paid([NextEpoch(desk, S, "accumulation") EXCEPT
                          !.kept = [is |-> TRUE, scene |-> desk.scene,
                                    locked |-> IF asked THEN NoNode ELSE desk.locked,
                                    selected |-> IF asked THEN NoNode ELSE desk.selected]]) IN
         /\ look' = Deliver(UnlockNode(look), c, Delivery(c, TRUE, "synchronization"))
         /\ desk' = c
ReturnToExploration ==
    /\ Doing("gather") /\ desk.interactive /\ desk.kept.is
    /\ LET c == Paid([NextEpoch(desk, desk.kept.scene, "exploration") EXCEPT
                        !.locked = desk.kept.locked, !.selected = desk.kept.selected,
                        !.lockNext = desk.kept.locked, !.kept = [is |-> FALSE]]) IN
       /\ look' = Deliver(UnlockNode(look), c,
                          [Delivery(c, TRUE, "synchronization") EXCEPT !.restoring = TRUE])
       /\ desk' = c
RestoredFrame ==
    /\ desk.lockNext # NoNode /\ ~desk.hidden
    /\ look' = LockNode(look, desk.lockNext)
    /\ desk' = [desk EXCEPT !.lockNext = NoNode]
ToOverview ==
    /\ Doing("home") /\ desk.interactive
    /\ \E S \in Scenes :
         LET c == Paid([NextEpoch(desk, S, "exploration") EXCEPT !.kept = [is |-> FALSE],
                                                                 !.homeNext = TRUE]) IN
         /\ look' = Deliver(UnlockNode(look), c, Delivery(c, TRUE, "synchronization"))
         /\ desk' = c
(* The overview is shown in a frame, and again after each poll of the      *)
(* manifest.                                                               *)
FocusOverview(c) == look' = SetSelection(UnlockNode(look), NoNode) /\ desk' = Unfocused(c)
HomeFrame     == desk.homeNext /\ ~desk.hidden /\ FocusOverview([desk EXCEPT !.homeNext = FALSE])
OverviewAgain == Doing("poll") /\ desk.interactive /\ ~desk.hidden /\ FocusOverview(Paid(desk))

(* The tab, the workspace that covers the universe, and the renderer.      *)
HideTab == /\ Doing("hide") /\ ~desk.hidden
           /\ look' = PauseReading(look) /\ desk' = Paid([desk EXCEPT !.hidden = TRUE])
ShowTab == /\ desk.hidden /\ desk' = [desk EXCEPT !.hidden = FALSE]
           /\ look' = IF look.live /\ desk.interactive
                      THEN ApplyHighlight([look EXCEPT !.paused = FALSE]) ELSE look
Cover == /\ Doing("leave") /\ desk.interactive
         /\ look' = PauseReading(ClearReading(look))
         /\ desk' = Paid([CancelFrame(Unfocused(desk)) EXCEPT !.interactive = FALSE])
Uncover == /\ ~desk.interactive
           /\ LET c == [desk EXCEPT !.interactive = TRUE] IN
              Commits(c, FALSE, "synchronization")
RendererFails == /\ Doing("fail") /\ look.live
                 /\ look' = [NewEngine EXCEPT !.live = FALSE] /\ desk' = Paid(desk)
\* The same data, strategy and selection are given to the new engine.
RetryScene ==
    /\ ~look.live
    /\ LET new == [NewEngine EXCEPT !.paused = desk.hidden, !.epoch = desk.epoch,
                                    !.boundary = desk.strategy # "exploration",
                                    !.strategy = desk.strategy] IN
       look' = Deliver(new, desk, Delivery(desk, FALSE, "synchronization"))
    /\ UNCHANGED desk

(* Motions come to their end while frames are drawn.                       *)
MotionsEnd ==
    /\ look.moving # {} /\ ~look.paused /\ UNCHANGED desk
    /\ look' = FinishTurn([look EXCEPT !.moving = {}])
EntriesEnd ==
    /\ look.entering # {} /\ ~look.paused /\ UNCHANGED desk
    /\ look' = [look EXCEPT !.entering = {},
                            !.settling = IF look.strategy = "exploration" THEN @
                                         ELSE @ \cup look.entering]
SettleTimer == look.settling # {} /\ look' = FinishSettle(look) /\ UNCHANGED desk
(* The effect that notices that what is read is gone.                      *)
DropMissing ==
    /\ ({desk.locked, desk.selected} \ {NoNode}) \ desk.scene # {}
    /\ look' = ClearSelection(look) /\ desk' = Unfocused(desk)

ReadInit ==
    /\ \E t \in ReadTrips, S \in Scenes :
         /\ desk = [trip |-> t, left |-> t.left, scene |-> S, strategy |-> "exploration",
                    epoch |-> 1, interactive |-> TRUE, hidden |-> FALSE, locked |-> NoNode,
                    selected |-> NoNode, kept |-> [is |-> FALSE], lockNext |-> NoNode,
                    homeNext |-> FALSE]
         /\ look = RebuildLabels([NewEngine EXCEPT !.epoch = 1, !.nodes = S,
                                    !.place = [n \in S |-> Axis], !.memory = [n \in S |-> Axis]])

ReadReader ==
    \/ HoverOver \/ HoverOff \/ HoverTimer \/ Arrow \/ Blur \/ Escape \/ ClickNode \/ ViewDetails
    \/ Dismiss \/ AskPage \/ HideTab \/ ShowTab \/ Cover \/ Uncover
ReadController ==
    \/ Activate \/ PageBlocked \/ PageComes \/ Synchronise \/ MoreNodes \/ ReleaseForCapacity
    \/ WithCards \/ GatherEvidence \/ ReturnToExploration \/ RestoredFrame \/ ToOverview
    \/ HomeFrame \/ OverviewAgain \/ RendererFails \/ RetryScene \/ DropMissing
ReadFrames == MotionsEnd \/ EntriesEnd \/ SettleTimer
ReadNext == ReadReader \/ ReadController \/ ReadFrames
ReadSpec == ReadInit /\ [][ReadNext]_readVars

----------------------------------------------------------------------------
(* Type invariant.                                                         *)
ReadTypeOK ==
    /\ desk.left \in 0..desk.trip.left /\ desk.scene \in Scenes
    /\ look.nodes \subseteq ReadNodes /\ DOMAIN look.place = look.nodes
    /\ look.ghosts \subseteq look.nodes /\ look.moving \subseteq look.nodes
    /\ look.turn \in {"idle", "asked", "entering"}

(* What leaves with a page is gone when the page has turned, whatever ends *)
(* the turn.                                                               *)
GhostsLeave == look.ghosts # {} => look.turn = "entering"

(* A turn never draws more than the budget, the page that goes and the one *)
(* that comes together.                                                    *)
TurnWithinBudget == Cardinality(look.nodes) <= ReadBudget

(* What is locked for reading is in the scene; the node that the engine    *)
(* locks is drawn to stay and has its card, as long as it is in the scene: *)
(* the frame of a restoration still locks a node that was let go of and    *)
(* has left meanwhile.                                                     *)
LockIsShown ==
    /\ desk.locked # NoNode => desk.locked \in desk.scene
    /\ look.locked \in desk.scene => look.locked \in (look.nodes \ look.ghosts) \cap look.cards

(* Positions of the timeline never reach the evidence graph ("their        *)
(* remembered positions must not").                                        *)
PlacesDoNotLeak ==
    look.strategy = "accumulation" /\ ~look.boundary => \A n \in look.nodes : look.place[n] # Axis

(* What is read, what is shown and what leaves stay consistent (setData,   *)
(* lockNode, updateTimelineMotions of the scene engine).                   *)
ReadingConsistent ==
    ReadTypeOK /\ GhostsLeave /\ TurnWithinBudget /\ LockIsShown /\ PlacesDoNotLeak
=============================================================================
