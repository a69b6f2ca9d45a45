--------------------------- MODULE UniverseSession ---------------------------
(***************************************************************************)
(* What the knowledge universe shows and how a reader leaves a timeline    *)
(* for search results, answers and expansions and comes back to it:        *)
(* components/features/knowledge-universe.tsx with the session reducer     *)
(* (lib/universe-session-state.ts) and the page-wide bus                   *)
(* (lib/universe-events.ts).  UniverseTimeline has the timeline itself;    *)
(* here an exploration is a source and the place reached in it.            *)
(*                                                                         *)
(* scene is what the component's refs hold, bus the module state of the    *)
(* bus: its epoch and whether a search or answer panel is in front.  A     *)
(* dispatch on the bus runs its handler before it returns, so that a step  *)
(* is the whole of both.                                                   *)
(***************************************************************************)
EXTENDS UniverseEvidence

CONSTANTS
    Answers,        \* what an assistant's answer may bring: sequences of bundles
    BrowseScene,    \* the bundles a source shows at a place of its timeline
    ExpansionPages, \* the pages of bundles the server has about a node
    SceneSettings   \* the settings the reader goes through: window, transition, cache

ASSUME SessionAssumption ==
    /\ 1 \in DOMAIN SceneSettings
    /\ \A k \in DOMAIN SceneSettings :
          SceneSettings[k].window \in Nat \ {0} /\ SceneSettings[k].transition \in Nat \ {0}
    /\ \A bundles \in Answers : Merged(bundles)
    /\ \A node \in DOMAIN ExpansionPages :
          /\ Listed(ExpansionPages[node]) /\ ExpansionPages[node] # <<>>
          /\ \A i \in DOMAIN ExpansionPages[node] : Merged(ExpansionPages[node][i])

VARIABLES scene, bus

sessionVars == <<scene, bus>>

----------------------------------------------------------------------------
(* Values.                                                                 *)

NoContext     == [is |-> FALSE, scene |-> 0, count |-> 0]
NothingLeft   == [is |-> FALSE]
NoExpansion   == [is |-> FALSE]
SettingNow(s) == SceneSettings[s.setting]
NewKernel(s)  == NewAccumulation(SettingNow(s).window, SettingNow(s).transition)
NodeShown(s, node) == node \in NodesOf(s.shown)

SceneInit ==
    /\ scene = [mode |-> "home", source |-> 0, place |-> 0, shown |-> <<>>, locked |-> 0,
                epoch |-> 0, heard |-> 0, kept |-> NothingLeft, context |-> NoContext,
                closed |-> FALSE, setting |-> 1, cache |-> <<>>,
                acc |-> NewAccumulation(SceneSettings[1].window, SceneSettings[1].transition),
                timer |-> 0, expanding |-> NoExpansion, cursors |-> [n \in {} |-> 0],
                expanded |-> {}, left |-> NothingLeft, unsettled |-> FALSE]
    /\ bus = [epoch |-> 0, active |-> FALSE]

----------------------------------------------------------------------------
(* What the handlers are made of, on a value s of scene.                   *)

(* What a reader would call the exploration: where they are, what is on    *)
(* the screen, what they hold and what they have opened.                   *)
Exploration(s) ==
    [is |-> TRUE, source |-> s.source, place |-> s.place, shown |-> s.shown,
     locked |-> s.locked, epoch |-> s.epoch, cursors |-> s.cursors, expanded |-> s.expanded]

ResetKernel(s, clear) ==
    [s EXCEPT !.timer = 0, !.acc = NewKernel(s), !.cache = IF clear THEN <<>> ELSE @,
              !.unsettled = FALSE]

(* The reducer clears the lock whenever it changes the mode.               *)
EnterMode(s, mode) == [s EXCEPT !.mode = mode, !.locked = 0]

AbortExpansion(s) == [s EXCEPT !.expanding = NoExpansion]

ForgetExpansions(s) ==
    [AbortExpansion(s) EXCEPT !.cursors = [n \in {} |-> 0], !.expanded = {}]

ResetSession(s, epoch) ==
    IF epoch < s.epoch THEN s
    ELSE EnterMode(ForgetExpansions(ResetKernel(
             [s EXCEPT !.epoch = epoch, !.kept = NothingLeft, !.context = NoContext,
                       !.source = 0, !.place = 0, !.shown = <<>>], TRUE)), "home")

Retain(s) ==
    IF s.kept.is THEN s ELSE AbortExpansion([s EXCEPT !.kept = Exploration(s)])

PrepareContextScene(s, epoch) ==
    EnterMode(ForgetExpansions(ResetKernel(
        [s EXCEPT !.closed = FALSE, !.epoch = epoch,
                  !.context = [is |-> TRUE, scene |-> epoch, count |-> 0],
                  !.source = 0, !.place = 0, !.shown = <<>>], FALSE)), "accumulation")

Restore(s) ==
    LET k == s.kept
        e == EnterMode(ResetKernel(s, FALSE), IF k.is /\ k.source # 0 THEN "exploration" ELSE "home")
    IN  IF ~k.is THEN ResetSession([s EXCEPT !.context = NoContext], s.epoch + 1)
        ELSE AbortExpansion([e EXCEPT !.context = NoContext, !.kept = NothingLeft,
                 !.source = k.source, !.place = k.place, !.shown = k.shown, !.epoch = k.epoch,
                 !.locked = k.locked, !.cursors = k.cursors, !.expanded = k.expanded])

(* The graph is rebuilt from what the window holds.                        *)
CommitProjection(s) == [s EXCEPT !.shown = Resident(s.acc.window)]

ScheduleSettle(s) == [s EXCEPT !.timer = s.acc.window.revision]

(* Evidence enters; nothing new leaves the window alone, but what it knows *)
(* better is redrawn.                                                      *)
AppendActivation(s, bundles) ==
    LET cache == CacheAdmit(s.cache, SettingNow(s).cache, bundles)
        acc   == AppendEvidence(s.acc, s.cache, cache, bundles)
        new   == Unseen(s.acc, bundles) # <<>>
        s1    == [s EXCEPT !.cache = cache, !.acc = acc, !.mode = "accumulation",
                           !.locked = IF new THEN 0 ELSE @,
                           !.unsettled = @ /\ ~(new /\ acc.window.moving)]
        s2    == IF new \/ UpdatedIn(s.cache, bundles) # {} THEN CommitProjection(s1) ELSE s1
    IN  IF new /\ acc.window.moving THEN ScheduleSettle(s2) ELSE s2

----------------------------------------------------------------------------
(* The handlers of the bus.                                                *)

(* A late result stays out of a timeline the reader came back to.          *)
OnActivate(s, b, origin, bundles) ==
    LET heard   == [s EXCEPT !.heard = b.epoch]
        late    == s.closed /\ ~b.active /\ s.mode # "accumulation"
        kept    == IF s.mode = "exploration" THEN Retain(heard) ELSE heard
        unheld  == IF origin = "assistant"
                   THEN [kept EXCEPT !.locked = 0,
                                     !.kept = IF @.is THEN [@ EXCEPT !.locked = 0] ELSE @]
                   ELSE kept
        inside  == IF unheld.context.is THEN unheld ELSE PrepareContextScene(unheld, b.epoch)
        counted == [inside EXCEPT !.context.count = Min({@ + 1, 2})]
    IN  CASE b.epoch < s.heard -> s
          [] b.epoch >= s.heard /\ late -> heard
          [] OTHER -> AppendActivation(counted, bundles)

\* Mutant: a search's reset opens its scene without keeping the exploration.
OnResetForgets(s, b, bySearch) ==
    LET heard == [s EXCEPT !.heard = b.epoch]
    IN  CASE b.epoch < s.heard -> s
          [] b.epoch >= s.heard /\ bySearch /\ (b.active \/ s.context.is) ->
                PrepareContextScene(heard, b.epoch)
          [] b.epoch >= s.heard /\ bySearch /\ ~(b.active \/ s.context.is)
                /\ s.mode = "exploration" -> heard
          [] OTHER -> ResetSession([heard EXCEPT !.kept = NothingLeft, !.context = NoContext], b.epoch)

OnReset(s, b, bySearch) ==
    LET heard == [s EXCEPT !.heard = b.epoch]
    IN  CASE b.epoch < s.heard -> s
          [] b.epoch >= s.heard /\ bySearch /\ (b.active \/ s.context.is) ->
                PrepareContextScene(Retain(heard), b.epoch)
          [] b.epoch >= s.heard /\ bySearch /\ ~(b.active \/ s.context.is)
                /\ s.mode = "exploration" -> heard
          [] OTHER -> ResetSession([heard EXCEPT !.kept = NothingLeft, !.context = NoContext], b.epoch)

OnResume(s) == Restore([s EXCEPT !.closed = TRUE])

OnContext(s, active) == IF active THEN [s EXCEPT !.closed = FALSE] ELSE s

----------------------------------------------------------------------------
(* What left the exploration, for the properties: the first departure from *)
(* an exploration writes it, coming back or leaving for good clears it.    *)

Witnessed(s, t) ==
    [t EXCEPT !.left =
        CASE s.mode = "exploration" /\ t.mode = "accumulation" -> Exploration(s)
          [] t.mode # "accumulation"                           -> NothingLeft
          [] OTHER                                             -> @]

SceneBecomes(t) == scene' = Witnessed(scene, t)

Dispatched(b) == [b EXCEPT !.epoch = @ + 1]

----------------------------------------------------------------------------
(* The reader.                                                             *)

(* activateSource: it resumes first, which leaves the context for good.    *)
OpenSource(source) ==
    LET s0 == ResetKernel([scene EXCEPT !.kept = NothingLeft, !.context = NoContext], TRUE)
        s1 == ForgetExpansions(EnterMode(OnResume(s0), "exploration"))
    IN  /\ SceneBecomes([s1 EXCEPT !.source = source, !.place = 1,
                                   !.shown = BrowseScene[source][1], !.epoch = Max({@, 1}),
                                   !.kept = NothingLeft])
        /\ bus' = [bus EXCEPT !.active = FALSE]

(* The timeline goes on (UniverseTimeline).                                *)
BrowseOn(place) ==
    /\ scene.mode = "exploration" /\ place # scene.place
    /\ SceneBecomes([scene EXCEPT !.place = place, !.shown = BrowseScene[scene.source][place],
                                  !.locked = 0])
    /\ UNCHANGED bus

LockNode(node) ==
    /\ NodeShown(scene, node) /\ node # scene.locked
    /\ SceneBecomes([scene EXCEPT !.locked = node])
    /\ UNCHANGED bus

(* The home button of the galaxy, and a new version of the library.        *)
GoHome ==
    /\ scene.mode # "home" \/ scene.shown # <<>>
    /\ SceneBecomes(ResetSession(scene, scene.epoch + 1))
    /\ UNCHANGED bus

(* Entering the universe from the other mode of the application.           *)
EnterExplore ==
    /\ scene' = [Witnessed(scene, OnReset(scene, Dispatched(bus), FALSE)) EXCEPT !.left = NothingLeft]
    /\ bus' = Dispatched(bus)

(* A search or answer panel comes to the front, or leaves it.              *)
ShowPanel ==
    /\ ~bus.active
    /\ SceneBecomes(OnContext(scene, TRUE))
    /\ bus' = [bus EXCEPT !.active = TRUE]

HidePanel ==
    /\ bus.active
    /\ SceneBecomes(OnContext(scene, FALSE))
    /\ bus' = [bus EXCEPT !.active = FALSE]

(* "Return to exploration".                                                *)
ReturnToExploration ==
    /\ bus.active \/ scene.mode = "accumulation"
    /\ SceneBecomes(OnResume(scene))
    /\ bus' = [bus EXCEPT !.active = FALSE]

(* The preferences change: cache and window at once, and the window of a   *)
(* moving scene settles without asking for what still waits.               *)
ChangeSceneSettings(k) ==
    LET c == SceneSettings[k]
        t == [scene EXCEPT !.setting = k, !.cache = ResizeCache(@, c.cache),
                           !.acc.window = ConfigureWindow(@, c.window, c.transition),
                           !.unsettled = scene.acc.pending # <<>>]
    IN  /\ k # scene.setting
        /\ SceneBecomes(IF t.mode = "accumulation" THEN CommitProjection(t) ELSE t)
        /\ UNCHANGED bus

(* An answer reports its evidence, at any time.                            *)
AnswerArrives(bundles) ==
    /\ SceneBecomes(OnActivate(scene, Dispatched(bus), "assistant", bundles))
    /\ bus' = Dispatched(bus)

(* The timer of a transition: it settles the window it was set for.        *)
TransitionTimer ==
    LET acc == AdvanceTransition(scene.acc)
        t   == CommitProjection([scene EXCEPT !.acc = acc, !.timer = 0])
    IN  /\ scene.timer # 0
        /\ SceneBecomes(IF scene.acc.window.revision # scene.timer THEN [scene EXCEPT !.timer = 0]
                        ELSE IF acc.window.moving THEN ScheduleSettle(t) ELSE t)
        /\ UNCHANGED bus

----------------------------------------------------------------------------
(* Expansion of a node.                                                    *)

CursorOf(s, node) == IF node \in DOMAIN s.cursors THEN s.cursors[node] ELSE 0

(* expandNode up to its await: the request of another node is given up.    *)
Expand(node) ==
    /\ scene.mode # "home" /\ NodeShown(scene, node)
    /\ node \in scene.expanded => CursorOf(scene, node) # 0
    /\ SceneBecomes([scene EXCEPT !.locked = 0,
           !.expanding = [is |-> TRUE, node |-> node, cursor |-> CursorOf(scene, node),
                          epoch |-> scene.epoch, source |-> scene.source]])
    /\ UNCHANGED bus

(* Which expansions are still open, and whether one was finished.          *)
RememberPage(s, e, more) ==
    LET related   == UNION {NodesOf(ExpansionPages[e.node][i]) : i \in DOMAIN ExpansionPages[e.node]}
        committed == related \subseteq NodesOf(s.shown)
    IN  IF more THEN [s EXCEPT !.expanded = @ \cup {e.node},
                               !.cursors = [n \in DOMAIN @ \cup {e.node} |->
                                               IF n = e.node THEN e.cursor + 1 ELSE @[n]]]
        ELSE [s EXCEPT !.cursors = [n \in DOMAIN @ \ {e.node} |-> @[n]],
                       !.expanded = IF committed THEN @ \cup {e.node} ELSE @ \ {e.node}]

ExpansionArrives ==
    LET e     == scene.expanding
        done  == AbortExpansion(scene)
        valid == /\ e.epoch = scene.epoch /\ e.source = scene.source
                 /\ CursorOf(scene, e.node) = e.cursor /\ NodeShown(scene, e.node)
        pages == ExpansionPages[e.node]
        s1    == Retain(done)
        s2    == PrepareContextScene([s1 EXCEPT !.kept.locked = 0], e.epoch)
        from  == IF scene.mode = "exploration" THEN [s2 EXCEPT !.context.count = 1]
                 ELSE [done EXCEPT !.locked = 0]
    IN  /\ e.is
        /\ SceneBecomes(IF valid THEN RememberPage(AppendActivation(from, pages[e.cursor + 1]),
                                                   e, e.cursor + 1 < Len(pages))
                        ELSE done)
        /\ UNCHANGED bus

ExpansionFails ==
    /\ scene.expanding.is
    /\ SceneBecomes(AbortExpansion(scene))
    /\ UNCHANGED bus
----------------------------------------------------------------------------
(* What must hold.                                                         *)

(* Search results, answers and expansions may follow one another in any    *)
(* order, with panels opened and closed between them: "return to           *)
(* exploration" gives back the timeline exactly as the reader left it, but *)
(* for the lock, which a question releases (retainCurrentExploration and   *)
(* restoreRetainedExploration).                                            *)
ExplorationRestored ==
    [][ReturnToExploration /\ scene.left.is =>
          Exploration(scene') \in {scene.left, [scene.left EXCEPT !.locked = 0]}]_sessionVars

(* Evidence that waits for the scene has a transition that ends and takes  *)
(* it in (stagePendingBundles, scheduleAccumulationSettle), unless new     *)
(* settings cut the transition short: its timer then finds another         *)
(* revision and what waited stays until new evidence comes.                *)
PendingOnItsWay ==
    scene.acc.pending # <<>> =>
        \/ scene.acc.window.moving /\ scene.timer = scene.acc.window.revision
        \/ scene.unsettled

(* What the reader sees of search results and answers is what the window   *)
(* holds, never more than its limit and one transition, whatever was       *)
(* opened, restored or reconfigured before (commitAccumulationProjection); *)
(* only what settings left waiting may enter the window unseen, when an    *)
(* answer that repeats known evidence stages it.                           *)
SceneShowsWindow ==
    LET w == scene.acc.window
    IN  scene.mode = "accumulation" =>
            /\ scene.shown = Resident(w) \/ scene.unsettled
            /\ Len(w.active) <= w.limit
            /\ Len(Resident(w)) <= w.limit + w.capacity
            /\ Cardinality(EventsOf(Resident(w))) = Len(Resident(w))
=============================================================================
