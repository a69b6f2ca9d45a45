------------------------------ MODULE PetPanel ------------------------------
(* The panel of the astronaut: whether it is open over the exploration, which *)
(* section of the workspace or which node it shows, the context it announces   *)
(* to the universe, the details it loads, and the place the astronaut keeps.   *)
(* app-shell.tsx (mode and section), pet.tsx (panel, context, placement),      *)
(* pet-mini-workspace.tsx (details, conversation) and universe-events.ts (the  *)
(* requests left for a panel that is not there yet).  The handlers of one      *)
(* event and the effects of the render they cause run before the next event.   *)
EXTENDS Naturals, Sequences, SequencesExt, FiniteSets

CONSTANTS Nodes,       \* events and entities of the graph
          Papers,      \* citations and documents, shown without a request
          Threads,     \* conversations of the server
          Draft,       \* a conversation that is not on the server yet
          None,        \* nothing
          PatchLimit,  \* graph patches remembered (24 in the code)
          TrailLimit,  \* bound: details opened one from another
          FetchLimit,  \* bound: requests for details under way
          Events       \* bound: events of a visit, answers of the server and frames not counted

ASSUME PanelAssumption ==
  None \notin Nodes \cup Papers \cup Threads \cup {"search", "answer", "knowledge", "home", "left", "right", "corner", "reset"}

VARIABLES panel, place, visit
panelVars == <<panel, place, visit>>

Sections == {"search", "answer", "knowledge"}
Paths    == Sections \cup {"settings"} \cup Threads

\* The section a page belongs to; the settings belong to none.
PathSection(path) == IF path \in Threads THEN "answer" ELSE IF path \in Sections THEN path ELSE None
RouteThread(path) == IF path \in Threads THEN path ELSE None

Target(p) == IF p.trail = <<>> THEN None ELSE Last(p.trail)

(***************************************************************************)
(* The handlers, as functions of the panel.                                *)
(***************************************************************************)
Entered(p, section) ==
  [p EXCEPT !.mode = "explore",
            !.section = IF section # None THEN section
                        ELSE IF PathSection(p.path) # None THEN PathSection(p.path) ELSE @]

Yielded(p)  == [p EXCEPT !.open = FALSE, !.preview = FALSE, !.actions = FALSE]
Opened(p)   == [p EXCEPT !.open = TRUE, !.view = "workspace", !.actions = FALSE]

Previewed(p) == [Opened(p) EXCEPT !.preview = p.context = None]

WithDetail(p, target) == [p EXCEPT !.view = "workspace", !.history = FALSE, !.trail = <<target>>]
WithFurther(p, target) ==
  [p EXCEPT !.view = "workspace", !.history = FALSE,
            !.trail = IF p.trail # <<>> /\ Last(p.trail) = target THEN @ ELSE Append(@, target)]
WithAsk(p, target) == Entered([p EXCEPT !.view = "workspace", !.history = FALSE,
                                        !.trail = <<>>, !.draft = target], "answer")

(***************************************************************************)
(* The effects of a render, in the order they run.                         *)
(***************************************************************************)
\* A change between the two modes closes the panel.
AfterMode(p, old) ==
  IF p.mode = old.mode THEN p
  ELSE [Yielded(p) EXCEPT !.view = IF p.mode = "normal" THEN "workspace" ELSE @]

NoDetail == [of |-> None, from |-> "none"]

\* The panel mounts and takes the requests that wait for it, or unmounts and
\* forgets its own state.
Mounted(p) ==
  LET there == p.mode = "explore" /\ p.open
      a == IF p.detailWaits # None THEN WithDetail(p, p.detailWaits) ELSE p
      b == IF p.askWaits # None THEN WithAsk(a, p.askWaits) ELSE a
  IN  IF there /\ ~p.there THEN [b EXCEPT !.there = TRUE, !.detailWaits = None, !.askWaits = None]
      ELSE IF there \/ ~p.there THEN p
      ELSE [p EXCEPT !.there = FALSE, !.trail = <<>>, !.history = FALSE, !.draft = None,
                     !.answer = None, !.observed = None, !.patches = <<>>]

\* The context the universe sees: the search or the answer that is in view.
Context(p) ==
  [p EXCEPT !.context = IF /\ p.mode = "explore" /\ p.open /\ p.view = "workspace"
                           /\ ~p.preview /\ p.section \in {"search", "answer"}
                        THEN p.section ELSE None]

\* Another target drops what was loaded and asks again; an answer to an
\* earlier request finds its request dead.
Dead(p) == {[f EXCEPT !.alive = FALSE] : f \in p.fetches}
Loading(p) ==
  IF Target(p) \in Nodes
  THEN [p EXCEPT !.detail = NoDetail, !.failed = FALSE, !.fetches = Dead(p) \cup {[of |-> Target(p), alive |-> TRUE]}]
  ELSE [p EXCEPT !.detail = NoDetail, !.failed = FALSE, !.fetches = Dead(p)]
AfterTarget(p, old) == IF Target(p) = Target(old) /\ p.there = old.there THEN p ELSE Loading(p)

Answering(p) ==
  LET route == RouteThread(p.path)
      a == IF route # p.observed /\ route # None THEN route
           ELSE IF p.answer # None THEN p.answer
           ELSE IF p.front # None THEN p.front
           ELSE IF Threads # {} THEN CHOOSE t \in Threads : TRUE
           ELSE IF p.section = "answer" THEN Draft ELSE None
  IN  IF ~p.there THEN p
      ELSE [p EXCEPT !.observed = route, !.answer = a,
                     !.front = IF p.section = "answer" /\ a # None THEN a ELSE @]

Rendered(p) == /\ panel' = Answering(AfterTarget(Context(Mounted(AfterMode(p, panel))), panel))
               /\ Cardinality(panel'.fetches) <= FetchLimit

PetPanelInit ==
  /\ \E path \in Paths, section \in Sections, mode \in {"normal", "explore"} :
       panel = [mode |-> mode, path |-> path, section |-> section, open |-> FALSE, view |-> "workspace",
                preview |-> FALSE, actions |-> FALSE, context |-> None, detailWaits |-> None,
                askWaits |-> None, there |-> FALSE, trail |-> <<>>, detail |-> NoDetail, failed |-> FALSE,
                fetches |-> {}, patches |-> <<>>, history |-> FALSE, draft |-> None, answer |-> None,
                observed |-> None, front |-> None, source |-> None]
  /\ place = [at |-> "home", free |-> None, placed |-> FALSE, frame |-> TRUE, stored |-> None, user |-> "home"]
  /\ visit = Events

(***************************************************************************)
(* Events of the shell and of the universe.                                *)
(***************************************************************************)
Counted == visit > 0 /\ visit' = visit - 1
Idle == Counted /\ UNCHANGED place
\* A frame that waits for another mode is cancelled, and one is asked for.
NextFrame == Counted /\ place' = [place EXCEPT !.frame = TRUE]

Navigate == \E path \in Paths \ {panel.path} : Rendered([panel EXCEPT !.path = path]) /\ Idle
EnterExplore == panel.mode = "normal" /\ Rendered(Entered(panel, None)) /\ NextFrame
LeaveExplore == panel.mode = "explore" /\ Rendered([panel EXCEPT !.mode = "normal"]) /\ NextFrame

\* The buttons of the astronaut: a section of the workspace, or its settings.
Toolbar == ~panel.open /\ ~panel.actions
OpenWorkspace == \E s \in Sections :
  /\ Toolbar
  /\ Rendered(Entered([Opened(panel) EXCEPT !.preview = FALSE], s))
  /\ IF panel.mode = "normal" THEN NextFrame ELSE Idle
OpenSettings ==
  /\ Toolbar
  /\ Rendered(Entered([panel EXCEPT !.open = TRUE, !.view = "settings", !.preview = FALSE], panel.section))
  /\ IF panel.mode = "normal" THEN NextFrame ELSE Idle
OpenActions == Toolbar /\ Rendered([panel EXCEPT !.actions = TRUE]) /\ Idle

\* A node of the graph is read, or a question about it is asked: the shell, the
\* astronaut and the panel, when it is there, each hear of it.
NodeDetail == \E n \in Nodes :
  /\ panel.mode = "explore"
  /\ LET p == Previewed(Entered(panel, None))
     IN  Rendered(IF panel.there THEN WithDetail(p, n) ELSE [p EXCEPT !.detailWaits = n])
  /\ Idle
NodeAsk == \E n \in Nodes :
  /\ panel.mode = "explore"
  /\ LET p == [Opened(Entered(panel, "answer")) EXCEPT !.preview = FALSE]
     IN  Rendered(IF panel.there THEN WithAsk(p, n) ELSE [p EXCEPT !.askWaits = n])
  /\ Idle

\* A gesture on the canvas, a return to the exploration, a reset of another owner
\* than a search: the panel yields.
CanvasGesture == panel.mode = "explore" /\ panel.open /\ Rendered(Yielded(panel)) /\ Idle
SourceChange == \E s \in {None, "a source"} \ {panel.source} :
  panel.mode = "explore" /\ Rendered([Yielded(panel) EXCEPT !.source = s]) /\ Idle

(***************************************************************************)
(* Events of the panel.                                                    *)
(***************************************************************************)
ChangeSection == \E s \in Sections \ {panel.section} :
  /\ panel.there /\ panel.view = "workspace" /\ panel.trail = <<>>
  /\ Rendered(Entered([panel EXCEPT !.history = FALSE], s)) /\ Idle
SearchHome ==
  /\ panel.there /\ panel.view = "workspace" /\ panel.trail # <<>>
  /\ Rendered(Entered([panel EXCEPT !.history = FALSE, !.trail = <<>>], "search")) /\ Idle
StepBack ==
  /\ panel.there /\ panel.view = "workspace" /\ panel.trail # <<>>
  /\ Rendered([panel EXCEPT !.trail = Front(@)]) /\ Idle
ShowSettings ==
  /\ panel.there /\ panel.view = "workspace"
  /\ Rendered([panel EXCEPT !.view = "settings", !.history = FALSE, !.trail = <<>>]) /\ Idle
HideSettings == panel.there /\ panel.view = "settings" /\ Rendered([panel EXCEPT !.view = "workspace"]) /\ Idle
ReturnToCanvas == panel.there /\ Rendered([Yielded(panel) EXCEPT !.history = FALSE, !.trail = <<>>]) /\ Idle

\* A hit of the search, a citation or a document of it; a node related to the one in view.
OpenFound == \E t \in Nodes \cup Papers :
  /\ panel.there /\ panel.view = "workspace" /\ panel.trail = <<>> /\ panel.section # "knowledge"
  /\ Rendered(WithDetail(panel, t)) /\ Idle
OpenRelated == \E n \in Nodes :
  /\ panel.there /\ panel.detail.from \in {"patch", "search"} /\ Len(panel.trail) < TrailLimit
  /\ Rendered(WithFurther(panel, n)) /\ Idle

\* Mutant: the answer to a request is shown whether or not its target is still in view.
AnsweredLate(f) == {f.of}
Answered(f) == IF f.alive THEN {f.of} ELSE {}
DetailLoaded == \E f \in panel.fetches :
  /\ panel' = [panel EXCEPT !.fetches = @ \ {f},
                            !.detail = IF f.of \notin Answered(f) THEN @
                                       ELSE [of |-> f.of, from |-> IF Contains(panel.patches, f.of) THEN "patch" ELSE "search"]]
  /\ UNCHANGED <<place, visit>>
\* A failure falls back on the patch or the search that named the node.
DetailFails == \E f \in panel.fetches, known \in BOOLEAN :
  /\ panel' = [panel EXCEPT !.fetches = @ \ {f},
                            !.detail = IF ~f.alive THEN @
                                       ELSE IF Contains(panel.patches, f.of) THEN [of |-> f.of, from |-> "patch"]
                                       ELSE IF known THEN [of |-> f.of, from |-> "search"] ELSE @,
                            !.failed = @ \/ (f.alive /\ ~Contains(panel.patches, f.of) /\ ~known)]
  /\ UNCHANGED <<place, visit>>
SearchResultChanges == panel.there /\ Cardinality(panel.fetches) < FetchLimit /\ panel' = Loading(panel) /\ Idle

GraphPatch == \E n \in Nodes :
  /\ panel.there
  /\ LET all == IF Contains(panel.patches, n) THEN panel.patches ELSE Append(panel.patches, n)
     IN  panel' = [panel EXCEPT
           !.patches = IF Len(all) > PatchLimit THEN Tail(all) ELSE all,
           !.detail = IF Target(panel) = n THEN [of |-> n, from |-> "patch"] ELSE @]
  /\ Idle
PatchReset == panel.there /\ panel' = [panel EXCEPT !.patches = <<>>] /\ Idle

PickThread == \E t \in Threads :
  /\ panel.there /\ panel.section = "answer" /\ panel.trail = <<>> /\ panel.history
  /\ Rendered([panel EXCEPT !.answer = t, !.front = t, !.history = FALSE]) /\ Idle
ToggleHistory ==
  /\ panel.there /\ panel.section = "answer" /\ panel.trail = <<>> /\ panel.view = "workspace"
  /\ panel' = [panel EXCEPT !.history = ~@] /\ Idle
NewAnswer ==
  /\ panel.there /\ panel.section = "answer" /\ panel.trail = <<>> /\ panel.view = "workspace"
  /\ panel' = [panel EXCEPT !.answer = Draft, !.front = Draft, !.history = FALSE] /\ Idle

(***************************************************************************)
(* The place of the astronaut: the exploration gives it one of its own.     *)
(***************************************************************************)
PlacedIn(q) == [q EXCEPT !.placed = TRUE, !.free = q.at, !.at = "corner"]
PlacedOut(q) == [q EXCEPT !.placed = FALSE, !.free = None, !.at = IF q.free = None THEN @ ELSE q.free]
PlaceFrame ==
  /\ place.frame
  /\ LET q == [place EXCEPT !.frame = FALSE]
     IN  place' = IF panel.mode = "explore" /\ ~q.placed THEN PlacedIn(q)
                  ELSE IF panel.mode = "normal" /\ q.placed THEN PlacedOut(q) ELSE q
  /\ UNCHANGED <<panel, visit>>
\* Where the reader drops the astronaut is remembered outside the exploration only.
DragTo == \E spot \in {"home", "left", "right"} \ {place.at} :
  /\ ~place.frame
  /\ place' = [place EXCEPT !.at = spot, !.stored = IF panel.mode = "normal" THEN spot ELSE @,
                            !.user = IF panel.mode = "normal" THEN spot ELSE @]
  /\ Counted /\ UNCHANGED panel
\* The reset of the actions puts it in its corner of the page, and remembers that, in either mode.
ResetPlace ==
  /\ panel.actions /\ ~place.frame
  /\ place' = [place EXCEPT !.at = "reset", !.stored = "reset", !.user = IF panel.mode = "normal" THEN "reset" ELSE @]
  /\ Counted /\ UNCHANGED panel
CloseActions == panel.actions /\ Rendered([panel EXCEPT !.actions = FALSE]) /\ Idle

PetPanelNext ==
  \/ Navigate \/ EnterExplore \/ LeaveExplore \/ OpenWorkspace \/ OpenSettings \/ OpenActions \/ CloseActions
  \/ NodeDetail \/ NodeAsk \/ CanvasGesture \/ SourceChange
  \/ ChangeSection \/ SearchHome \/ StepBack \/ ShowSettings \/ HideSettings \/ ReturnToCanvas
  \/ OpenFound \/ OpenRelated \/ DetailLoaded \/ DetailFails \/ SearchResultChanges
  \/ GraphPatch \/ PatchReset \/ PickThread \/ ToggleHistory \/ NewAnswer
  \/ PlaceFrame \/ DragTo \/ ResetPlace

PetPanelSpec == PetPanelInit /\ [][PetPanelNext]_panelVars

(***************************************************************************)
(* Properties.                                                             *)
(***************************************************************************)
PanelTypeOK ==
  /\ panel.section \in Sections /\ panel.path \in Paths /\ panel.context \in Sections \cup {None}
  /\ panel.trail \in Seq(Nodes \cup Papers) /\ panel.answer \in Threads \cup {Draft, None}
  /\ panel.detail.of \in Nodes \cup {None} /\ panel.source \in {None, "a source"}

\* A request for a node waits only for a panel that is about to come: one that
\* is there has taken it, so nothing old opens by itself (universe-events.ts).
NothingWaits == panel.there => panel.detailWaits = None /\ panel.askWaits = None

\* What the panel shows of a node is about the node it names, and a node in view
\* has its detail, its failure or a request on the way (pet-mini-workspace.tsx).
DetailIsTargets ==
  /\ panel.detail.of # None => Target(panel) = panel.detail.of
  /\ (panel.there /\ Target(panel) \in Nodes)
       => \/ panel.detail.of # None \/ panel.failed
          \/ \E f \in panel.fetches : f.alive /\ f.of = Target(panel)
  /\ \A f \in panel.fetches : f.alive => f.of = Target(panel)

\* The universe believes in a context only while the panel shows one.
ContextInView == panel.context # None => panel.there /\ panel.view = "workspace" /\ panel.section = panel.context

\* The exploration borrows the astronaut: back on the pages it stands where the
\* reader last left it there.
PlaceComesBack == (panel.mode = "normal" /\ ~place.placed) => place.at = place.user

\* The panel, the context it announces, the detail it loads and the place of the
\* astronaut agree (pet.tsx, pet-mini-workspace.tsx, app-shell.tsx).
PanelConsistent == PanelTypeOK /\ NothingWaits /\ DetailIsTargets /\ ContextInView /\ PlaceComesBack
=============================================================================
