--------------------------- MODULE UniverseScene ---------------------------
(***************************************************************************)
(* The camera of the knowledge universe: the navigation of the scene       *)
(* engine (universe-scene-engine.ts), the React component that feeds it    *)
(* (universe-scene.tsx) and what the controller asks of it                 *)
(* (knowledge-universe.tsx).  It stands before the overview, at the        *)
(* origin of a source, flies along the source's timeline, is taken back to *)
(* the origin, or frames the evidence of a search; animation frames,       *)
(* timers, gestures, hiding the tab and new data move it.                  *)
(*                                                                         *)
(* Depth counts places along the timeline, 0 the source's origin.  A tween *)
(* of the 3D library is a move to its end; easing, labels, highlight and   *)
(* the node motions of a page turn are abstracted (turn says how far a     *)
(* page turn is).                                                          *)
(***************************************************************************)
EXTENDS Integers, FiniteSets

CONSTANTS SceneSources,     \* sources with a timeline
          DeepestPlace,     \* the last place of a timeline
          SceneTrips        \* bounds, one of which is chosen at the start

(* reduced: the reader prefers reduced motion; acts: what may happen       *)
(* besides frames and timers; left: how often.                             *)
SceneActs == {"enter", "home", "gather", "return", "turn", "sync", "back", "wheel", "grab",
              "orbit", "lock", "hide", "leave", "poll", "search"}
ASSUME SceneAssumption ==
    /\ DeepestPlace \in Nat \ {0}
    /\ \A t \in SceneTrips : t.reduced \in BOOLEAN /\ t.acts \subseteq SceneActs /\ t.left \in Nat

NoSource == "none"          \* no source has this name
Nowhere  == -1              \* no target of a glide

VARIABLES eye,              \* the engine
          stage             \* what the controller shows, and the bounds
sceneVars == <<eye, stage>>

----------------------------------------------------------------------------
(* Small transitions of the engine, from its state to its state.           *)

Between(low, high, x) == IF x < low THEN low ELSE IF x > high THEN high ELSE x
Journey(e)    == e.interactive /\ e.flight # NoSource
FirstPlace(e) == Between(0, DeepestPlace, e.near)

StartLoop(e)  == IF e.paused THEN e ELSE [e EXCEPT !.frame = TRUE]
Brake(e)      == [e EXCEPT !.speed = 0, !.target = Nowhere]
StandAt(e, d) == [Brake(e) EXCEPT !.depth = d, !.aim = d]
FlyTo(e, d)   == [e EXCEPT !.speed = 0, !.target = d]
FreeGaze(e)   == [e EXCEPT !.gaze = FALSE, !.gazeTimer = FALSE]
StopTurn(e)   == [e EXCEPT !.turn = "idle"]
DropEntry(e)  == [e EXCEPT !.entry = "none", !.entryTimer = FALSE]

MarkOrigin(e) ==
    [DropEntry(e) EXCEPT !.phase = "origin", !.mark = "core", !.gate = "armed"]

\* Mutant: taking over keeps the automatic entry.
MarkExploringKeepsEntry(e) ==
    IF e.flight = NoSource THEN e ELSE [e EXCEPT !.back = FALSE, !.gate = "off", !.phase = "exploring"]
MarkExploring(e) ==
    IF e.flight = NoSource THEN e
    ELSE [DropEntry(e) EXCEPT !.back = FALSE, !.gate = "off", !.phase = "exploring"]

ScheduleEntry(e, place) ==
    [e EXCEPT !.phase = "entering", !.entry = "holding", !.entryTo = place, !.entryTimer = TRUE]

(* The timer of the hold: the core emits the first loaded window.          *)
BeginEntry(e) ==
    IF e.paused \/ e.flight = NoSource \/ e.phase # "entering"
    THEN [e EXCEPT !.entryTimer = FALSE]
    ELSE StartLoop(FlyTo([e EXCEPT !.entryTimer = FALSE, !.entry = "emitting",
                                          !.mark = "emitting"], e.entryTo))

SuspendEntry(e) == [e EXCEPT !.entryTimer = FALSE]

ResumeEntry(e) ==
    IF e.entry = "none" \/ e.flight = NoSource THEN e
    ELSE LET on == [e EXCEPT !.phase = "entering"] IN
         IF e.entry = "emitting" THEN FlyTo([on EXCEPT !.mark = "emitting"], e.entryTo)
         ELSE ScheduleEntry(on, e.entryTo)

(* Every move of the camera by the engine that is not a flight.            *)
MoveCamera(e, place) == StartLoop([e EXCEPT !.cam = place])

ClearView(e) ==
    [e EXCEPT !.latched = NoSource, !.visual = NoSource, !.detail = FALSE, !.requested = NoSource]

FrameOverview(e) ==
    MoveCamera([e EXCEPT !.requested = NoSource, !.overview = TRUE], "far")

ResetOverview(e) ==
    FrameOverview([ClearView(Brake(FreeGaze(DropEntry(StopTurn(e)))))
                   EXCEPT !.held = FALSE, !.overview = TRUE, !.back = FALSE,
                          !.phase = "overview", !.mark = "none", !.gate = "off"])

ScheduleInitialFocus(e) ==
    IF e.focused \/ ~e.ready \/ ~e.interactive \/ e.paused THEN e
    ELSE [e EXCEPT !.initial = "timer"]

Pause(e) ==
    [Brake(SuspendEntry(e)) EXCEPT !.paused = TRUE, !.initial = "none", !.frame = FALSE]

Resume(e) ==
    IF ~e.interactive \/ ~e.ready \/ e.hidden THEN e
    ELSE StartLoop(ScheduleInitialFocus(ResumeEntry([e EXCEPT !.paused = FALSE])))

(* One entry choreography owns the source: approach the core, hold it for  *)
(* a beat, then let it emit the first loaded window.                       *)
FocusSource(e, s) ==
    LET seen == [e EXCEPT !.requested = s, !.latched = s, !.visual = s, !.overview = FALSE]
        there == IF e.phase = "overview" THEN MarkOrigin(StandAt(seen, 0)) ELSE seen
        auto == there.phase = "origin" /\ there.depth = 0 /\ there.entry = "none"
        near == [StartLoop([there EXCEPT !.cam = s]) EXCEPT !.gazeTimer = TRUE]
    IN IF e.strategy = "accumulation" THEN e          \* the scene has no source nodes
       ELSE IF e.flight # s THEN MoveCamera(seen, s)
       ELSE IF ~auto THEN near
       ELSE IF stage.trip.reduced
            THEN [MarkExploring(StandAt(near, FirstPlace(e))) EXCEPT !.mark = "ready"]
            ELSE ScheduleEntry(near, FirstPlace(e))

DetailSource(current, near, explicit) ==
    IF explicit # NoSource THEN explicit
    ELSE IF near # NoSource /\ near = current THEN current ELSE near

(* Which source the view has entered, from the camera: a browse session    *)
(* owns the latch, else the source that fills the frame; a requested       *)
(* overview suppresses it until the camera is far.                         *)
VisualLayout(e) ==
    LET near   == IF e.cam = "far" THEN NoSource ELSE e.cam
        browse == IF Journey(e) THEN e.flight ELSE NoSource
        latch  == IF e.overview THEN NoSource
                  ELSE IF browse # NoSource THEN browse
                  ELSE DetailSource(e.latched, near, e.requested)
        seen   == IF e.overview THEN e.visual ELSE IF latch # NoSource THEN latch ELSE near
        full   == seen # NoSource /\ (seen = browse \/ seen = near)
        detail == full \/ (seen # NoSource /\ seen = e.requested /\ e.detail)
    IN IF e.strategy = "accumulation" THEN ClearView(e)
       ELSE [e EXCEPT !.overview = e.overview /\ near # NoSource /\ e.visual \in {NoSource, near},
                      !.latched = latch,
                      !.requested = IF seen = e.requested /\ full THEN NoSource ELSE e.requested,
                      !.visual = IF detail \/ latch # NoSource THEN seen ELSE NoSource,
                      !.detail = detail]

----------------------------------------------------------------------------
(* A commit of React: the options, then the data, then resume.             *)

(* n: the new strategy, flight, window, and what changed about them.       *)
SetOptions(e, n) ==
    LET disabled == Journey(e) /\ ~(n.interactive /\ n.flight # NoSource)
        off == IF disabled THEN StopTurn(Brake(e)) ELSE e
        other == IF n.strategy = e.strategy THEN off
                 ELSE [DropEntry(FreeGaze(off))
                       EXCEPT !.strategy = n.strategy, !.fresh = TRUE, !.focused = FALSE,
                              !.initial = "none", !.back = FALSE]
        plain == IF n.strategy # e.strategy /\ n.strategy = "accumulation"
                 THEN StopTurn(Brake(ClearView(other))) ELSE other
        left == IF e.interactive /\ ~n.interactive THEN ResetOverview(plain) ELSE plain
    IN IF n.interactive THEN [left EXCEPT !.interactive = TRUE]
       ELSE Pause([left EXCEPT !.interactive = FALSE])

\* Mutant: a restored graph is focused like any other.
NeverStable(e) == FALSE
StableRestore(e) == e.fresh /\ e.restoring /\ e.strategy = "exploration"

(* The flight the data brings: a new source starts at its origin, a window *)
(* moved by something else than the flight makes the camera glide to it.   *)
AdoptFlight(e, n) ==
    LET changed == n.flight # e.flight
        moved   == n.window /\ ~n.epoch
        cut     == IF n.flight = NoSource \/ changed
                   THEN [DropEntry(FreeGaze(e)) EXCEPT !.back = FALSE] ELSE e
        with    == [cut EXCEPT !.flight = n.flight, !.near = n.near]
    IN IF n.flight = NoSource THEN [with EXCEPT !.phase = "overview", !.gate = "off",
                                                !.own = IF moved THEN "no" ELSE @]
       ELSE IF changed THEN MarkOrigin(StandAt([with EXCEPT !.own = "no"], 0))
       ELSE IF moved /\ ~StableRestore(e) /\ e.own = "no" /\ e.phase \notin {"origin", "returning"}
            THEN StartLoop(FlyTo(with, n.near))
       ELSE IF moved THEN [with EXCEPT !.own = "no"] ELSE with

AdoptEpoch(e, n) ==
    IF ~n.epoch THEN e
    ELSE LET clean == [ClearView(StopTurn(Brake(e))) EXCEPT !.held = FALSE, !.overview = TRUE]
         IN IF n.flight # NoSource THEN MarkOrigin(clean)
            ELSE [clean EXCEPT !.phase = "overview", !.gate = "off"]

(* The end of setData: whether the new data takes the camera.              *)
PlaceCamera(e, old, n) ==
    LET ready == [e EXCEPT !.ready = TRUE, !.initial = "none", !.fresh = FALSE,
                           !.restoring = FALSE]
    IN IF StableRestore(old) THEN [ready EXCEPT !.focused = TRUE]
       ELSE IF ~e.paused /\ e.strategy = "accumulation" /\ n.nodes /\ ~e.held
            THEN FrameOverview([ready EXCEPT !.focused = TRUE])
       ELSE IF ~e.paused /\ n.flight # NoSource /\ n.flight # old.flight
            THEN FocusSource([ready EXCEPT !.focused = TRUE], n.flight)
       ELSE IF ~e.paused /\ n.hit # NoSource /\ ~e.held
            THEN FocusSource([ready EXCEPT !.focused = TRUE], n.hit)
       ELSE ScheduleInitialFocus(ready)

SetData(e, n) ==
    LET moved == n.window /\ ~n.epoch
        cut   == \/ ~n.epoch /\ n.cause = "synchronization" /\ e.turn = "entering"
                 \/ moved /\ n.cause # "journey" /\ e.turn \in {"asked", "due"}
        turn  == IF moved /\ ~StableRestore(e) /\ Journey(e) THEN "entering"
                 ELSE IF cut THEN "idle" ELSE e.turn
        data  == AdoptEpoch(AdoptFlight([e EXCEPT !.turn = turn], n), n)
    IN PlaceCamera(VisualLayout(data), e, n)

Commit(e, n) ==
    LET opted == SetOptions(e, n) IN
    IF n.interactive THEN Resume(SetData(opted, n)) ELSE opted

----------------------------------------------------------------------------
(* Frames and timers.                                                      *)

(* A step of the flight: a glide to a target, or coasting that may come to *)
(* rest; the ends of the timeline are walls.                               *)
Step(e, rests) ==
    LET goal == Between(0, DeepestPlace, e.target)
        at == IF e.target # Nowhere
              THEN IF stage.trip.reduced \/ goal = e.aim THEN goal
                   ELSE IF goal > e.aim THEN e.aim + 1 ELSE e.aim - 1
              ELSE Between(0, DeepestPlace, e.aim + e.speed)
        wall == (at = 0 /\ e.speed < 0) \/ (at = DeepestPlace /\ e.speed > 0)
    IN [e EXCEPT !.aim = at, !.depth = at,
                 !.target = IF stage.trip.reduced \/ goal = e.aim
                               \/ (at = 0 /\ @ <= 0) \/ (at = DeepestPlace /\ @ >= at)
                            THEN Nowhere ELSE @,
                 !.speed = IF wall \/ rests THEN 0 ELSE @]
Moving(e) == e.speed # 0 \/ e.target # Nowhere

(* The window pages along when the camera nears its edge.                  *)
Follows(e) == e.turn = "idle" /\ e.depth # e.near /\ stage.follow

MoveTimeline(e) ==
    IF ~Journey(e) \/ e.paused \/ e.turn # "idle" \/ e.held THEN e
    ELSE [MarkExploring(e) EXCEPT !.turn = "asked"]

ReturnFrame(e, arrives) ==
    LET at == IF arrives THEN 0 ELSE e.depth IN
    IF arrives THEN [MarkOrigin([StandAt(e, at) EXCEPT !.back = FALSE]) EXCEPT !.gaze = TRUE]
    ELSE StandAt(e, at)

FlightFrame(e, rests) ==
    IF e.phase \in {"origin", "overview"} \/ ~Journey(e) THEN e
    ELSE LET to == Step(e, rests)
             in == IF ~Moving(to) /\ to.mark = "emitting"
                   THEN MarkExploring([to EXCEPT !.mark = "ready"]) ELSE to
             home == IF ~Moving(in) /\ in.depth = 0 THEN MarkOrigin(in) ELSE in
         IN IF Follows(home) THEN MoveTimeline([home EXCEPT !.own = "asked"]) ELSE home

\* Mutant: the loop forgets a way back that is under way.
FrameForgets(e, rests, kept) ==
    IF e.paused \/ e.hidden THEN [e EXCEPT !.frame = FALSE]
    ELSE LET moved == IF e.back THEN ReturnFrame(e, rests) ELSE FlightFrame(e, rests)
         IN [VisualLayout(moved) EXCEPT !.frame = kept]
(* One animation frame; it asks for the next while something moves, or     *)
(* while a keep-alive runs.                                                *)
Frame(e, rests, kept) ==
    IF e.paused \/ e.hidden THEN [e EXCEPT !.frame = FALSE]
    ELSE LET moved == IF e.back THEN ReturnFrame(e, rests) ELSE FlightFrame(e, rests)
             again == kept \/ moved.back \/ moved.turn = "entering"
                      \/ (moved.phase \notin {"origin", "overview"} /\ Moving(moved))
         IN [VisualLayout(moved) EXCEPT !.frame = again]

Busy(e)  == e.turn # "idle"
Still    == UNCHANGED stage
Change(e) == eye' = e

AnimationFrame ==
    /\ eye.frame /\ ~eye.hidden
    /\ \E rests, kept \in BOOLEAN : Change(Frame(eye, rests, kept))
    /\ Still

(* The nodes of a page turn reach their places.                            *)
TurnSettles == eye.turn = "entering" /\ ~eye.paused /\ Change(StopTurn(eye)) /\ Still
(* The hold lasts longer than the frame in which a view is restored.       *)
EntryTimer  == eye.entryTimer /\ stage.restoring = "no" /\ Change(BeginEntry(eye)) /\ Still
GazeTimer ==
    /\ eye.gazeTimer
    /\ Change([eye EXCEPT !.gazeTimer = FALSE,
                          !.gaze = @ \/ (~eye.paused /\ eye.flight # NoSource)])
    /\ Still
GateOpens   == eye.gate = "armed" /\ Change([eye EXCEPT !.gate = "open"]) /\ Still

InitialFocus ==
    /\ eye.initial # "none" /\ ~(eye.initial = "frame" /\ eye.hidden)
    /\ Change(IF eye.focused \/ ~eye.interactive \/ eye.paused THEN [eye EXCEPT !.initial = "none"]
              ELSE IF eye.initial = "timer" THEN [eye EXCEPT !.initial = "frame"]
              ELSE LET done == [eye EXCEPT !.initial = "none", !.focused = TRUE]
                   IN IF eye.strategy = "accumulation" \/ eye.flight = NoSource
                      THEN FrameOverview(done) ELSE FocusSource(done, eye.flight))
    /\ Still

----------------------------------------------------------------------------
(* Gestures, the tab, and what the controller asks for.                    *)

Acting(act) == act \in stage.trip.acts /\ stage.left > 0
(* A change of what is shown cancels a view that was to be restored.       *)
Supersede == stage' = [stage EXCEPT !.left = @ - 1, !.restored = FALSE, !.restoring = "no"]
Spend == stage' = [stage EXCEPT !.left = @ - 1, !.restored = FALSE,
                               !.restoring = IF @ = "no" \/ (eye.flight # NoSource /\ eye'.flight = NoSource)
                                             THEN "no" ELSE "disturbed"]
Awake == ~eye.paused /\ eye.interactive

Now(e) == [strategy |-> e.strategy, interactive |-> e.interactive, flight |-> e.flight,
           near |-> e.near, epoch |-> FALSE, window |-> FALSE, cause |-> "synchronization",
           nodes |-> FALSE, hit |-> NoSource]
Home(e) == [Now(e) EXCEPT !.strategy = "exploration", !.flight = NoSource, !.epoch = TRUE,
                          !.window = TRUE, !.nodes = TRUE]
GoHome(e) == FrameOverview(Commit(e, Home(e)))

(* The reader goes back: to the origin, and from the origin home.          *)
ReturnToOrigin(e) ==
    LET rest == Brake(FreeGaze([DropEntry(StopTurn(e)) EXCEPT !.held = FALSE])) IN
    IF stage.trip.reduced
    THEN ReturnFrame([rest EXCEPT !.phase = "returning", !.back = TRUE], TRUE)
    ELSE StartLoop([rest EXCEPT !.phase = "returning", !.back = TRUE])
AlreadyAtOrigin(e) == e.flight = NoSource \/ (e.phase = "origin" /\ ~e.back)
GoBack(e) ==
    IF AlreadyAtOrigin(e) THEN GoHome(e)
    ELSE IF e.phase = "returning" /\ e.back THEN e ELSE ReturnToOrigin(e)

Back == Acting("back") /\ Awake /\ eye.flight # NoSource /\ Change(GoBack(eye)) /\ Spend

(* In flight the wheel travels; at the origin an outward gesture leaves,   *)
(* once the gate that absorbs the inertia of the arrival has opened.       *)
WheelTravel(e, way) ==
    IF way = 0 THEN e
    ELSE LET pushed == IF stage.trip.reduced
                       THEN [Brake(e) EXCEPT !.aim = Between(0, DeepestPlace, @ + way)]
                       ELSE [e EXCEPT !.speed = Between(-1, 1, @ + way), !.target = Nowhere]
         IN MarkExploring(pushed)
WheelOut(e) ==
    LET at == IF e.phase = "origin" THEN e ELSE MarkOrigin(e) IN
    IF at.gate = "off" THEN [at EXCEPT !.gate = "armed"]
    ELSE IF at.gate = "armed" THEN at
    ELSE GoBack([at EXCEPT !.gate = "off"])
Wheel ==
    /\ Acting("wheel") /\ Awake
    /\ Journey(eye) /\ eye.phase # "overview"
    /\ \E way \in {-1, 0, 1} :
         LET own == DropEntry([eye EXCEPT !.held = FALSE]) IN
         Change(IF way = -1 /\ eye.depth = 0 THEN WheelOut(own)
                ELSE StartLoop(WheelTravel(own, way)))
    /\ Spend

Grab ==
    /\ Acting("grab") /\ Awake
    /\ Change(LET free == Brake(DropEntry(eye)) IN
              IF eye.depth = 0 THEN MarkOrigin(free) ELSE MarkExploring(free))
    /\ Spend

(* Orbiting brings the camera close to a source or far from all.           *)
Orbit ==
    /\ Acting("orbit") /\ Awake
    /\ \E place \in SceneSources \cup {"far"} :
         Change(VisualLayout([StartLoop(IF eye.depth > 0 THEN MarkExploring(eye) ELSE eye)
                              EXCEPT !.cam = place]))
    /\ Spend

Lock == Acting("lock") /\ Awake /\ ~Busy(eye) /\ Change([eye EXCEPT !.held = TRUE]) /\ Spend

Hide == Acting("hide") /\ ~eye.hidden /\ Change(Pause([eye EXCEPT !.hidden = TRUE])) /\ Spend
Show == eye.hidden /\ Change(Resume([eye EXCEPT !.hidden = FALSE])) /\ Still

(* The workspace covers the universe and uncovers it: a reset and a pause, *)
(* then the same data once more, and the overview.                         *)
Leave ==
    /\ Acting("leave") /\ eye.interactive
    /\ Change(Pause(ResetOverview(Commit(eye, [Now(eye) EXCEPT !.interactive = FALSE]))))
    /\ Supersede
Return ==
    /\ ~eye.interactive
    /\ Change(FrameOverview(Commit(eye, [Now(eye) EXCEPT !.interactive = TRUE]))) /\ Still

(* While the server builds its manifest, each poll frames the overview.    *)
Poll == Acting("poll") /\ eye.interactive /\ Change(FrameOverview([eye EXCEPT !.held = FALSE])) /\ Spend

EnterSource ==
    /\ Acting("enter") /\ eye.interactive /\ eye.strategy = "exploration"
    /\ \E s \in SceneSources \ {eye.flight} :
         Change(Commit(eye, [Now(eye) EXCEPT !.flight = s, !.near = 1, !.window = TRUE,
                                             !.nodes = TRUE]))
    /\ Supersede
LeaveSource == Acting("home") /\ eye.interactive /\ Change(GoHome(eye)) /\ Supersede

(* More evidence is gathered; it may name sources, which this scene lacks. *)
MoreEvidence ==
    /\ Acting("search") /\ eye.interactive /\ eye.strategy = "accumulation"
    /\ \E hit \in SceneSources \cup {NoSource}, grown \in BOOLEAN :
         Change(Commit(eye, [Now(eye) EXCEPT !.hit = hit, !.nodes = grown])) /\ Spend

(* The window changes for another reason than a page turn.                 *)
Synchronize ==
    /\ Acting("sync") /\ eye.interactive /\ eye.flight # NoSource
    /\ \E p \in 1..DeepestPlace \ {eye.near} :
         Change(Commit(eye, [Now(eye) EXCEPT !.near = p, !.window = TRUE, !.nodes = TRUE]))
    /\ Spend

AskTurn == Acting("turn") /\ eye.turn = "idle" /\ Change(MoveTimeline(eye)) /\ Spend

Turned(p) == Commit(eye, [Now(eye) EXCEPT !.near = p, !.window = TRUE, !.nodes = TRUE,
                                          !.cause = "journey"])
(* The data of the new window is there before or after the answer; when it *)
(* does not come in time the turn is given up, but not its claim on the    *)
(* next window (own).                                                      *)
TurnAdvances ==
    /\ eye.turn \in {"asked", "due"} /\ eye.interactive
    /\ \E p \in 1..DeepestPlace \ {eye.near} : Change(Turned(p)) /\ Still
TurnIsDue ==
    /\ eye.turn = "asked" /\ Still
    /\ Change([eye EXCEPT !.turn = "due", !.own = IF @ = "asked" THEN "due" ELSE @])
TurnIsGivenUp == eye.turn = "due" /\ Change(StopTurn(eye)) /\ Still
(* It was blocked, or the engine had cancelled it.                         *)
TurnIsBlocked ==
    /\ eye.turn = "asked" \/ eye.own = "asked"
    /\ Change([eye EXCEPT !.turn = IF @ = "asked" THEN "idle" ELSE @,
                          !.own = IF @ = "asked" THEN "no" ELSE @])
    /\ stage' = [stage EXCEPT !.follow = eye.own # "asked"]     \* it cools down for a while

(* A search or an answer gathers evidence: exploration is kept, and comes  *)
(* back as it was.                                                         *)
View(e) == [source |-> IF e.visual # NoSource THEN e.visual ELSE e.latched,
            detail |-> e.detail, depth |-> e.depth, cam |-> e.cam]
Gather ==
    /\ Acting("gather") /\ eye.interactive /\ eye.strategy = "exploration"
    /\ Change(Commit(eye, [Now(eye) EXCEPT !.strategy = "accumulation", !.flight = NoSource,
                                           !.epoch = TRUE, !.window = TRUE, !.nodes = TRUE]))
    /\ stage' = [stage EXCEPT !.left = @ - 1, !.restored = FALSE, !.restoring = "no",
                              !.kept = [is |-> TRUE, flight |-> eye.flight, near |-> eye.near,
                                        view |-> View(eye)]]

RestoreView(e, view) ==
    LET seen == [StopTurn(e) EXCEPT !.visual = view.source, !.latched = view.source,
                                    !.requested = view.source, !.overview = view.source = NoSource,
                                    !.detail = view.detail, !.cam = view.cam]
        d == Between(0, DeepestPlace, view.depth)
        flown == [StandAt(seen, d) EXCEPT !.gaze = TRUE]
        placed == IF e.flight = NoSource \/ view.source # e.flight THEN seen
                  ELSE IF d = 0 THEN MarkOrigin(flown) ELSE MarkExploring(flown)
    IN StartLoop(placed)

(* Return from the evidence: the data, and the view in the next frame.     *)
Ungather ==
    /\ Acting("return") /\ eye.interactive /\ stage.kept.is /\ eye.strategy = "accumulation"
    /\ Change(Commit([eye EXCEPT !.restoring = TRUE],
                     [Now(eye) EXCEPT !.strategy = "exploration", !.flight = stage.kept.flight,
                                      !.near = stage.kept.near, !.epoch = TRUE, !.window = TRUE,
                                      !.nodes = TRUE]))
    /\ stage' = [stage EXCEPT !.left = @ - 1, !.restoring = "alone"]
RestoreFrame ==
    /\ stage.restoring # "no" /\ ~eye.hidden
    /\ Change(RestoreView(eye, stage.kept.view))
    /\ stage' = [stage EXCEPT !.restoring = "no", !.restored = stage.restoring = "alone",
                              !.kept = [is |-> FALSE]]
CoolsDown == ~stage.follow /\ stage' = [stage EXCEPT !.follow = TRUE] /\ UNCHANGED eye

----------------------------------------------------------------------------
SceneInit ==
    /\ \E t \in SceneTrips :
         stage = [trip |-> t, left |-> t.left, kept |-> [is |-> FALSE], restoring |-> "no",
                  restored |-> FALSE, follow |-> TRUE]
    /\ eye = [interactive |-> TRUE, hidden |-> FALSE, paused |-> FALSE, ready |-> TRUE,
              strategy |-> "exploration", fresh |-> FALSE, restoring |-> FALSE,
              flight |-> NoSource, near |-> 1, own |-> "no", turn |-> "idle",
              depth |-> 0, aim |-> 0, speed |-> 0, target |-> Nowhere,
              phase |-> "overview", entry |-> "none", entryTo |-> 0, entryTimer |-> FALSE,
              mark |-> "none", back |-> FALSE, gate |-> "off", gaze |-> FALSE, gazeTimer |-> FALSE,
              focused |-> FALSE, initial |-> "timer", frame |-> FALSE,
              held |-> FALSE, cam |-> "far", overview |-> TRUE,
              requested |-> NoSource, latched |-> NoSource, visual |-> NoSource,
              detail |-> FALSE]

SceneTimers ==
    \/ AnimationFrame \/ TurnSettles \/ EntryTimer \/ GazeTimer \/ GateOpens \/ InitialFocus
    \/ CoolsDown
SceneReader ==
    \/ Back \/ Wheel \/ Grab \/ Orbit \/ Lock \/ Hide \/ Show \/ Leave \/ Return
SceneController ==
    \/ Poll \/ EnterSource \/ LeaveSource \/ MoreEvidence \/ Synchronize \/ AskTurn \/ TurnAdvances
    \/ TurnIsDue \/ TurnIsGivenUp \/ TurnIsBlocked \/ Gather \/ Ungather \/ RestoreFrame
SceneNext == SceneTimers \/ SceneReader \/ SceneController

(* Frames and timers go on; a motion comes to its end.                     *)
LastFrame == eye.frame /\ ~eye.hidden /\ Change(Frame(eye, TRUE, FALSE)) /\ Still
SceneFairness ==
    /\ <>[](eye.frame /\ ~eye.hidden) => []<><<LastFrame>>_sceneVars
    /\ <>[](eye.entryTimer) => []<><<EntryTimer>>_sceneVars
SceneSpec == SceneInit /\ [][SceneNext]_sceneVars
SceneLiveSpec == SceneSpec /\ SceneFairness

----------------------------------------------------------------------------
(* Type invariant.                                                         *)
SceneTypeOK ==
    /\ stage.trip \in SceneTrips /\ stage.left \in 0..stage.trip.left
    /\ eye.turn \in {"idle", "asked", "due", "entering"} /\ eye.own \in {"no", "asked", "due"}
    /\ eye.depth \in 0..DeepestPlace /\ eye.aim \in 0..DeepestPlace /\ eye.speed \in -1..1
    /\ eye.phase \in {"overview", "origin", "entering", "exploring", "returning"}
    /\ eye.flight \in SceneSources \cup {NoSource}

(* Whatever interrupts it, an automatic entry that is under way belongs to *)
(* the source flown through, which is being entered.                       *)
EntryBelongsToFlight == eye.entry # "none" => eye.phase = "entering" /\ eye.flight # NoSource

(* The gaze is fixed only along a corridor: in the overview and in front   *)
(* of gathered evidence the camera turns freely.                           *)
GazeBelongsToFlight == eye.gaze => eye.flight # NoSource

(* In front of the source's core the camera has travelled nowhere: the     *)
(* outward gesture that leaves is only heard where the core is.            *)
OriginIsAtTheStart == eye.phase = "origin" => eye.depth = 0

(* A hidden tab or a covered universe burns no frames and starts nothing.  *)
PausedSleeps == eye.paused => ~eye.frame /\ eye.initial = "none" /\ ~eye.entryTimer

(* What moves the camera belongs to where the camera is (the timers and    *)
(* tweens of the scene engine).                                            *)
SceneConsistent ==
    SceneTypeOK /\ EntryBelongsToFlight /\ GazeBelongsToFlight /\ OriginIsAtTheStart /\ PausedSleeps

(* Once exploration is restored nothing but the reader moves the camera.   *)
RestoredViewHolds ==
    [][stage.restored /\ stage'.restored => eye'.cam = eye.cam /\ eye'.depth = eye.depth]_sceneVars

(* A way back to the origin arrives, is taken over, or waits for the tab.  *)
ReturnArrives == []<>(~eye.back \/ eye.paused)
=============================================================================
