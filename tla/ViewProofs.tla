----------------------------- MODULE ViewProofs -----------------------------
(* What the reader looks at, for every number of sources, places, nodes,        *)
(* threads, runs and gestures: the camera of the universe, the nodes that are   *)
(* read, the pet and the panel beside it.  A record with many fields is typed   *)
(* by the names of its fields and the sets of their values, and each operator   *)
(* of the engine has a lemma of its own.                                        *)
EXTENDS UniverseScene, SceneReading, PetCharacter, PetPanel, FiniteSetTheorems, TLAPS

(***************************************************************************)
(* The camera (UniverseScene).                                             *)
(***************************************************************************)
Sights   == SceneSources \cup {NoSource}
Cameras  == SceneSources \cup {"far"}
Depths   == 0..DeepestPlace
Speeds   == -1..1
Plans    == {"exploration", "accumulation"}
Owns     == {"no", "asked", "due"}
Turns    == {"idle", "asked", "due", "entering"}
Phases   == {"overview", "origin", "entering", "exploring", "returning"}
Entries  == {"none", "holding", "emitting"}
Initials == {"none", "timer", "frame"}

\* The fields of the engine; those whose values a proof needs have a type.
EyeFields ==
  {"interactive", "hidden", "paused", "ready", "strategy", "fresh", "restoring", "flight", "near", "own", "turn",
   "depth", "aim", "speed", "target", "phase", "entry", "entryTo", "entryTimer", "mark", "back", "gate", "gaze",
   "gazeTimer", "focused", "initial", "frame", "held", "cam", "overview", "requested", "latched", "visual", "detail"}
EyeTyped(e) ==
  /\ DOMAIN e = EyeFields
  /\ e.interactive \in BOOLEAN /\ e.hidden \in BOOLEAN /\ e.paused \in BOOLEAN /\ e.ready \in BOOLEAN
  /\ e.strategy \in Plans /\ e.fresh \in BOOLEAN /\ e.restoring \in BOOLEAN /\ e.flight \in Sights
  /\ e.near \in Int /\ e.own \in Owns /\ e.turn \in Turns /\ e.depth \in Depths /\ e.aim \in Depths
  /\ e.speed \in Speeds /\ e.target \in Int /\ e.phase \in Phases /\ e.entry \in Entries /\ e.entryTo \in Int
  /\ e.entryTimer \in BOOLEAN /\ e.back \in BOOLEAN /\ e.gaze \in BOOLEAN /\ e.gazeTimer \in BOOLEAN
  /\ e.focused \in BOOLEAN /\ e.initial \in Initials /\ e.frame \in BOOLEAN /\ e.held \in BOOLEAN
  /\ e.cam \in Cameras /\ e.overview \in BOOLEAN /\ e.requested \in Sights /\ e.latched \in Sights
  /\ e.visual \in Sights /\ e.detail \in BOOLEAN

LEMMA EyeNames ==
  /\ "interactive" \in EyeFields /\ "hidden" \in EyeFields /\ "paused" \in EyeFields /\ "ready" \in EyeFields
  /\ "strategy" \in EyeFields /\ "fresh" \in EyeFields /\ "restoring" \in EyeFields /\ "flight" \in EyeFields
  /\ "near" \in EyeFields /\ "own" \in EyeFields /\ "turn" \in EyeFields /\ "depth" \in EyeFields
  /\ "aim" \in EyeFields /\ "speed" \in EyeFields /\ "target" \in EyeFields /\ "phase" \in EyeFields
  /\ "entry" \in EyeFields /\ "entryTo" \in EyeFields /\ "entryTimer" \in EyeFields /\ "mark" \in EyeFields
  /\ "back" \in EyeFields /\ "gate" \in EyeFields /\ "gaze" \in EyeFields /\ "gazeTimer" \in EyeFields
  /\ "focused" \in EyeFields /\ "initial" \in EyeFields /\ "frame" \in EyeFields /\ "held" \in EyeFields
  /\ "cam" \in EyeFields /\ "overview" \in EyeFields /\ "requested" \in EyeFields /\ "latched" \in EyeFields
  /\ "visual" \in EyeFields /\ "detail" \in EyeFields
BY DEF EyeFields

LEMMA EyeWords ==
  /\ "exploration" \in Plans /\ "accumulation" \in Plans
  /\ "no" \in Owns /\ "asked" \in Owns /\ "due" \in Owns
  /\ "idle" \in Turns /\ "asked" \in Turns /\ "due" \in Turns /\ "entering" \in Turns
  /\ "overview" \in Phases /\ "origin" \in Phases /\ "entering" \in Phases /\ "exploring" \in Phases
  /\ "returning" \in Phases
  /\ "none" \in Entries /\ "holding" \in Entries /\ "emitting" \in Entries
  /\ "none" \in Initials /\ "timer" \in Initials /\ "frame" \in Initials
BY DEF Plans, Owns, Turns, Phases, Entries, Initials

LEMMA EyeNumbers ==
  /\ DeepestPlace \in Int /\ 0 \in Depths /\ 0 \in Int /\ Nowhere \in Int /\ 0 \in Speeds
  /\ \A d \in Depths : d \in Int
  /\ \A x \in Int : Between(0, DeepestPlace, x) \in Depths
  /\ \A x \in Int : Between(-1, 1, x) \in Speeds
<1>1. DeepestPlace \in Nat \ {0}
  BY SceneAssumption
<1> QED
  BY <1>1 DEF Depths, Speeds, Nowhere, Between

LEMMA CameraPlaces ==
  /\ NoSource \in Sights /\ "far" \in Cameras
  /\ \A s \in Sights : s # NoSource => s \in Cameras
  /\ \A c \in Cameras : c # "far" => c \in Sights
BY DEF Sights, Cameras

\* What the operators of the engine keep, whatever they do.
Sound(e) ==
  /\ EyeTyped(e)
  /\ e.entry # "none" => e.phase = "entering"
  /\ e.entry # "none" => e.flight # NoSource
  /\ e.gaze => e.flight # NoSource
  /\ e.back => e.flight # NoSource
  /\ e.phase = "origin" => e.depth = 0
  /\ e.paused => ~e.frame
  /\ e.paused => e.initial = "none"
  /\ e.paused => ~e.entryTimer

\* What a step of the camera never changes.
Course(q, e) ==
  q.flight = e.flight /\ q.paused = e.paused /\ q.strategy = e.strategy /\ q.interactive = e.interactive

LEMMA StartLoopIs ==
  ASSUME NEW e, Sound(e), NEW q, q = StartLoop(e)
  PROVE  Sound(q) /\ Course(q, e) /\ q.entry = e.entry
<1>1. PICK r : r = [e EXCEPT !.frame = TRUE]
  OBVIOUS
<1>2. ~e.paused => Sound(r) /\ Course(r, e) /\ r.entry = e.entry
  BY <1>1, EyeNames DEF Sound, EyeTyped, Course
<1>3. q = IF e.paused THEN e ELSE r
  BY <1>1 DEF StartLoop
<1> QED
  BY <1>2, <1>3 DEF Course

\* A camera that stands at a place has no speed and no target.
LEMMA StandAtIs ==
  ASSUME NEW e, Sound(e), NEW d \in Depths, e.phase = "origin" => d = 0, NEW q, q = StandAt(e, d)
  PROVE  Sound(q) /\ Course(q, e) /\ q.depth = d
<1>1. q = [e EXCEPT !.speed = 0, !.target = Nowhere, !.depth = d, !.aim = d]
  BY DEF StandAt, Brake
<1> QED
  BY <1>1, EyeNames, EyeNumbers DEF Sound, EyeTyped, Course

LEMMA PausingIs ==
  ASSUME NEW e, Sound(e), NEW q, q = Pause(e)
  PROVE  Sound(q) /\ q.flight = e.flight /\ q.strategy = e.strategy /\ q.interactive = e.interactive
BY EyeNames, EyeWords, EyeNumbers DEF Sound, EyeTyped, Pause, Brake, SuspendEntry

LEMMA MoveCameraIs ==
  ASSUME NEW e, Sound(e), NEW c \in Cameras, NEW q, q = MoveCamera(e, c)
  PROVE  Sound(q) /\ Course(q, e) /\ q.entry = e.entry
<1>1. PICK r : r = [e EXCEPT !.cam = c]
  OBVIOUS
<1>2. Sound(r) /\ Course(r, e) /\ r.entry = e.entry
  BY <1>1, EyeNames DEF Sound, EyeTyped, Course
<1>3. q = StartLoop(r)
  BY <1>1 DEF MoveCamera
<1> QED
  BY <1>2, <1>3, StartLoopIs DEF Course

LEMMA FrameOverviewIs ==
  ASSUME NEW e, Sound(e), NEW q, q = FrameOverview(e)
  PROVE  Sound(q) /\ Course(q, e) /\ q.entry = e.entry
<1>1. PICK r : r = [e EXCEPT !.requested = NoSource, !.overview = TRUE]
  OBVIOUS
<1>2. Sound(r) /\ Course(r, e) /\ r.entry = e.entry
  BY <1>1, EyeNames, CameraPlaces DEF Sound, EyeTyped, Course
<1>3. PICK c \in Cameras : c = "far"
  BY CameraPlaces
<1>4. q = MoveCamera(r, c)
  BY <1>1, <1>3 DEF FrameOverview
<1> QED
  BY <1>2, <1>4, MoveCameraIs DEF Course

LEMMA ResetOverviewIs ==
  ASSUME NEW e, Sound(e), NEW q, q = ResetOverview(e)
  PROVE  Sound(q) /\ Course(q, e) /\ q.entry = "none"
<1>1. PICK a : a = Brake(FreeGaze(DropEntry(StopTurn(e))))
  OBVIOUS
<1>2. Sound(a) /\ Course(a, e) /\ a.entry = "none"
  BY <1>1, EyeNames, EyeWords, EyeNumbers DEF Sound, EyeTyped, Course, Brake, FreeGaze, DropEntry, StopTurn
<1>3. PICK b : b = [ClearView(a) EXCEPT !.held = FALSE, !.overview = TRUE, !.back = FALSE,
                                        !.phase = "overview", !.mark = "none", !.gate = "off"]
  OBVIOUS
<1>4. Sound(b) /\ Course(b, a) /\ b.entry = "none"
  <2>1. PICK c : c = ClearView(a)
    OBVIOUS
  <2>2. Sound(c) /\ Course(c, a) /\ c.entry = "none"
    BY <1>2, <2>1, EyeNames, CameraPlaces DEF Sound, EyeTyped, Course, ClearView
  <2>3. b = [c EXCEPT !.held = FALSE, !.overview = TRUE, !.back = FALSE, !.phase = "overview", !.mark = "none",
                      !.gate = "off"]
    BY <1>3, <2>1
  <2>4. Sound(b) /\ Course(b, c) /\ b.entry = "none"
    BY <2>2, <2>3, EyeNames, EyeWords DEF Sound, EyeTyped, Course
  <2> QED
    BY <2>2, <2>4 DEF Course
<1>5. q = FrameOverview(b)
  BY <1>1, <1>3 DEF ResetOverview
<1>6. Sound(q) /\ Course(q, b) /\ q.entry = "none"
  BY <1>4, <1>5, FrameOverviewIs
<1> QED
  BY <1>2, <1>4, <1>6 DEF Course

LEMMA ResumeEntryIs ==
  ASSUME NEW e, Sound(e), ~e.paused, NEW q, q = ResumeEntry(e)
  PROVE  Sound(q) /\ Course(q, e)
BY EyeNames, EyeWords, EyeNumbers DEF Sound, EyeTyped, Course, ResumeEntry, FlyTo, ScheduleEntry

LEMMA ResumeIs ==
  ASSUME NEW e, Sound(e), NEW q, q = Resume(e)
  PROVE  Sound(q) /\ q.flight = e.flight /\ q.strategy = e.strategy /\ q.interactive = e.interactive
<1>1. CASE ~e.interactive \/ ~e.ready \/ e.hidden
  BY <1>1 DEF Resume
<1>2. CASE ~(~e.interactive \/ ~e.ready \/ e.hidden)
  <2>1. PICK r : r = [e EXCEPT !.paused = FALSE]
    OBVIOUS
  <2>2. Sound(r) /\ ~r.paused /\ r.flight = e.flight /\ r.strategy = e.strategy /\ r.interactive = e.interactive
    BY <2>1, EyeNames DEF Sound, EyeTyped
  <2>3. PICK s : s = ResumeEntry(r)
    OBVIOUS
  <2>4. Sound(s) /\ Course(s, r)
    BY <2>2, <2>3, ResumeEntryIs
  <2>5. PICK t : t = ScheduleInitialFocus(s)
    OBVIOUS
  <2>6. Sound(t) /\ Course(t, s)
    BY <2>4, <2>5, EyeNames, EyeWords DEF Sound, EyeTyped, Course, ScheduleInitialFocus
  <2>7. q = StartLoop(t)
    BY <1>2, <2>1, <2>3, <2>5 DEF Resume
  <2>8. Sound(q) /\ Course(q, t)
    BY <2>6, <2>7, StartLoopIs
  <2> QED
    BY <2>2, <2>4, <2>6, <2>8 DEF Course
<1> QED
  BY <1>1, <1>2

LEMMA FirstPlaceIs ==
  ASSUME NEW e, EyeTyped(e)
  PROVE  FirstPlace(e) \in Depths /\ FirstPlace(e) \in Int
BY EyeNumbers DEF EyeTyped, FirstPlace

LEMMA FocusSourceIs ==
  ASSUME NEW e, Sound(e), NEW s \in Sights, s # NoSource, ~e.paused, NEW q, q = FocusSource(e, s)
  PROVE  Sound(q) /\ Course(q, e)
<1>1. PICK seen : seen = [e EXCEPT !.requested = s, !.latched = s, !.visual = s, !.overview = FALSE]
  OBVIOUS
<1>2. Sound(seen) /\ Course(seen, e)
  BY <1>1, EyeNames DEF Sound, EyeTyped, Course
<1>3. PICK there : there = IF e.phase = "overview" THEN MarkOrigin(StandAt(seen, 0)) ELSE seen
  OBVIOUS
<1>4. Sound(there) /\ Course(there, e)
  <2>1. PICK zero \in Depths : zero = 0
    BY EyeNumbers
  <2>2. PICK r : r = StandAt(seen, zero)
    OBVIOUS
  <2>3. Sound(r) /\ Course(r, seen) /\ r.depth = 0
    BY <1>2, <2>1, <2>2, StandAtIs
  <2>4. there = seen \/ there = MarkOrigin(r)
    BY <1>3, <2>1, <2>2
  <2>5. there = MarkOrigin(r) => Sound(there) /\ Course(there, r)
    BY <2>3, EyeNames, EyeWords DEF Sound, EyeTyped, Course, MarkOrigin, DropEntry
  <2> QED
    BY <1>2, <2>3, <2>4, <2>5 DEF Course
<1>5. PICK near : near = [StartLoop([there EXCEPT !.cam = s]) EXCEPT !.gazeTimer = TRUE]
  OBVIOUS
<1>6. Sound(near) /\ Course(near, e)
  <2>1. PICK r : r = MoveCamera(there, s)
    OBVIOUS
  <2>2. Sound(r) /\ Course(r, there)
    BY <1>4, <2>1, CameraPlaces, MoveCameraIs
  <2>3. near = [r EXCEPT !.gazeTimer = TRUE]
    BY <1>5, <2>1 DEF MoveCamera
  <2>4. Sound(near) /\ Course(near, r)
    BY <2>2, <2>3, EyeNames DEF Sound, EyeTyped, Course
  <2> QED
    BY <1>4, <2>2, <2>4 DEF Course
<1>7. PICK d \in Depths : d = FirstPlace(e) /\ d \in Int
  BY FirstPlaceIs DEF Sound
<1>8. \/ q = e
      \/ q = MoveCamera(seen, s)
      \/ q = near
      \/ e.flight = s /\ q = [MarkExploring(StandAt(near, d)) EXCEPT !.mark = "ready"]
      \/ e.flight = s /\ q = ScheduleEntry(near, d)
  BY <1>1, <1>3, <1>5, <1>7 DEF FocusSource
<1>9. CASE q = e \/ q = near
  BY <1>6, <1>9 DEF Course
<1>10. CASE q = MoveCamera(seen, s)
  BY <1>2, <1>10, CameraPlaces, MoveCameraIs DEF Course
<1>11. CASE e.flight = s /\ q = [MarkExploring(StandAt(near, d)) EXCEPT !.mark = "ready"]
  <2>1. PICK r : r = StandAt(near, d)
    OBVIOUS
  <2>2. /\ EyeTyped(r) /\ Course(r, near) /\ r.gaze = near.gaze /\ r.frame = near.frame /\ r.initial = near.initial
        /\ near.flight # NoSource
    BY <1>6, <1>11, <2>1, EyeNames, EyeNumbers DEF Sound, EyeTyped, Course, StandAt, Brake
  <2>3. q = [MarkExploring(r) EXCEPT !.mark = "ready"]
    BY <1>11, <2>1
  <2>4. Sound(q) /\ Course(q, r)
    BY <1>6, <2>2, <2>3, EyeNames, EyeWords DEF Sound, EyeTyped, Course, MarkExploring, DropEntry
  <2> QED
    BY <1>6, <2>2, <2>4 DEF Course
<1>12. CASE e.flight = s /\ q = ScheduleEntry(near, d)
  BY <1>6, <1>7, <1>12, EyeNames, EyeWords DEF Sound, EyeTyped, Course, ScheduleEntry
<1> QED
  BY <1>8, <1>9, <1>10, <1>11, <1>12

LEMMA VisualLayoutIs ==
  ASSUME NEW e, Sound(e), NEW q, q = VisualLayout(e)
  PROVE  /\ Sound(q) /\ Course(q, e) /\ DOMAIN q = DOMAIN e
         /\ \A f \in EyeFields \ {"overview", "latched", "requested", "visual", "detail"} : q[f] = e[f]
<1>1. /\ e.cam \in Cameras /\ e.flight \in Sights /\ e.latched \in Sights /\ e.requested \in Sights
      /\ e.visual \in Sights /\ e.detail \in BOOLEAN /\ e.overview \in BOOLEAN /\ DOMAIN e = EyeFields
  BY DEF Sound, EyeTyped
<1>2. PICK near \in Sights : near = IF e.cam = "far" THEN NoSource ELSE e.cam
  BY <1>1, CameraPlaces
<1>3. PICK browse \in Sights : browse = IF Journey(e) THEN e.flight ELSE NoSource
  BY <1>1, CameraPlaces
<1>4. DetailSource(e.latched, near, e.requested) \in Sights
  BY <1>1, <1>2 DEF DetailSource
<1>5. PICK latch \in Sights : latch = IF e.overview THEN NoSource
                                      ELSE IF browse # NoSource THEN browse
                                      ELSE DetailSource(e.latched, near, e.requested)
  BY <1>3, <1>4, CameraPlaces
<1>6. PICK seen \in Sights : seen = IF e.overview THEN e.visual ELSE IF latch # NoSource THEN latch ELSE near
  BY <1>1, <1>2, <1>5
<1>7. PICK full \in BOOLEAN : full = (seen # NoSource /\ (seen = browse \/ seen = near))
  OBVIOUS
<1>8. PICK detail \in BOOLEAN : detail = (full \/ (seen # NoSource /\ seen = e.requested /\ e.detail))
  OBVIOUS
<1>9. PICK overview \in BOOLEAN : overview = (e.overview /\ near # NoSource /\ e.visual \in {NoSource, near})
  OBVIOUS
<1>10. PICK requested \in Sights : requested = IF seen = e.requested /\ full THEN NoSource ELSE e.requested
  BY <1>1, CameraPlaces
<1>11. PICK visual \in Sights : visual = IF detail \/ latch # NoSource THEN seen ELSE NoSource
  BY <1>6, CameraPlaces
<1>12. q = IF e.strategy = "accumulation"
           THEN [e EXCEPT !.latched = NoSource, !.visual = NoSource, !.detail = FALSE, !.requested = NoSource]
           ELSE [e EXCEPT !.overview = overview, !.latched = latch, !.requested = requested, !.visual = visual,
                          !.detail = detail]
  BY <1>2, <1>3, <1>5, <1>6, <1>7, <1>8, <1>9, <1>10, <1>11, ZenonT(20) DEF VisualLayout, ClearView
<1>13. Sound(q) /\ Course(q, e)
  <2>1. CASE e.strategy = "accumulation"
    BY <1>12, <2>1, EyeNames, CameraPlaces DEF Sound, EyeTyped, Course
  <2>2. CASE e.strategy # "accumulation"
    <3>1. q = [e EXCEPT !.overview = overview, !.latched = latch, !.requested = requested, !.visual = visual,
                        !.detail = detail]
      BY <1>12, <2>2
    <3> QED
      BY <3>1, EyeNames DEF Sound, EyeTyped, Course
  <2> QED
    BY <2>1, <2>2
<1>14. \A f \in EyeFields \ {"overview", "latched", "requested", "visual", "detail"} : q[f] = e[f]
  BY <1>1, <1>12
<1> QED
  BY <1>1, <1>13, <1>14 DEF Sound, EyeTyped

(***************************************************************************)
(* A commit: the options, the data, and the way on.                        *)
(***************************************************************************)
News(n) ==
  /\ n.strategy \in Plans /\ n.interactive \in BOOLEAN /\ n.flight \in Sights /\ n.near \in Int
  /\ n.epoch \in BOOLEAN /\ n.window \in BOOLEAN /\ n.hit \in Sights

LEMMA SetOptionsIs ==
  ASSUME NEW e, Sound(e), NEW n, News(n), NEW q, q = SetOptions(e, n)
  PROVE  /\ Sound(q) /\ q.flight = e.flight /\ q.strategy = n.strategy /\ q.interactive = n.interactive
<1>1. PICK off : off = IF Journey(e) /\ ~(n.interactive /\ n.flight # NoSource) THEN StopTurn(Brake(e)) ELSE e
  OBVIOUS
<1>2. Sound(off) /\ Course(off, e)
  BY <1>1, EyeNames, EyeWords, EyeNumbers DEF Sound, EyeTyped, Course, StopTurn, Brake
<1>3. PICK other : other = IF n.strategy = e.strategy THEN off
                           ELSE [DropEntry(FreeGaze(off))
                                 EXCEPT !.strategy = n.strategy, !.fresh = TRUE, !.focused = FALSE,
                                        !.initial = "none", !.back = FALSE]
  OBVIOUS
<1>4. Sound(other) /\ other.flight = e.flight /\ other.strategy = n.strategy /\ other.interactive = e.interactive
  <2>1. CASE n.strategy = e.strategy
    BY <1>2, <1>3, <2>1 DEF Course
  <2>2. CASE n.strategy # e.strategy
    <3>1. PICK r : r = DropEntry(FreeGaze(off))
      OBVIOUS
    <3>2. Sound(r) /\ Course(r, off)
      BY <1>2, <3>1, EyeNames, EyeWords DEF Sound, EyeTyped, Course, DropEntry, FreeGaze
    <3>3. other = [r EXCEPT !.strategy = n.strategy, !.fresh = TRUE, !.focused = FALSE, !.initial = "none", !.back = FALSE]
      BY <1>3, <2>2, <3>1
    <3>4. n.strategy \in Plans
      BY DEF News
    <3>5. Sound(other) /\ other.flight = r.flight /\ other.strategy = n.strategy /\ other.interactive = r.interactive
      BY <3>2, <3>3, <3>4, EyeNames, EyeWords DEF Sound, EyeTyped
    <3> QED
      BY <1>2, <3>2, <3>5 DEF Course
  <2> QED
    BY <2>1, <2>2
<1>5. PICK plain : plain = IF n.strategy # e.strategy /\ n.strategy = "accumulation"
                           THEN StopTurn(Brake(ClearView(other))) ELSE other
  OBVIOUS
<1>6. Sound(plain) /\ plain.flight = e.flight /\ plain.strategy = n.strategy /\ plain.interactive = e.interactive
  <2>1. PICK r : r = ClearView(other)
    OBVIOUS
  <2>2. Sound(r) /\ Course(r, other)
    BY <1>4, <2>1, EyeNames, CameraPlaces DEF Sound, EyeTyped, Course, ClearView
  <2>3. PICK t : t = StopTurn(Brake(r))
    OBVIOUS
  <2>4. Sound(t) /\ Course(t, r)
    BY <2>2, <2>3, EyeNames, EyeWords, EyeNumbers DEF Sound, EyeTyped, Course, StopTurn, Brake
  <2>5. plain = other \/ plain = t
    BY <1>5, <2>1, <2>3
  <2> QED
    BY <1>4, <2>2, <2>4, <2>5 DEF Course
<1>7. PICK left : left = IF e.interactive /\ ~n.interactive THEN ResetOverview(plain) ELSE plain
  OBVIOUS
<1>8. Sound(left) /\ left.flight = e.flight /\ left.strategy = n.strategy
  <2>1. PICK r : r = ResetOverview(plain)
    OBVIOUS
  <2>2. Sound(r) /\ r.flight = e.flight /\ r.strategy = n.strategy
    BY <1>6, <2>1, ResetOverviewIs DEF Course
  <2> QED
    BY <1>6, <1>7, <2>1, <2>2
<1>9. q = IF n.interactive THEN [left EXCEPT !.interactive = TRUE] ELSE Pause([left EXCEPT !.interactive = FALSE])
  BY <1>1, <1>3, <1>5, <1>7 DEF SetOptions
<1>10. CASE n.interactive
  <2>1. n.interactive = TRUE
    BY <1>10 DEF News
  <2> QED
    BY <1>8, <1>9, <1>10, <2>1, EyeNames DEF Sound, EyeTyped
<1>11. CASE ~n.interactive
  <2>1. PICK r : r = [left EXCEPT !.interactive = FALSE]
    OBVIOUS
  <2>2. Sound(r) /\ r.flight = left.flight /\ r.strategy = left.strategy /\ r.interactive = FALSE
    BY <1>8, <2>1, EyeNames DEF Sound, EyeTyped
  <2>3. q = Pause(r)
    BY <1>9, <1>11, <2>1
  <2>4. n.interactive = FALSE
    BY <1>11 DEF News
  <2> QED
    BY <1>8, <2>2, <2>3, <2>4, PausingIs
<1> QED
  BY <1>10, <1>11

LEMMA AdoptFlightIs ==
  ASSUME NEW e, Sound(e), NEW n, News(n), NEW q, q = AdoptFlight(e, n)
  PROVE  /\ Sound(q) /\ q.flight = n.flight /\ q.strategy = e.strategy /\ q.interactive = e.interactive /\ q.paused = e.paused
         /\ n.flight = NoSource => q.entry = "none"
         /\ n.flight # NoSource /\ n.flight # e.flight => q.depth = 0
<1>1. n.flight \in Sights /\ n.near \in Int
  BY DEF News
<1>2. PICK cut : cut = IF n.flight = NoSource \/ n.flight # e.flight
                       THEN [DropEntry(FreeGaze(e)) EXCEPT !.back = FALSE] ELSE e
  OBVIOUS
<1>3. Sound(cut) /\ Course(cut, e)
  BY <1>2, EyeNames, EyeWords DEF Sound, EyeTyped, Course, DropEntry, FreeGaze
<1>4. n.flight = NoSource \/ n.flight # e.flight => cut.entry = "none" /\ ~cut.gaze /\ ~cut.back
  BY <1>2, EyeNames DEF Sound, EyeTyped, DropEntry, FreeGaze
<1>5. PICK with : with = [cut EXCEPT !.flight = n.flight, !.near = n.near]
  OBVIOUS
<1>6. /\ Sound(with) /\ with.flight = n.flight /\ with.strategy = e.strategy /\ with.interactive = e.interactive
      /\ with.paused = e.paused
      /\ n.flight = NoSource \/ n.flight # e.flight => with.entry = "none"
  <2>1. CASE n.flight = NoSource \/ n.flight # e.flight
    BY <1>1, <1>3, <1>4, <1>5, <2>1, EyeNames DEF Sound, EyeTyped, Course
  <2>2. CASE ~(n.flight = NoSource \/ n.flight # e.flight)
    BY <1>1, <1>3, <1>5, <2>2, EyeNames DEF Sound, EyeTyped, Course
  <2> QED
    BY <2>1, <2>2
<1>7. \/ n.flight = NoSource /\ (\E own \in Owns : q = [with EXCEPT !.phase = "overview", !.gate = "off", !.own = own])
      \/ n.flight # NoSource /\ n.flight # e.flight /\ q = MarkOrigin(StandAt([with EXCEPT !.own = "no"], 0))
      \/ n.flight # NoSource /\ n.flight = e.flight /\ q = StartLoop(FlyTo(with, n.near))
      \/ n.flight # NoSource /\ n.flight = e.flight /\ q = [with EXCEPT !.own = "no"]
      \/ n.flight # NoSource /\ n.flight = e.flight /\ q = with
  <2>1. with.own \in Owns
    BY <1>6 DEF Sound, EyeTyped
  <2>2. PICK own \in Owns : own = IF n.window /\ ~n.epoch THEN "no" ELSE with.own
    BY <2>1, EyeWords
  <2>3. CASE n.flight = NoSource
    <3>1. q = [with EXCEPT !.phase = "overview", !.gate = "off", !.own = own]
      BY <1>2, <1>5, <2>2, <2>3 DEF AdoptFlight
    <3> QED
      BY <2>3, <3>1
  <2>4. CASE n.flight # NoSource
    BY <1>2, <1>5, <2>4 DEF AdoptFlight
  <2> QED
    BY <2>3, <2>4
<1>8. CASE n.flight = NoSource /\ (\E own \in Owns : q = [with EXCEPT !.phase = "overview", !.gate = "off", !.own = own])
  <2>1. PICK own \in Owns : q = [with EXCEPT !.phase = "overview", !.gate = "off", !.own = own]
    BY <1>8
  <2> QED
    BY <1>6, <1>8, <2>1, EyeNames, EyeWords DEF Sound, EyeTyped
<1>9. CASE n.flight # NoSource /\ n.flight # e.flight /\ q = MarkOrigin(StandAt([with EXCEPT !.own = "no"], 0))
  <2>1. PICK r : r = [with EXCEPT !.own = "no"]
    OBVIOUS
  <2>2. Sound(r) /\ Course(r, with)
    BY <1>6, <2>1, EyeNames, EyeWords DEF Sound, EyeTyped, Course
  <2>3. q = MarkOrigin(StandAt(r, 0))
    BY <1>9, <2>1
  <2>4. Sound(q) /\ Course(q, r) /\ q.depth = 0 /\ q.entry = "none"
    <3>1. PICK t : t = StandAt(r, 0)
      OBVIOUS
    <3>2. Sound(t) /\ Course(t, r) /\ t.depth = 0
      BY <2>2, <3>1, EyeNames, EyeNumbers DEF Sound, EyeTyped, Course, StandAt, Brake
    <3>3. q = MarkOrigin(t)
      BY <2>3, <3>1
    <3>4. Sound(q) /\ Course(q, t) /\ q.depth = 0 /\ q.entry = "none"
      BY <3>2, <3>3, EyeNames, EyeWords DEF Sound, EyeTyped, Course, MarkOrigin, DropEntry
    <3> QED
      BY <3>2, <3>4 DEF Course
  <2> QED
    BY <1>6, <1>9, <2>2, <2>4 DEF Course
<1>10. CASE n.flight # NoSource /\ n.flight = e.flight /\ q = StartLoop(FlyTo(with, n.near))
  <2>1. PICK r : r = FlyTo(with, n.near)
    OBVIOUS
  <2>2. Sound(r) /\ Course(r, with)
    BY <1>1, <1>6, <2>1, EyeNames, EyeNumbers DEF Sound, EyeTyped, Course, FlyTo
  <2>3. q = StartLoop(r)
    BY <1>10, <2>1
  <2>4. Sound(q) /\ Course(q, r)
    BY <2>2, <2>3, StartLoopIs
  <2> QED
    BY <1>6, <1>10, <2>2, <2>4 DEF Course
<1>11. CASE n.flight # NoSource /\ n.flight = e.flight /\ q = [with EXCEPT !.own = "no"]
  BY <1>6, <1>11, EyeNames, EyeWords DEF Sound, EyeTyped
<1>12. CASE n.flight # NoSource /\ n.flight = e.flight /\ q = with
  BY <1>6, <1>12
<1> QED
  BY <1>7, <1>8, <1>9, <1>10, <1>11, <1>12

LEMMA AdoptEpochIs ==
  ASSUME NEW e, Sound(e), NEW n, News(n), e.flight = n.flight, n.flight = NoSource => e.entry = "none",
         n.epoch /\ n.flight # NoSource => e.depth = 0, NEW q, q = AdoptEpoch(e, n)
  PROVE  Sound(q) /\ Course(q, e)
<1>1. CASE ~n.epoch
  BY <1>1 DEF AdoptEpoch, Course
<1>2. CASE n.epoch
  <2>1. PICK clean : clean = [ClearView(StopTurn(Brake(e))) EXCEPT !.held = FALSE, !.overview = TRUE]
    OBVIOUS
  <2>2. Sound(clean) /\ Course(clean, e) /\ clean.depth = e.depth /\ clean.entry = e.entry
    BY <2>1, EyeNames, EyeWords, EyeNumbers, CameraPlaces DEF Sound, EyeTyped, Course, ClearView, StopTurn, Brake
  <2>3. CASE n.flight # NoSource
    <3>1. q = MarkOrigin(clean)
      BY <1>2, <2>1, <2>3 DEF AdoptEpoch
    <3>2. clean.depth = 0
      BY <1>2, <2>2, <2>3
    <3>3. Sound(q) /\ Course(q, clean)
      BY <2>2, <3>1, <3>2, EyeNames, EyeWords DEF Sound, EyeTyped, Course, MarkOrigin, DropEntry
    <3> QED
      BY <2>2, <3>3 DEF Course
  <2>4. CASE n.flight = NoSource
    <3>1. q = [clean EXCEPT !.phase = "overview", !.gate = "off"]
      BY <1>2, <2>1, <2>4 DEF AdoptEpoch
    <3>2. clean.entry = "none"
      BY <2>2, <2>4
    <3>3. Sound(q) /\ Course(q, clean)
      BY <2>2, <3>1, <3>2, EyeNames, EyeWords DEF Sound, EyeTyped, Course
    <3> QED
      BY <2>2, <3>3 DEF Course
  <2> QED
    BY <2>3, <2>4
<1> QED
  BY <1>1, <1>2

LEMMA PlaceCameraIs ==
  ASSUME NEW e, Sound(e), NEW old, NEW n, News(n), NEW q, q = PlaceCamera(e, old, n)
  PROVE  Sound(q) /\ q.flight = e.flight /\ q.strategy = e.strategy /\ q.interactive = e.interactive
<1>1. PICK ready : ready = [e EXCEPT !.ready = TRUE, !.initial = "none", !.fresh = FALSE, !.restoring = FALSE]
  OBVIOUS
<1>2. Sound(ready) /\ Course(ready, e)
  BY <1>1, EyeNames, EyeWords DEF Sound, EyeTyped, Course
<1>3. PICK focused : focused = [ready EXCEPT !.focused = TRUE]
  OBVIOUS
<1>4. Sound(focused) /\ Course(focused, e)
  BY <1>2, <1>3, EyeNames DEF Sound, EyeTyped, Course
<1>5. n.flight \in Sights /\ n.hit \in Sights
  BY DEF News
<1>6. \/ q = focused
      \/ q = FrameOverview(focused)
      \/ ~e.paused /\ n.flight # NoSource /\ q = FocusSource(focused, n.flight)
      \/ ~e.paused /\ n.hit # NoSource /\ q = FocusSource(focused, n.hit)
      \/ q = ScheduleInitialFocus(ready)
  BY <1>1, <1>3 DEF PlaceCamera
<1>7. CASE q = focused
  BY <1>4, <1>7 DEF Course
<1>8. CASE q = FrameOverview(focused)
  BY <1>4, <1>8, FrameOverviewIs DEF Course
<1>9. CASE ~e.paused /\ n.flight # NoSource /\ q = FocusSource(focused, n.flight)
  BY <1>4, <1>5, <1>9, FocusSourceIs DEF Course
<1>10. CASE ~e.paused /\ n.hit # NoSource /\ q = FocusSource(focused, n.hit)
  BY <1>4, <1>5, <1>10, FocusSourceIs DEF Course
<1>11. CASE q = ScheduleInitialFocus(ready)
  BY <1>2, <1>11, EyeNames, EyeWords DEF Sound, EyeTyped, Course, ScheduleInitialFocus
<1> QED
  BY <1>6, <1>7, <1>8, <1>9, <1>10, <1>11

\* Data of another epoch that names a flight names another one.
Fits(e, n) == News(n) /\ (n.epoch /\ n.flight # NoSource => n.flight # e.flight)

LEMMA SetDataIs ==
  ASSUME NEW e, Sound(e), NEW n, Fits(e, n), NEW q, q = SetData(e, n)
  PROVE  Sound(q) /\ q.flight = n.flight /\ q.strategy = e.strategy /\ q.interactive = e.interactive
<1>1. News(n) /\ e.turn \in Turns
  BY DEF Fits, Sound, EyeTyped
<1>2. PICK turn \in Turns : turn = IF n.window /\ ~n.epoch /\ ~StableRestore(e) /\ Journey(e) THEN "entering"
                        ELSE IF \/ ~n.epoch /\ n.cause = "synchronization" /\ e.turn = "entering"
                                \/ n.window /\ ~n.epoch /\ n.cause # "journey" /\ e.turn \in {"asked", "due"}
                             THEN "idle" ELSE e.turn
  BY <1>1, EyeWords
<1>3. PICK a : a = [e EXCEPT !.turn = turn]
  OBVIOUS
<1>4. Sound(a) /\ Course(a, e)
  BY <1>3, EyeNames DEF Sound, EyeTyped, Course
<1>5. PICK b : b = AdoptFlight(a, n)
  OBVIOUS
<1>6. /\ Sound(b) /\ b.flight = n.flight /\ b.strategy = a.strategy /\ b.interactive = a.interactive
      /\ n.flight = NoSource => b.entry = "none"
      /\ n.flight # NoSource /\ n.flight # a.flight => b.depth = 0
  BY <1>1, <1>4, <1>5, AdoptFlightIs
<1>7. PICK c : c = AdoptEpoch(b, n)
  OBVIOUS
<1>8. n.epoch /\ n.flight # NoSource => b.depth = 0
  BY <1>4, <1>6 DEF Fits, Course
<1>9. Sound(c) /\ Course(c, b)
  BY <1>1, <1>6, <1>7, <1>8, AdoptEpochIs
<1>10. PICK d : d = VisualLayout(c)
  OBVIOUS
<1>11. Sound(d) /\ Course(d, c)
  BY <1>9, <1>10, VisualLayoutIs
<1>12. q = PlaceCamera(d, e, n)
  BY <1>2, <1>3, <1>5, <1>7, <1>10 DEF SetData
<1>13. Sound(q) /\ q.flight = d.flight /\ q.strategy = d.strategy /\ q.interactive = d.interactive
  BY <1>1, <1>11, <1>12, PlaceCameraIs
<1> QED
  BY <1>4, <1>6, <1>9, <1>11, <1>13 DEF Course

LEMMA CommitIs ==
  ASSUME NEW e, Sound(e), NEW n, Fits(e, n), NEW q, q = Commit(e, n)
  PROVE  /\ Sound(q) /\ q.strategy = n.strategy /\ q.interactive = n.interactive
         /\ q.flight = IF n.interactive THEN n.flight ELSE e.flight
<1>1. News(n)
  BY DEF Fits
<1>2. PICK opted : opted = SetOptions(e, n)
  OBVIOUS
<1>3. Sound(opted) /\ opted.flight = e.flight /\ opted.strategy = n.strategy /\ opted.interactive = n.interactive
  BY <1>1, <1>2, SetOptionsIs
<1>4. CASE ~n.interactive
  BY <1>2, <1>3, <1>4 DEF Commit
<1>5. CASE n.interactive
  <2>1. PICK d : d = SetData(opted, n)
    OBVIOUS
  <2>2. Fits(opted, n)
    BY <1>3 DEF Fits
  <2>3. Sound(d) /\ d.flight = n.flight /\ d.strategy = n.strategy /\ d.interactive = n.interactive
    BY <1>3, <2>1, <2>2, SetDataIs
  <2>4. q = Resume(d)
    BY <1>2, <1>5, <2>1 DEF Commit
  <2>5. Sound(q) /\ q.flight = d.flight /\ q.strategy = d.strategy /\ q.interactive = d.interactive
    BY <2>3, <2>4, ResumeIs
  <2> QED
    BY <1>5, <2>3, <2>5
<1> QED
  BY <1>4, <1>5

(***************************************************************************)
(* Frames, gestures and the view that is restored.                         *)
(***************************************************************************)
LEMMA BeginEntryIs ==
  ASSUME NEW e, Sound(e), e.entryTimer, NEW q, q = BeginEntry(e)
  PROVE  Sound(q) /\ Course(q, e)
<1>1. CASE e.paused \/ e.flight = NoSource \/ e.phase # "entering"
  BY <1>1, EyeNames DEF Sound, EyeTyped, Course, BeginEntry
<1>2. CASE ~(e.paused \/ e.flight = NoSource \/ e.phase # "entering")
  <2>1. PICK r : r = [e EXCEPT !.entryTimer = FALSE, !.entry = "emitting", !.mark = "emitting"]
    OBVIOUS
  <2>2. Sound(r) /\ Course(r, e) /\ e.entryTo \in Int
    BY <1>2, <2>1, EyeNames, EyeWords DEF Sound, EyeTyped, Course
  <2>3. PICK f : f = FlyTo(r, e.entryTo)
    OBVIOUS
  <2>4. Sound(f) /\ Course(f, r)
    BY <2>2, <2>3, EyeNames, EyeNumbers DEF Sound, EyeTyped, Course, FlyTo
  <2>5. q = StartLoop(f)
    BY <1>2, <2>1, <2>3 DEF BeginEntry
  <2>6. Sound(q) /\ Course(q, f)
    BY <2>4, <2>5, StartLoopIs
  <2> QED
    BY <2>2, <2>4, <2>6 DEF Course
<1> QED
  BY <1>1, <1>2

LEMMA MarkExploringIs ==
  ASSUME NEW e, Sound(e), NEW q, q = MarkExploring(e)
  PROVE  Sound(q) /\ Course(q, e) /\ q.depth = e.depth
BY EyeNames, EyeWords DEF Sound, EyeTyped, Course, MarkExploring, DropEntry

LEMMA MarkOriginIs ==
  ASSUME NEW e, Sound(e), e.depth = 0, NEW q, q = MarkOrigin(e)
  PROVE  Sound(q) /\ Course(q, e) /\ q.depth = 0
BY EyeNames, EyeWords DEF Sound, EyeTyped, Course, MarkOrigin, DropEntry

LEMMA StepIs ==
  ASSUME NEW e, Sound(e), e.phase # "origin", NEW rests, NEW q, q = Step(e, rests)
  PROVE  Sound(q) /\ Course(q, e)
<1>1. e.target \in Int /\ e.aim \in Depths /\ e.speed \in Speeds /\ DeepestPlace \in Nat
  BY SceneAssumption DEF Sound, EyeTyped
<1>2. PICK goal \in Depths : goal = Between(0, DeepestPlace, e.target)
  BY <1>1, EyeNumbers
<1>3. Between(0, DeepestPlace, e.aim + e.speed) \in Depths
  <2>1. e.aim + e.speed \in Int
    BY <1>1 DEF Depths, Speeds
  <2> QED
    BY <2>1, EyeNumbers
<1>4. goal # e.aim => IF goal > e.aim THEN e.aim + 1 \in Depths ELSE e.aim - 1 \in Depths
  BY <1>1, <1>2 DEF Depths
<1>5. PICK at \in Depths : at = IF e.target # Nowhere
                               THEN IF stage.trip.reduced \/ goal = e.aim THEN goal
                                    ELSE IF goal > e.aim THEN e.aim + 1 ELSE e.aim - 1
                               ELSE Between(0, DeepestPlace, e.aim + e.speed)
  BY <1>2, <1>3, <1>4
<1>6. PICK target \in Int : target = IF stage.trip.reduced \/ goal = e.aim
                                        \/ (at = 0 /\ e.target <= 0) \/ (at = DeepestPlace /\ e.target >= at)
                                     THEN Nowhere ELSE e.target
  BY <1>1, EyeNumbers
<1>7. PICK speed \in Speeds : speed = IF ((at = 0 /\ e.speed < 0) \/ (at = DeepestPlace /\ e.speed > 0)) \/ rests
                                      THEN 0 ELSE e.speed
  BY <1>1, EyeNumbers
<1>8. q = [e EXCEPT !.aim = at, !.depth = at, !.target = target, !.speed = speed]
  BY <1>2, <1>5, <1>6, <1>7 DEF Step
<1>9. at \in Depths /\ target \in Int /\ speed \in Speeds
  OBVIOUS
<1> HIDE DEF Depths
<1> QED
  BY <1>8, <1>9, EyeNames DEF Sound, EyeTyped, Course

LEMMA MoveTimelineIs ==
  ASSUME NEW e, Sound(e), NEW q, q = MoveTimeline(e)
  PROVE  Sound(q) /\ Course(q, e)
<1>1. PICK r : r = MarkExploring(e)
  OBVIOUS
<1>2. Sound(r) /\ Course(r, e)
  BY <1>1, MarkExploringIs
<1>3. q = e \/ q = [r EXCEPT !.turn = "asked"]
  BY <1>1 DEF MoveTimeline
<1>4. q = [r EXCEPT !.turn = "asked"] => Sound(q) /\ Course(q, r)
  BY <1>2, EyeNames, EyeWords DEF Sound, EyeTyped, Course
<1> QED
  BY <1>2, <1>3, <1>4 DEF Course

LEMMA FlightFrameIs ==
  ASSUME NEW e, Sound(e), NEW rests, NEW q, q = FlightFrame(e, rests)
  PROVE  Sound(q) /\ Course(q, e)
<1>1. CASE e.phase \in {"origin", "overview"} \/ ~Journey(e)
  BY <1>1 DEF FlightFrame, Course
<1>2. CASE ~(e.phase \in {"origin", "overview"} \/ ~Journey(e))
  <2>1. PICK to : to = Step(e, rests)
    OBVIOUS
  <2>2. Sound(to) /\ Course(to, e)
    BY <1>2, <2>1, StepIs
  <2>3. PICK ready : ready = [to EXCEPT !.mark = "ready"]
    OBVIOUS
  <2>4. Sound(ready) /\ Course(ready, to)
    BY <2>2, <2>3, EyeNames DEF Sound, EyeTyped, Course
  <2>5. PICK in : in = IF ~Moving(to) /\ to.mark = "emitting" THEN MarkExploring(ready) ELSE to
    OBVIOUS
  <2>6. Sound(in) /\ Course(in, e)
    BY <2>2, <2>4, <2>5, MarkExploringIs DEF Course
  <2>7. PICK home : home = IF ~Moving(in) /\ in.depth = 0 THEN MarkOrigin(in) ELSE in
    OBVIOUS
  <2>8. Sound(home) /\ Course(home, e)
    BY <2>6, <2>7, MarkOriginIs DEF Course
  <2>9. PICK own : own = [home EXCEPT !.own = "asked"]
    OBVIOUS
  <2>10. Sound(own) /\ Course(own, home)
    BY <2>8, <2>9, EyeNames, EyeWords DEF Sound, EyeTyped, Course
  <2>11. q = home \/ q = MoveTimeline(own)
    BY <1>2, <2>1, <2>3, <2>5, <2>7, <2>9 DEF FlightFrame
  <2> QED
    BY <2>8, <2>10, <2>11, MoveTimelineIs DEF Course
<1> QED
  BY <1>1, <1>2

LEMMA ReturnFrameIs ==
  ASSUME NEW e, Sound(e), e.back, NEW arrives \in BOOLEAN, NEW q, q = ReturnFrame(e, arrives)
  PROVE  Sound(q) /\ Course(q, e)
<1>1. e.flight # NoSource /\ e.depth \in Depths
  BY DEF Sound, EyeTyped
<1>2. CASE arrives
  <2>1. PICK r : r = [StandAt(e, 0) EXCEPT !.back = FALSE]
    OBVIOUS
  <2>2. Sound(r) /\ Course(r, e) /\ r.depth = 0
    BY <2>1, EyeNames, EyeNumbers DEF Sound, EyeTyped, Course, StandAt, Brake
  <2>3. PICK o : o = MarkOrigin(r)
    OBVIOUS
  <2>4. Sound(o) /\ Course(o, r)
    BY <2>2, <2>3, MarkOriginIs
  <2>5. q = [o EXCEPT !.gaze = TRUE]
    BY <1>2, <2>1, <2>3 DEF ReturnFrame
  <2>6. o.flight # NoSource
    BY <1>1, <2>2, <2>4 DEF Course
  <2>7. Sound(q) /\ Course(q, o)
    BY <2>4, <2>5, <2>6, EyeNames DEF Sound, EyeTyped, Course
  <2> QED
    BY <2>2, <2>4, <2>7 DEF Course
<1>3. CASE ~arrives
  <2>1. PICK d \in Depths : d = e.depth
    BY <1>1
  <2>2. q = StandAt(e, d)
    BY <1>3, <2>1 DEF ReturnFrame
  <2> QED
    BY <2>1, <2>2, StandAtIs DEF Sound
<1> QED
  BY <1>2, <1>3

LEMMA FrameIs ==
  ASSUME NEW e, Sound(e), NEW rests \in BOOLEAN, NEW kept \in BOOLEAN, NEW q, q = Frame(e, rests, kept)
  PROVE  Sound(q) /\ q.flight = e.flight /\ q.strategy = e.strategy /\ q.interactive = e.interactive
<1>1. CASE e.paused \/ e.hidden
  BY <1>1, EyeNames DEF Sound, EyeTyped, Frame
<1>2. CASE ~(e.paused \/ e.hidden)
  <2>1. PICK moved : moved = IF e.back THEN ReturnFrame(e, rests) ELSE FlightFrame(e, rests)
    OBVIOUS
  <2>2. Sound(moved) /\ Course(moved, e)
    BY <2>1, ReturnFrameIs, FlightFrameIs
  <2>3. PICK v : v = VisualLayout(moved)
    OBVIOUS
  <2>4. Sound(v) /\ Course(v, moved)
    BY <2>2, <2>3, VisualLayoutIs
  <2>5. moved.back \in BOOLEAN
    BY <2>2 DEF Sound, EyeTyped
  <2>6. PICK again \in BOOLEAN : again = (kept \/ moved.back \/ moved.turn = "entering"
                                          \/ (moved.phase \notin {"origin", "overview"} /\ Moving(moved)))
    BY <2>5
  <2>7. q = [v EXCEPT !.frame = again]
    BY <1>2, <2>1, <2>3, <2>6 DEF Frame
  <2>8. ~v.paused
    BY <1>2, <2>2, <2>4 DEF Course
  <2>9. Sound(q) /\ Course(q, v)
    BY <2>4, <2>7, <2>8, EyeNames DEF Sound, EyeTyped, Course
  <2> QED
    BY <2>2, <2>4, <2>9 DEF Course
<1> QED
  BY <1>1, <1>2

LEMMA NowIs ==
  ASSUME NEW e, EyeTyped(e)
  PROVE  /\ News(Now(e)) /\ Now(e).strategy = e.strategy /\ Now(e).interactive = e.interactive /\ Now(e).flight = e.flight
         /\ DOMAIN Now(e) = {"strategy", "interactive", "flight", "near", "epoch", "window", "cause", "nodes", "hit"}
BY CameraPlaces DEF EyeTyped, Now, News

LEMMA GoHomeIs ==
  ASSUME NEW e, Sound(e), NEW q, q = GoHome(e)
  PROVE  Sound(q) /\ q.strategy = "exploration"
<1>1. PICK n : n = Home(e)
  OBVIOUS
<1>2. EyeTyped(e)
  BY DEF Sound
<1>3. Fits(e, n) /\ n.strategy = "exploration"
  BY <1>1, <1>2, NowIs, EyeWords, CameraPlaces DEF Home, News, Fits
<1>4. PICK c : c = Commit(e, n)
  OBVIOUS
<1>5. Sound(c) /\ c.strategy = "exploration"
  BY <1>3, <1>4, CommitIs
<1>6. q = FrameOverview(c)
  BY <1>1, <1>4 DEF GoHome
<1> QED
  BY <1>5, <1>6, FrameOverviewIs DEF Course

LEMMA ReturnToOriginIs ==
  ASSUME NEW e, Sound(e), e.flight # NoSource, NEW q, q = ReturnToOrigin(e)
  PROVE  Sound(q) /\ Course(q, e)
<1>1. PICK rest : rest = Brake(FreeGaze([DropEntry(StopTurn(e)) EXCEPT !.held = FALSE]))
  OBVIOUS
<1>2. Sound(rest) /\ Course(rest, e) /\ rest.entry = "none"
  BY <1>1, EyeNames, EyeWords, EyeNumbers DEF Sound, EyeTyped, Course, Brake, FreeGaze, DropEntry, StopTurn
<1>3. PICK back : back = [rest EXCEPT !.phase = "returning", !.back = TRUE]
  OBVIOUS
<1>4. Sound(back) /\ Course(back, rest) /\ back.back
  BY <1>2, <1>3, EyeNames, EyeWords DEF Sound, EyeTyped, Course
<1>5. PICK yes \in BOOLEAN : yes = TRUE
  OBVIOUS
<1>6. q = ReturnFrame(back, yes) \/ q = StartLoop(back)
  BY <1>1, <1>3, <1>5 DEF ReturnToOrigin
<1>7. q = ReturnFrame(back, yes) => Sound(q) /\ Course(q, back)
  BY <1>4, ReturnFrameIs
<1>8. q = StartLoop(back) => Sound(q) /\ Course(q, back)
  BY <1>4, StartLoopIs
<1> QED
  BY <1>2, <1>4, <1>6, <1>7, <1>8 DEF Course

\* What the reader does keeps gathered evidence without a flight.
Apart(e) == e.strategy = "accumulation" => e.flight = NoSource

LEMMA GoBackIs ==
  ASSUME NEW e, Sound(e), Apart(e), NEW q, q = GoBack(e)
  PROVE  Sound(q) /\ Apart(q)
<1>1. CASE AlreadyAtOrigin(e)
  BY <1>1, GoHomeIs DEF GoBack, Apart
<1>2. CASE ~AlreadyAtOrigin(e)
  <2>1. q = e \/ q = ReturnToOrigin(e)
    BY <1>2 DEF GoBack
  <2>2. e.flight # NoSource
    BY <1>2 DEF AlreadyAtOrigin
  <2> QED
    BY <2>1, <2>2, ReturnToOriginIs DEF Apart, Course
<1> QED
  BY <1>1, <1>2

LEMMA WheelOutIs ==
  ASSUME NEW e, Sound(e), Apart(e), e.depth = 0, NEW q, q = WheelOut(e)
  PROVE  Sound(q) /\ Apart(q)
<1>1. PICK at : at = IF e.phase = "origin" THEN e ELSE MarkOrigin(e)
  OBVIOUS
<1>2. Sound(at) /\ Course(at, e)
  BY <1>1, MarkOriginIs DEF Course
<1>3. PICK armed : armed = [at EXCEPT !.gate = "armed"]
  OBVIOUS
<1>4. Sound(armed) /\ Course(armed, at)
  BY <1>2, <1>3, EyeNames DEF Sound, EyeTyped, Course
<1>5. PICK off : off = [at EXCEPT !.gate = "off"]
  OBVIOUS
<1>6. Sound(off) /\ Course(off, at)
  BY <1>2, <1>5, EyeNames DEF Sound, EyeTyped, Course
<1>7. q = armed \/ q = at \/ q = GoBack(off)
  BY <1>1, <1>3, <1>5 DEF WheelOut
<1> QED
  BY <1>2, <1>4, <1>6, <1>7, GoBackIs DEF Apart, Course

LEMMA WheelTravelIs ==
  ASSUME NEW e, Sound(e), NEW way \in {-1, 0, 1}, NEW q, q = WheelTravel(e, way)
  PROVE  Sound(q) /\ Course(q, e)
<1>1. e.aim \in Depths /\ e.speed \in Speeds
  BY DEF Sound, EyeTyped
<1>2. e.aim + way \in Int /\ e.speed + way \in Int
  <2>1. e.aim \in Int /\ e.speed \in Int /\ way \in Int
    BY <1>1, EyeNumbers DEF Speeds
  <2> QED
    BY <2>1
<1>3. PICK aim \in Depths : aim = Between(0, DeepestPlace, e.aim + way)
  BY <1>2, EyeNumbers
<1>4. PICK speed \in Speeds : speed = Between(-1, 1, e.speed + way)
  BY <1>2, EyeNumbers
<1>5. PICK a : a = [e EXCEPT !.speed = 0, !.target = Nowhere, !.aim = aim]
  OBVIOUS
<1>6. Sound(a) /\ Course(a, e)
  BY <1>5, EyeNames, EyeNumbers DEF Sound, EyeTyped, Course
<1>7. PICK b : b = [e EXCEPT !.speed = speed, !.target = Nowhere]
  OBVIOUS
<1>8. Sound(b) /\ Course(b, e)
  BY <1>7, EyeNames, EyeNumbers DEF Sound, EyeTyped, Course
<1>9. PICK r : r = Brake(e)
  OBVIOUS
<1>10. a = [r EXCEPT !.aim = Between(0, DeepestPlace, r.aim + way)]
  <2>1. r = [e EXCEPT !.speed = 0, !.target = Nowhere]
    BY <1>9 DEF Brake
  <2>2. r.aim = e.aim
    BY <2>1, EyeNames DEF Sound, EyeTyped
  <2> QED
    BY <1>3, <1>5, <2>1, <2>2
<1>11. q = e \/ q = MarkExploring(a) \/ q = MarkExploring(b)
  BY <1>4, <1>7, <1>9, <1>10 DEF WheelTravel
<1> QED
  BY <1>6, <1>8, <1>11, MarkExploringIs DEF Course

LEMMA RestoreViewIs ==
  ASSUME NEW e, Sound(e), NEW view, view.source \in Sights, view.detail \in BOOLEAN, view.depth \in Depths,
         view.cam \in Cameras, NEW q, q = RestoreView(e, view)
  PROVE  Sound(q) /\ Course(q, e)
<1>1. PICK overview \in BOOLEAN : overview = (view.source = NoSource)
  OBVIOUS
<1>2. PICK seen : seen = [StopTurn(e) EXCEPT !.visual = view.source, !.latched = view.source,
                                    !.requested = view.source, !.overview = overview,
                                    !.detail = view.detail, !.cam = view.cam]
  OBVIOUS
<1>3. Sound(seen) /\ Course(seen, e)
  <2>1. PICK r : r = StopTurn(e)
    OBVIOUS
  <2>2. Sound(r) /\ Course(r, e)
    BY <2>1, EyeNames, EyeWords DEF Sound, EyeTyped, Course, StopTurn
  <2>3. seen = [r EXCEPT !.visual = view.source, !.latched = view.source, !.requested = view.source,
                         !.overview = overview, !.detail = view.detail, !.cam = view.cam]
    BY <1>2, <2>1
  <2>4. Sound(seen) /\ Course(seen, r)
    BY <2>2, <2>3, EyeNames DEF Sound, EyeTyped, Course
  <2> QED
    BY <2>2, <2>4 DEF Course
<1>4. PICK d \in Depths : d = Between(0, DeepestPlace, view.depth)
  BY EyeNumbers
<1>5. PICK flown : flown = [seen EXCEPT !.speed = 0, !.target = Nowhere, !.depth = d, !.aim = d, !.gaze = TRUE]
  OBVIOUS
<1>6. EyeTyped(flown) /\ Course(flown, seen) /\ flown.depth = d
      /\ flown.frame = seen.frame /\ flown.initial = seen.initial /\ flown.entryTimer = seen.entryTimer /\ flown.back = seen.back
  BY <1>3, <1>5, EyeNames, EyeNumbers DEF Sound, EyeTyped, Course
<1>7. PICK placed : placed = IF e.flight = NoSource \/ view.source # e.flight THEN seen
                             ELSE IF d = 0 THEN MarkOrigin(flown) ELSE MarkExploring(flown)
  OBVIOUS
<1>8. Sound(placed) /\ Course(placed, seen)
  <2>1. CASE e.flight = NoSource \/ view.source # e.flight
    BY <1>3, <1>7, <2>1 DEF Course
  <2>2. CASE ~(e.flight = NoSource \/ view.source # e.flight)
    <3>1. flown.flight # NoSource
      BY <1>3, <1>6, <2>2 DEF Course
    <3>2. CASE d = 0
      <4>1. placed = MarkOrigin(flown)
        BY <1>7, <2>2, <3>2
      <4>2. placed = [flown EXCEPT !.entry = "none", !.entryTimer = FALSE, !.phase = "origin", !.mark = "core", !.gate = "armed"]
        BY <4>1 DEF MarkOrigin, DropEntry
      <4> QED
        BY <1>3, <1>6, <3>1, <3>2, <4>2, EyeNames, EyeWords DEF Sound, EyeTyped, Course
    <3>3. CASE d # 0
      <4>1. placed = MarkExploring(flown)
        BY <1>7, <2>2, <3>3
      <4>2. placed = [flown EXCEPT !.entry = "none", !.entryTimer = FALSE, !.back = FALSE, !.gate = "off", !.phase = "exploring"]
        BY <3>1, <4>1 DEF MarkExploring, DropEntry
      <4> QED
        BY <1>3, <1>6, <3>1, <4>2, EyeNames, EyeWords DEF Sound, EyeTyped, Course
    <3> QED
      BY <3>2, <3>3
  <2> QED
    BY <2>1, <2>2
<1>9. q = StartLoop(placed)
  BY <1>1, <1>2, <1>4, <1>5, <1>7 DEF RestoreView, StandAt, Brake
<1>10. Sound(q) /\ Course(q, placed)
  BY <1>8, <1>9, StartLoopIs
<1> QED
  BY <1>3, <1>8, <1>10 DEF Course

(***************************************************************************)
(* The stage, and the inductive invariant.                                 *)
(***************************************************************************)
StageFields == {"trip", "left", "kept", "restoring", "restored", "follow"}
Restorings  == {"no", "alone", "disturbed"}

\* What is kept of an exploration while evidence is gathered.
ViewKept(k) ==
  /\ k.is \in BOOLEAN
  /\ k.is => k.flight \in Sights /\ k.near \in Int
  /\ k.is => k.view.source \in Sights /\ k.view.detail \in BOOLEAN /\ k.view.depth \in Depths /\ k.view.cam \in Cameras
Budget(t) == 0..t.left
Staged ==
  /\ DOMAIN stage = StageFields
  /\ stage.trip \in SceneTrips /\ stage.left \in Budget(stage.trip)
  /\ ViewKept(stage.kept) /\ stage.restoring \in Restorings
  /\ stage.restoring # "no" => stage.kept.is

SceneCorrect == Sound(eye) /\ Apart(eye) /\ Staged

LEMMA StageNames ==
  /\ "trip" \in StageFields /\ "left" \in StageFields /\ "kept" \in StageFields /\ "restoring" \in StageFields
  /\ "restored" \in StageFields /\ "follow" \in StageFields
  /\ "no" \in Restorings /\ "alone" \in Restorings /\ "disturbed" \in Restorings
BY DEF StageFields, Restorings

LEMMA BudgetIs ==
  ASSUME NEW t \in SceneTrips, NEW left \in Budget(t), left > 0
  PROVE  left - 1 \in Budget(t)
<1>1. t.left \in Nat
  BY SceneAssumption
<1> QED
  BY <1>1 DEF Budget

LEMMA StillIs ==
  ASSUME Staged, Still
  PROVE  Staged'
BY DEF Staged, Still

LEMMA SupersedeIs ==
  ASSUME Staged, stage.left > 0, Supersede
  PROVE  Staged'
<1>1. PICK left : left = stage.left - 1
  OBVIOUS
<1>2. left \in Budget(stage.trip)
  BY <1>1, BudgetIs DEF Staged
<1>3. stage' = [stage EXCEPT !.left = left, !.restored = FALSE, !.restoring = "no"]
  BY <1>1 DEF Supersede
<1> QED
  BY <1>2, <1>3, StageNames DEF Staged

LEMMA SpendIs ==
  ASSUME Staged, stage.left > 0, Spend
  PROVE  Staged'
<1>1. PICK left : left = stage.left - 1
  OBVIOUS
<1>2. left \in Budget(stage.trip)
  BY <1>1, BudgetIs DEF Staged
<1>3. PICK r \in Restorings : r = IF stage.restoring = "no" \/ (eye.flight # NoSource /\ eye'.flight = NoSource)
                                 THEN "no" ELSE "disturbed"
  BY StageNames
<1>4. r # "no" => stage.restoring # "no"
  BY <1>3
<1>5. stage' = [stage EXCEPT !.left = left, !.restored = FALSE, !.restoring = r]
  BY <1>1, <1>3 DEF Spend
<1> QED
  BY <1>2, <1>4, <1>5, StageNames DEF Staged

LEMMA FirstStep == SceneInit => SceneCorrect
<1> SUFFICES ASSUME SceneInit PROVE SceneCorrect
  OBVIOUS
<1>1. eye.frame = FALSE /\ eye.paused = FALSE /\ eye.initial = "timer" /\ eye.entry = "none" /\ eye.gaze = FALSE
      /\ eye.back = FALSE /\ eye.phase = "overview" /\ eye.entryTimer = FALSE /\ eye.strategy = "exploration"
  BY DEF SceneInit
<1>2. EyeTyped(eye)
  <2>1. DOMAIN eye = EyeFields
    BY DEF SceneInit, EyeFields
  <2>2. /\ eye.interactive \in BOOLEAN /\ eye.hidden \in BOOLEAN /\ eye.paused \in BOOLEAN /\ eye.ready \in BOOLEAN
        /\ eye.strategy \in Plans /\ eye.fresh \in BOOLEAN /\ eye.restoring \in BOOLEAN /\ eye.flight \in Sights
        /\ eye.near \in Int /\ eye.own \in Owns /\ eye.turn \in Turns /\ eye.depth \in Depths /\ eye.aim \in Depths
    BY EyeWords, EyeNumbers, CameraPlaces DEF SceneInit
  <2>3. /\ eye.speed \in Speeds /\ eye.target \in Int /\ eye.phase \in Phases /\ eye.entry \in Entries
        /\ eye.entryTo \in Int /\ eye.entryTimer \in BOOLEAN /\ eye.back \in BOOLEAN /\ eye.gaze \in BOOLEAN
        /\ eye.gazeTimer \in BOOLEAN
    BY EyeWords, EyeNumbers, CameraPlaces DEF SceneInit
  <2>4. /\ eye.focused \in BOOLEAN /\ eye.initial \in Initials /\ eye.frame \in BOOLEAN /\ eye.held \in BOOLEAN
        /\ eye.cam \in Cameras /\ eye.overview \in BOOLEAN /\ eye.requested \in Sights /\ eye.latched \in Sights
        /\ eye.visual \in Sights /\ eye.detail \in BOOLEAN
    BY EyeWords, EyeNumbers, CameraPlaces DEF SceneInit
  <2> QED
    BY <2>1, <2>2, <2>3, <2>4 DEF EyeTyped
<1>3. Staged
  <2>1. PICK t \in SceneTrips : stage = [trip |-> t, left |-> t.left, kept |-> [is |-> FALSE], restoring |-> "no",
                                         restored |-> FALSE, follow |-> TRUE]
    BY DEF SceneInit
  <2>2. t.left \in Budget(t)
    BY SceneAssumption DEF Budget
  <2>3. DOMAIN stage = StageFields
    BY <2>1 DEF StageFields
  <2>4. ViewKept(stage.kept)
    BY <2>1 DEF ViewKept
  <2> QED
    BY <2>1, <2>2, <2>3, <2>4, StageNames DEF Staged
<1> QED
  BY <1>1, <1>2, <1>3, EyeWords DEF SceneCorrect, Sound, Apart

LEMMA TimersKeep ==
  ASSUME SceneCorrect, SceneTimers
  PROVE  SceneCorrect'
<1>1. Sound(eye) /\ Apart(eye) /\ Staged /\ EyeTyped(eye)
  BY DEF SceneCorrect, Sound
<1>2. ASSUME Sound(eye'), eye'.flight = eye.flight, eye'.strategy = eye.strategy, Still
      PROVE  SceneCorrect'
  BY <1>1, <1>2, StillIs DEF SceneCorrect, Apart
<1>3. CASE AnimationFrame
  <2>1. PICK rests, kept \in BOOLEAN : eye' = Frame(eye, rests, kept)
    BY <1>3 DEF AnimationFrame, Change
  <2>2. Sound(eye') /\ eye'.flight = eye.flight /\ eye'.strategy = eye.strategy
    BY <1>1, <2>1, FrameIs
  <2> QED
    BY <1>2, <1>3, <2>2 DEF AnimationFrame
<1>4. CASE TurnSettles
  <2>1. eye' = [eye EXCEPT !.turn = "idle"] /\ Still
    BY <1>4 DEF TurnSettles, Change, StopTurn
  <2>2. Sound(eye') /\ eye'.flight = eye.flight /\ eye'.strategy = eye.strategy
    BY <1>1, <2>1, EyeNames, EyeWords DEF Sound, EyeTyped
  <2> QED
    BY <1>2, <2>1, <2>2
<1>5. CASE EntryTimer
  <2>1. eye' = BeginEntry(eye) /\ eye.entryTimer /\ Still
    BY <1>5 DEF EntryTimer, Change
  <2> QED
    BY <1>1, <1>2, <2>1, BeginEntryIs DEF Course
<1>6. CASE GazeTimer
  <2>1. PICK gaze \in BOOLEAN : gaze = (eye.gaze \/ (~eye.paused /\ eye.flight # NoSource))
    BY <1>1 DEF EyeTyped
  <2>2. eye' = [eye EXCEPT !.gazeTimer = FALSE, !.gaze = gaze]
    BY <1>1, <1>6, <2>1, EyeNames DEF GazeTimer, Change, EyeTyped
  <2>3. gaze => eye.flight # NoSource
    BY <1>1, <2>1 DEF Sound
  <2>4. Sound(eye') /\ eye'.flight = eye.flight /\ eye'.strategy = eye.strategy
    BY <1>1, <2>2, <2>3, EyeNames DEF Sound, EyeTyped
  <2> QED
    BY <1>2, <1>6, <2>4 DEF GazeTimer
<1>7. CASE GateOpens
  <2>1. eye' = [eye EXCEPT !.gate = "open"] /\ Still
    BY <1>7 DEF GateOpens, Change
  <2>2. Sound(eye') /\ eye'.flight = eye.flight /\ eye'.strategy = eye.strategy
    BY <1>1, <2>1, EyeNames, EyeWords DEF Sound, EyeTyped
  <2> QED
    BY <1>2, <2>1, <2>2
<1>8. CASE InitialFocus
  <2>1. PICK a : a = [eye EXCEPT !.initial = "none"]
    OBVIOUS
  <2>2. Sound(a) /\ Course(a, eye)
    BY <1>1, <2>1, EyeNames, EyeWords DEF Sound, EyeTyped, Course
  <2>3. PICK b : b = [eye EXCEPT !.initial = "frame"]
    OBVIOUS
  <2>4. ~eye.paused => Sound(b) /\ Course(b, eye)
    BY <1>1, <2>3, EyeNames, EyeWords DEF Sound, EyeTyped, Course
  <2>5. PICK done : done = [eye EXCEPT !.initial = "none", !.focused = TRUE]
    OBVIOUS
  <2>6. Sound(done) /\ Course(done, eye)
    BY <1>1, <2>5, EyeNames, EyeWords DEF Sound, EyeTyped, Course
  <2>7. \/ eye' = a
        \/ ~eye.paused /\ eye' = b
        \/ eye' = FrameOverview(done)
        \/ ~eye.paused /\ eye.flight # NoSource /\ eye' = FocusSource(done, eye.flight)
    BY <1>8, <2>1, <2>3, <2>5 DEF InitialFocus, Change
  <2>8. PICK s \in Sights : s = eye.flight
    BY <1>1 DEF EyeTyped
  <2>9. eye' = FrameOverview(done) => Sound(eye') /\ Course(eye', eye)
    BY <2>6, FrameOverviewIs DEF Course
  <2>10. ~eye.paused /\ eye.flight # NoSource /\ eye' = FocusSource(done, eye.flight) => Sound(eye') /\ Course(eye', eye)
    BY <2>6, <2>8, FocusSourceIs DEF Course
  <2>11. Sound(eye') /\ Course(eye', eye)
    BY <2>2, <2>4, <2>7, <2>9, <2>10
  <2> QED
    BY <1>2, <1>8, <2>11 DEF InitialFocus, Course
<1>9. CASE CoolsDown
  <2>1. eye' = eye /\ stage' = [stage EXCEPT !.follow = TRUE]
    BY <1>9 DEF CoolsDown
  <2>2. Staged'
    BY <1>1, <2>1, StageNames DEF Staged
  <2> QED
    BY <1>1, <2>1, <2>2 DEF SceneCorrect
<1> QED
  BY <1>3, <1>4, <1>5, <1>6, <1>7, <1>8, <1>9, SMTT(20) DEF SceneTimers

\* A commit of what the engine has now, its visibility apart.
LEMMA SeenIs ==
  ASSUME NEW e, Sound(e), Apart(e), NEW on \in BOOLEAN, NEW q, q = Commit(e, [Now(e) EXCEPT !.interactive = on])
  PROVE  Sound(q) /\ Apart(q)
<1>1. PICK n : n = [Now(e) EXCEPT !.interactive = on]
  OBVIOUS
<1>2. Fits(e, n) /\ n.strategy = e.strategy /\ n.flight = e.flight
  BY <1>1, NowIs DEF Fits, News, Sound, Now
<1>3. q = Commit(e, n)
  BY <1>1
<1>4. Sound(q) /\ q.strategy = n.strategy /\ q.flight = IF n.interactive THEN n.flight ELSE e.flight
  BY <1>2, <1>3, CommitIs
<1> QED
  BY <1>2, <1>4 DEF Apart

LEMMA ReaderKeeps ==
  ASSUME SceneCorrect, SceneReader
  PROVE  SceneCorrect'
<1>1. Sound(eye) /\ Apart(eye) /\ Staged /\ EyeTyped(eye)
  BY DEF SceneCorrect, Sound
<1>2. ASSUME NEW act, Acting(act), Sound(eye'), Apart(eye'), Spend
      PROVE  SceneCorrect'
  BY <1>1, <1>2, SpendIs DEF SceneCorrect, Acting
<1>3. CASE Back
  BY <1>1, <1>2, <1>3, GoBackIs DEF Back, Change
<1>4. CASE Wheel
  <2>1. PICK way \in {-1, 0, 1} :
           eye' = LET own == DropEntry([eye EXCEPT !.held = FALSE])
                  IN IF way = -1 /\ eye.depth = 0 THEN WheelOut(own) ELSE StartLoop(WheelTravel(own, way))
    BY <1>4 DEF Wheel, Change
  <2>2. PICK own : own = DropEntry([eye EXCEPT !.held = FALSE])
    OBVIOUS
  <2>3. Sound(own) /\ Course(own, eye) /\ own.depth = eye.depth
    BY <1>1, <2>2, EyeNames, EyeWords DEF Sound, EyeTyped, Course, DropEntry
  <2>4. Apart(own)
    BY <1>1, <2>3 DEF Apart, Course
  <2>5. PICK way1 : way1 = WheelTravel(own, way)
    OBVIOUS
  <2>6. Sound(way1) /\ Course(way1, own)
    BY <2>3, <2>5, WheelTravelIs
  <2>7. (eye' = WheelOut(own) /\ own.depth = 0) \/ eye' = StartLoop(way1)
    BY <2>1, <2>2, <2>3, <2>5
  <2>8. Sound(eye') /\ Apart(eye')
    BY <2>3, <2>4, <2>6, <2>7, WheelOutIs, StartLoopIs DEF Apart, Course
  <2> QED
    BY <1>2, <1>4, <2>8 DEF Wheel
<1>5. CASE Grab
  <2>1. PICK free : free = Brake(DropEntry(eye))
    OBVIOUS
  <2>2. Sound(free) /\ Course(free, eye) /\ free.depth = eye.depth
    BY <1>1, <2>1, EyeNames, EyeWords, EyeNumbers DEF Sound, EyeTyped, Course, Brake, DropEntry
  <2>3. eye' = IF eye.depth = 0 THEN MarkOrigin(free) ELSE MarkExploring(free)
    BY <1>5, <2>1 DEF Grab, Change
  <2>4. Sound(eye') /\ Course(eye', free)
    BY <2>2, <2>3, MarkOriginIs, MarkExploringIs
  <2> QED
    BY <1>1, <1>2, <1>5, <2>2, <2>4 DEF Grab, Apart, Course
<1>6. CASE Orbit
  <2>1. PICK spot \in Cameras :
           eye' = VisualLayout([StartLoop(IF eye.depth > 0 THEN MarkExploring(eye) ELSE eye) EXCEPT !.cam = spot])
    BY <1>6 DEF Orbit, Change, Cameras
  <2>2. PICK a : a = IF eye.depth > 0 THEN MarkExploring(eye) ELSE eye
    OBVIOUS
  <2>3. Sound(a) /\ Course(a, eye)
    BY <1>1, <2>2, MarkExploringIs DEF Course
  <2>4. PICK b : b = StartLoop(a)
    OBVIOUS
  <2>5. Sound(b) /\ Course(b, a)
    BY <2>3, <2>4, StartLoopIs
  <2>6. PICK c : c = [b EXCEPT !.cam = spot]
    OBVIOUS
  <2>7. Sound(c) /\ Course(c, b)
    BY <2>5, <2>6, EyeNames DEF Sound, EyeTyped, Course
  <2>8. eye' = VisualLayout(c)
    BY <2>1, <2>2, <2>4, <2>6
  <2>9. Sound(eye') /\ Course(eye', c)
    BY <2>7, <2>8, VisualLayoutIs
  <2> QED
    BY <1>1, <1>2, <1>6, <2>3, <2>5, <2>7, <2>9 DEF Orbit, Apart, Course
<1>7. CASE Lock
  <2>1. eye' = [eye EXCEPT !.held = TRUE]
    BY <1>7 DEF Lock, Change
  <2>2. Sound(eye') /\ Course(eye', eye)
    BY <1>1, <2>1, EyeNames DEF Sound, EyeTyped, Course
  <2> QED
    BY <1>1, <1>2, <1>7, <2>2 DEF Lock, Apart, Course
<1>8. CASE Hide
  <2>1. PICK a : a = [eye EXCEPT !.hidden = TRUE]
    OBVIOUS
  <2>2. Sound(a) /\ Course(a, eye)
    BY <1>1, <2>1, EyeNames DEF Sound, EyeTyped, Course
  <2>3. eye' = Pause(a)
    BY <1>8, <2>1 DEF Hide, Change
  <2>4. Sound(eye') /\ eye'.flight = a.flight /\ eye'.strategy = a.strategy
    BY <2>2, <2>3, PausingIs
  <2> QED
    BY <1>1, <1>2, <1>8, <2>2, <2>4 DEF Hide, Apart, Course
<1>9. CASE Show
  <2>1. PICK a : a = [eye EXCEPT !.hidden = FALSE]
    OBVIOUS
  <2>2. Sound(a) /\ Course(a, eye)
    BY <1>1, <2>1, EyeNames DEF Sound, EyeTyped, Course
  <2>3. eye' = Resume(a)
    BY <1>9, <2>1 DEF Show, Change
  <2>4. Sound(eye') /\ eye'.flight = a.flight /\ eye'.strategy = a.strategy
    BY <2>2, <2>3, ResumeIs
  <2>5. Staged'
    BY <1>1, <1>9, StillIs DEF Show
  <2> QED
    BY <1>1, <2>2, <2>4, <2>5 DEF SceneCorrect, Apart, Course
<1>10. CASE Leave
  <2>1. PICK on \in BOOLEAN : on = FALSE
    OBVIOUS
  <2>2. PICK a : a = Commit(eye, [Now(eye) EXCEPT !.interactive = on])
    OBVIOUS
  <2>3. Sound(a) /\ Apart(a)
    BY <1>1, <2>2, SeenIs
  <2>4. PICK b : b = ResetOverview(a)
    OBVIOUS
  <2>5. Sound(b) /\ Course(b, a)
    BY <2>3, <2>4, ResetOverviewIs
  <2>6. eye' = Pause(b)
    BY <1>10, <2>1, <2>2, <2>4 DEF Leave, Change
  <2>7. Sound(eye') /\ eye'.flight = b.flight /\ eye'.strategy = b.strategy
    BY <2>5, <2>6, PausingIs
  <2>8. Staged'
    BY <1>1, <1>10, SupersedeIs DEF Leave, Acting
  <2> QED
    BY <2>3, <2>5, <2>7, <2>8 DEF SceneCorrect, Apart, Course
<1>11. CASE Return
  <2>1. PICK on \in BOOLEAN : on = TRUE
    OBVIOUS
  <2>2. PICK a : a = Commit(eye, [Now(eye) EXCEPT !.interactive = on])
    OBVIOUS
  <2>3. Sound(a) /\ Apart(a)
    BY <1>1, <2>2, SeenIs
  <2>4. eye' = FrameOverview(a)
    BY <1>11, <2>1, <2>2 DEF Return, Change
  <2>5. Sound(eye') /\ Course(eye', a)
    BY <2>3, <2>4, FrameOverviewIs
  <2>6. Staged'
    BY <1>1, <1>11, StillIs DEF Return
  <2> QED
    BY <2>3, <2>5, <2>6 DEF SceneCorrect, Apart, Course
<1> QED
  BY <1>3, <1>4, <1>5, <1>6, <1>7, <1>8, <1>9, <1>10, <1>11, SMTT(20) DEF SceneReader

LEMMA ControllerKeeps ==
  ASSUME SceneCorrect, SceneController
  PROVE  SceneCorrect'
<1>1. Sound(eye) /\ Apart(eye) /\ Staged /\ EyeTyped(eye)
  BY DEF SceneCorrect, Sound
<1>2. ASSUME NEW act, Acting(act), Sound(eye'), Apart(eye'), Spend \/ Supersede
      PROVE  SceneCorrect'
  BY <1>1, <1>2, SpendIs, SupersedeIs DEF SceneCorrect, Acting
<1>3. ASSUME Sound(eye'), eye'.flight = eye.flight, eye'.strategy = eye.strategy, Still
      PROVE  SceneCorrect'
  BY <1>1, <1>3, StillIs DEF SceneCorrect, Apart
<1>4. CASE Poll
  <2>1. PICK a : a = [eye EXCEPT !.held = FALSE]
    OBVIOUS
  <2>2. Sound(a) /\ Course(a, eye)
    BY <1>1, <2>1, EyeNames DEF Sound, EyeTyped, Course
  <2>3. eye' = FrameOverview(a)
    BY <1>4, <2>1 DEF Poll, Change
  <2>4. Sound(eye') /\ Course(eye', a)
    BY <2>2, <2>3, FrameOverviewIs
  <2> QED
    BY <1>1, <1>2, <1>4, <2>2, <2>4 DEF Poll, Apart, Course
<1>5. CASE EnterSource
  <2>1. PICK s \in SceneSources \ {eye.flight} :
           eye' = Commit(eye, [Now(eye) EXCEPT !.flight = s, !.near = 1, !.window = TRUE, !.nodes = TRUE])
    BY <1>5 DEF EnterSource, Change
  <2>2. PICK n : n = [Now(eye) EXCEPT !.flight = s, !.near = 1, !.window = TRUE, !.nodes = TRUE]
    OBVIOUS
  <2>3. s \in Sights
    BY DEF Sights
  <2>4. Fits(eye, n) /\ n.strategy = eye.strategy
    BY <1>1, <2>2, <2>3, NowIs DEF Fits, News, Now
  <2>5. eye' = Commit(eye, n)
    BY <2>1, <2>2
  <2>6. Sound(eye') /\ eye'.strategy = n.strategy
    BY <1>1, <2>4, <2>5, CommitIs
  <2>7. eye'.strategy = "exploration"
    BY <1>5, <2>4, <2>6 DEF EnterSource
  <2> QED
    BY <1>2, <1>5, <2>6, <2>7 DEF EnterSource, Apart
<1>6. CASE LeaveSource
  <2>1. Sound(eye') /\ eye'.strategy = "exploration"
    BY <1>1, <1>6, GoHomeIs DEF LeaveSource, Change
  <2> QED
    BY <1>2, <1>6, <2>1 DEF LeaveSource, Apart
<1>7. CASE MoreEvidence
  <2>1. PICK hit \in Sights, grown \in BOOLEAN : eye' = Commit(eye, [Now(eye) EXCEPT !.hit = hit, !.nodes = grown])
    BY <1>7 DEF MoreEvidence, Change, Sights
  <2>2. PICK n : n = [Now(eye) EXCEPT !.hit = hit, !.nodes = grown]
    OBVIOUS
  <2>3. Fits(eye, n) /\ n.strategy = eye.strategy /\ n.flight = eye.flight
    BY <1>1, <2>2, NowIs DEF Fits, News, Now
  <2>4. eye' = Commit(eye, n)
    BY <2>1, <2>2
  <2>5. Sound(eye') /\ eye'.strategy = n.strategy /\ eye'.flight = IF n.interactive THEN n.flight ELSE eye.flight
    BY <1>1, <2>3, <2>4, CommitIs
  <2>6. Apart(eye')
    BY <1>1, <2>3, <2>5 DEF Apart
  <2> QED
    BY <1>2, <1>7, <2>5, <2>6 DEF MoreEvidence
<1>8. CASE Synchronize
  <2>1. PICK p \in 1..DeepestPlace \ {eye.near} :
           eye' = Commit(eye, [Now(eye) EXCEPT !.near = p, !.window = TRUE, !.nodes = TRUE])
    BY <1>8 DEF Synchronize, Change
  <2>2. PICK n : n = [Now(eye) EXCEPT !.near = p, !.window = TRUE, !.nodes = TRUE]
    OBVIOUS
  <2>3. p \in Int
    BY SceneAssumption
  <2>4. Fits(eye, n) /\ n.strategy = eye.strategy /\ n.flight = eye.flight
    BY <1>1, <2>2, <2>3, NowIs DEF Fits, News, Now
  <2>5. eye' = Commit(eye, n)
    BY <2>1, <2>2
  <2>6. Sound(eye') /\ eye'.strategy = n.strategy /\ eye'.flight = IF n.interactive THEN n.flight ELSE eye.flight
    BY <1>1, <2>4, <2>5, CommitIs
  <2>7. Apart(eye')
    BY <1>1, <2>4, <2>6 DEF Apart
  <2> QED
    BY <1>2, <1>8, <2>6, <2>7 DEF Synchronize
<1>9. CASE AskTurn
  <2>1. eye' = MoveTimeline(eye)
    BY <1>9 DEF AskTurn, Change
  <2>2. Sound(eye') /\ Course(eye', eye)
    BY <1>1, <2>1, MoveTimelineIs
  <2> QED
    BY <1>1, <1>2, <1>9, <2>2 DEF AskTurn, Apart, Course
<1>10. CASE TurnAdvances
  <2>1. PICK p \in 1..DeepestPlace \ {eye.near} : eye' = Turned(p)
    BY <1>10 DEF TurnAdvances, Change
  <2>2. PICK n : n = [Now(eye) EXCEPT !.near = p, !.window = TRUE, !.nodes = TRUE, !.cause = "journey"]
    OBVIOUS
  <2>3. p \in Int
    BY SceneAssumption
  <2>4. Fits(eye, n) /\ n.strategy = eye.strategy /\ n.flight = eye.flight
    BY <1>1, <2>2, <2>3, NowIs DEF Fits, News, Now
  <2>5. eye' = Commit(eye, n)
    BY <2>1, <2>2 DEF Turned
  <2>6. Sound(eye') /\ eye'.strategy = n.strategy /\ eye'.flight = IF n.interactive THEN n.flight ELSE eye.flight
    BY <1>1, <2>4, <2>5, CommitIs
  <2> QED
    BY <1>3, <1>10, <2>4, <2>6 DEF TurnAdvances
<1>11. CASE TurnIsDue
  <2>1. PICK own \in Owns : own = IF eye.own = "asked" THEN "due" ELSE eye.own
    BY <1>1, EyeWords DEF EyeTyped
  <2>2. eye' = [eye EXCEPT !.turn = "due", !.own = own]
    BY <1>1, <1>11, <2>1, EyeNames DEF TurnIsDue, Change, EyeTyped
  <2>3. Sound(eye') /\ eye'.flight = eye.flight /\ eye'.strategy = eye.strategy
    BY <1>1, <2>2, EyeNames, EyeWords DEF Sound, EyeTyped
  <2> QED
    BY <1>3, <1>11, <2>3 DEF TurnIsDue
<1>12. CASE TurnIsGivenUp
  <2>1. eye' = [eye EXCEPT !.turn = "idle"]
    BY <1>12 DEF TurnIsGivenUp, Change, StopTurn
  <2>2. Sound(eye') /\ eye'.flight = eye.flight /\ eye'.strategy = eye.strategy
    BY <1>1, <2>1, EyeNames, EyeWords DEF Sound, EyeTyped
  <2> QED
    BY <1>3, <1>12, <2>2 DEF TurnIsGivenUp
<1>13. CASE TurnIsBlocked
  <2>1. PICK turn \in Turns : turn = IF eye.turn = "asked" THEN "idle" ELSE eye.turn
    BY <1>1, EyeWords DEF EyeTyped
  <2>2. PICK own \in Owns : own = IF eye.own = "asked" THEN "no" ELSE eye.own
    BY <1>1, EyeWords DEF EyeTyped
  <2>3. eye' = [eye EXCEPT !.turn = turn, !.own = own]
    BY <1>1, <1>13, <2>1, <2>2, EyeNames DEF TurnIsBlocked, Change, EyeTyped
  <2>4. Sound(eye') /\ Course(eye', eye)
    BY <1>1, <2>3, EyeNames DEF Sound, EyeTyped, Course
  <2>5. PICK follow : stage' = [stage EXCEPT !.follow = follow]
    BY <1>13 DEF TurnIsBlocked
  <2>6. Staged'
    BY <1>1, <2>5, StageNames DEF Staged
  <2> QED
    BY <1>1, <2>4, <2>6 DEF SceneCorrect, Apart, Course
<1>14. CASE Gather
  <2>1. PICK n : n = [Now(eye) EXCEPT !.strategy = "accumulation", !.flight = NoSource, !.epoch = TRUE,
                                      !.window = TRUE, !.nodes = TRUE]
    OBVIOUS
  <2>2. Fits(eye, n) /\ n.strategy = "accumulation" /\ n.flight = NoSource /\ n.interactive = eye.interactive
    BY <1>1, <2>1, NowIs, EyeWords, CameraPlaces DEF Fits, News, Now
  <2>3. eye' = Commit(eye, n) /\ eye.interactive
    BY <1>14, <2>1 DEF Gather, Change
  <2>4. Sound(eye') /\ eye'.flight = IF n.interactive THEN n.flight ELSE eye.flight
    BY <1>1, <2>2, <2>3, CommitIs
  <2>5. Apart(eye')
    BY <2>2, <2>3, <2>4 DEF Apart
  <2>6. PICK left : left = stage.left - 1
    OBVIOUS
  <2>7. left \in Budget(stage.trip)
    BY <1>1, <1>14, <2>6, BudgetIs DEF Gather, Acting, Staged
  <2>8. PICK k : k = [is |-> TRUE, flight |-> eye.flight, near |-> eye.near, view |-> View(eye)]
    OBVIOUS
  <2>9. ViewKept(k)
    BY <1>1, <2>8 DEF ViewKept, View, EyeTyped
  <2>10. stage' = [stage EXCEPT !.left = left, !.restored = FALSE, !.restoring = "no", !.kept = k]
    BY <1>14, <2>6, <2>8 DEF Gather
  <2>11. Staged'
    BY <1>1, <2>7, <2>9, <2>10, StageNames DEF Staged
  <2> QED
    BY <2>4, <2>5, <2>11 DEF SceneCorrect
<1>15. CASE Ungather
  <2>1. PICK a : a = [eye EXCEPT !.restoring = TRUE]
    OBVIOUS
  <2>2. Sound(a) /\ Course(a, eye) /\ a.near = eye.near
    BY <1>1, <2>1, EyeNames DEF Sound, EyeTyped, Course
  <2>3. PICK n : n = [Now(eye) EXCEPT !.strategy = "exploration", !.flight = stage.kept.flight,
                                      !.near = stage.kept.near, !.epoch = TRUE, !.window = TRUE, !.nodes = TRUE]
    OBVIOUS
  <2>4. stage.kept.flight \in Sights /\ stage.kept.near \in Int /\ stage.kept.is
    BY <1>1, <1>15 DEF Ungather, Staged, ViewKept
  <2>5. a.flight = NoSource
    BY <1>1, <1>15, <2>2 DEF Ungather, Apart, Course
  <2>6. Fits(a, n) /\ n.strategy = "exploration"
    BY <1>1, <2>3, <2>4, <2>5, NowIs, EyeWords DEF Fits, News, Now
  <2>7. eye' = Commit(a, n)
    BY <1>15, <2>1, <2>3 DEF Ungather, Change
  <2>8. Sound(eye') /\ eye'.strategy = "exploration"
    BY <2>2, <2>6, <2>7, CommitIs
  <2>9. PICK left : left = stage.left - 1
    OBVIOUS
  <2>10. left \in Budget(stage.trip)
    BY <1>1, <1>15, <2>9, BudgetIs DEF Ungather, Acting, Staged
  <2>11. stage' = [stage EXCEPT !.left = left, !.restoring = "alone"]
    BY <1>15, <2>9 DEF Ungather
  <2>12. Staged'
    BY <1>1, <2>4, <2>10, <2>11, StageNames DEF Staged
  <2> QED
    BY <2>8, <2>12 DEF SceneCorrect, Apart
<1>16. CASE RestoreFrame
  <2>1. PICK view : view = stage.kept.view
    OBVIOUS
  <2>2. view.source \in Sights /\ view.detail \in BOOLEAN /\ view.depth \in Depths /\ view.cam \in Cameras
    BY <1>1, <1>16, <2>1 DEF RestoreFrame, Staged, ViewKept
  <2>3. eye' = RestoreView(eye, view)
    BY <1>16, <2>1 DEF RestoreFrame, Change
  <2>4. Sound(eye') /\ Course(eye', eye)
    BY <1>1, <2>2, <2>3, RestoreViewIs
  <2>5. PICK k : k = [is |-> FALSE]
    OBVIOUS
  <2>6. ViewKept(k)
    BY <2>5 DEF ViewKept
  <2>7. PICK restored : restored = (stage.restoring = "alone")
    OBVIOUS
  <2>8. stage' = [stage EXCEPT !.restoring = "no", !.restored = restored, !.kept = k]
    BY <1>16, <2>5, <2>7 DEF RestoreFrame
  <2>9. Staged'
    BY <1>1, <2>6, <2>8, StageNames DEF Staged
  <2> QED
    BY <1>1, <2>4, <2>9 DEF SceneCorrect, Apart, Course
<1> QED
  BY <1>4, <1>5, <1>6, <1>7, <1>8, <1>9, <1>10, <1>11, <1>12, <1>13, <1>14, <1>15, <1>16, SMTT(30) DEF SceneController

LEMMA SceneStep == SceneCorrect /\ [SceneNext]_sceneVars => SceneCorrect'
<1>1. ASSUME SceneCorrect, UNCHANGED sceneVars PROVE SceneCorrect'
  BY <1>1 DEF SceneCorrect, sceneVars, Staged
<1> QED
  BY <1>1, TimersKeep, ReaderKeeps, ControllerKeeps DEF SceneNext

LEMMA SceneMeans == SceneCorrect => SceneConsistent
<1> SUFFICES ASSUME SceneCorrect PROVE SceneConsistent
  OBVIOUS
<1>1. Sound(eye) /\ EyeTyped(eye) /\ Staged
  BY DEF SceneCorrect, Sound
<1>2. SceneTypeOK
  BY <1>1 DEF SceneTypeOK, EyeTyped, Staged, Budget, Turns, Owns, Depths, Speeds, Phases, Sights
<1> QED
  BY <1>1, <1>2 DEF SceneConsistent, EntryBelongsToFlight, GazeBelongsToFlight, OriginIsAtTheStart, PausedSleeps, Sound

\* An automatic entry, a gaze and the way back belong to the source flown through,
\* and a camera that is paused sleeps, whatever interrupts what
\* (universe-scene-engine.ts, knowledge-universe.tsx).
THEOREM SceneHolds == SceneSpec => []SceneConsistent
<1> QED
  BY FirstStep, SceneStep, SceneMeans, PTL DEF SceneSpec

(***************************************************************************)
(* A restored view.                                                        *)
(***************************************************************************)
\* Nothing is pending that would take the camera.
Calm(e) ==
  /\ e.interactive /\ e.strategy = "exploration" /\ ~e.fresh /\ ~e.back /\ e.entry = "none" /\ ~e.entryTimer
  /\ e.focused /\ e.initial = "none"
\* A flight stands still.
Standing(e) == e.speed = 0 /\ e.target = Nowhere /\ e.aim = e.depth
Resting(e)  == e.phase \in {"origin", "overview"} \/ Standing(e)
\* A page turn under way has its claim on the window it will bring.
Asking(e)  == /\ e.turn = "asked" => e.own = "asked" /\ e.flight # NoSource
              /\ e.turn = "due" => e.own = "due" /\ e.flight # NoSource
AtRest(e)  == Calm(e) /\ Resting(e) /\ Asking(e)
Waiting(e) == Calm(e) /\ e.phase \in {"origin", "overview"} /\ e.turn = "idle"
ViewHeld ==
  /\ stage.restoring = "alone" => Waiting(eye)
  /\ stage.restored => AtRest(eye) /\ stage.restoring = "no"

\* The camera stays, and so does the rest it is at.
Stays(q, e) ==
  /\ q.cam = e.cam /\ q.depth = e.depth
  /\ AtRest(q)
  /\ Waiting(e) => Waiting(q)

LEMMA RestingStep ==
  ASSUME NEW e, Sound(e), AtRest(e), e.phase \notin {"origin", "overview"}, NEW rests, NEW q, q = Step(e, rests)
  PROVE  /\ Sound(q) /\ AtRest(q) /\ Standing(q) /\ q.cam = e.cam /\ q.depth = e.depth
         /\ q.flight = e.flight /\ q.turn = e.turn /\ q.phase = e.phase
<1>1. e.target = Nowhere /\ e.aim = e.depth /\ e.speed = 0 /\ e.aim \in Depths
  BY DEF AtRest, Resting, Standing, Sound, EyeTyped
<1>2. PICK d \in Depths : d = e.aim
  BY <1>1
<1>3. Between(0, DeepestPlace, e.aim + e.speed) = d
  BY <1>1, <1>2, SceneAssumption DEF Between, Depths
<1>4. PICK target : target = Nowhere
  OBVIOUS
<1>5. q = [e EXCEPT !.aim = d, !.depth = d, !.target = target, !.speed = 0]
  BY <1>1, <1>3, <1>4 DEF Step
<1>6. e.phase # "origin"
  OBVIOUS
<1>7. Sound(q) /\ q.flight = e.flight
  BY <1>6, StepIs DEF Course
<1>8. /\ q.cam = e.cam /\ q.depth = e.depth /\ q.turn = e.turn /\ q.phase = e.phase /\ q.own = e.own
      /\ q.speed = 0 /\ q.target = Nowhere /\ q.aim = q.depth
  BY <1>1, <1>2, <1>4, <1>5, EyeNames DEF Sound, EyeTyped
<1>9. Calm(q)
  BY <1>5, EyeNames DEF AtRest, Calm, Sound, EyeTyped
<1> QED
  BY <1>7, <1>8, <1>9 DEF AtRest, Resting, Standing, Asking

LEMMA RestingExplorer ==
  ASSUME NEW e, Sound(e), AtRest(e), Standing(e), NEW q, q = MarkExploring(e)
  PROVE  /\ Sound(q) /\ AtRest(q) /\ Standing(q) /\ q.cam = e.cam /\ q.depth = e.depth
         /\ q.flight = e.flight /\ q.turn = e.turn
<1>1. Sound(q)
  BY MarkExploringIs
<1>2. CASE e.flight = NoSource
  BY <1>1, <1>2 DEF MarkExploring
<1>3. CASE e.flight # NoSource
  <2>1. q = [e EXCEPT !.entry = "none", !.entryTimer = FALSE, !.back = FALSE, !.gate = "off", !.phase = "exploring"]
    BY <1>3 DEF MarkExploring, DropEntry
  <2> QED
    BY <1>1, <2>1, EyeNames DEF Sound, EyeTyped, AtRest, Calm, Resting, Standing, Asking
<1> QED
  BY <1>2, <1>3

LEMMA RestingAsks ==
  ASSUME NEW e, Sound(e), AtRest(e), Standing(e), e.own = "asked", e.flight # NoSource, NEW q, q = [e EXCEPT !.turn = "asked"]
  PROVE  AtRest(q) /\ q.cam = e.cam /\ q.depth = e.depth
BY EyeNames DEF Sound, EyeTyped, AtRest, Calm, Resting, Standing, Asking

LEMMA RestingTimeline ==
  ASSUME NEW e, Sound(e), AtRest(e), Standing(e), e.turn = "idle", NEW own, own = [e EXCEPT !.own = "asked"],
         NEW q, q = MoveTimeline(own)
  PROVE  AtRest(q) /\ q.cam = e.cam /\ q.depth = e.depth
<1>1. Sound(own) /\ own.flight = e.flight
  BY EyeNames, EyeWords DEF Sound, EyeTyped
<1>2. AtRest(own) /\ own.cam = e.cam /\ own.depth = e.depth /\ own.turn = "idle" /\ own.own = "asked"
      /\ Standing(own)
  BY EyeNames DEF Sound, EyeTyped, AtRest, Calm, Resting, Standing, Asking
<1>3. CASE q = own
  BY <1>2, <1>3
<1>4. CASE q # own
  <2>1. Journey(own) /\ q = [MarkExploring(own) EXCEPT !.turn = "asked"]
    BY <1>4 DEF MoveTimeline
  <2>2. own.flight # NoSource
    BY <2>1 DEF Journey
  <2>3. PICK r : r = MarkExploring(own)
    OBVIOUS
  <2>4. /\ Sound(r) /\ AtRest(r) /\ Standing(r) /\ r.cam = own.cam /\ r.depth = own.depth /\ r.flight = own.flight
        /\ r.own = "asked"
    <3>1. /\ Sound(r) /\ AtRest(r) /\ Standing(r) /\ r.cam = own.cam /\ r.depth = own.depth /\ r.flight = own.flight
      BY <1>1, <1>2, <2>3, RestingExplorer
    <3>2. r.own = own.own
      BY <1>1, <2>3, EyeNames DEF MarkExploring, DropEntry, Sound, EyeTyped
    <3> QED
      BY <1>2, <3>1, <3>2
  <2>5. q = [r EXCEPT !.turn = "asked"]
    BY <2>1, <2>3
  <2>6. AtRest(q) /\ q.cam = r.cam /\ q.depth = r.depth
    <3>1. r.flight # NoSource
      BY <1>1, <2>2, <2>4
    <3> QED
      BY <2>4, <2>5, <3>1, RestingAsks
  <2> QED
    BY <1>2, <2>4, <2>6
<1> QED
  BY <1>3, <1>4

LEMMA RestingOrigin ==
  ASSUME NEW e, Sound(e), AtRest(e), Standing(e), e.depth = 0, NEW q, q = MarkOrigin(e)
  PROVE  Sound(q) /\ AtRest(q) /\ Standing(q) /\ q.cam = e.cam /\ q.depth = e.depth
<1>1. Sound(q)
  BY MarkOriginIs
<1>2. q = [e EXCEPT !.entry = "none", !.entryTimer = FALSE, !.phase = "origin", !.mark = "core", !.gate = "armed"]
  BY DEF MarkOrigin, DropEntry
<1> QED
  BY <1>1, <1>2, EyeNames DEF Sound, EyeTyped, AtRest, Calm, Resting, Standing, Asking

LEMMA RestingLayout ==
  ASSUME NEW e, Sound(e), AtRest(e), NEW q, q = VisualLayout(e)
  PROVE  Sound(q) /\ Stays(q, e)
<1>1. /\ Sound(q)
      /\ \A f \in EyeFields \ {"overview", "latched", "requested", "visual", "detail"} : q[f] = e[f]
  BY VisualLayoutIs
<1>2. /\ q.cam = e.cam /\ q.depth = e.depth /\ q.interactive = e.interactive /\ q.strategy = e.strategy
      /\ q.fresh = e.fresh /\ q.back = e.back /\ q.entry = e.entry /\ q.entryTimer = e.entryTimer
      /\ q.focused = e.focused /\ q.initial = e.initial /\ q.phase = e.phase /\ q.speed = e.speed
      /\ q.target = e.target /\ q.aim = e.aim /\ q.turn = e.turn /\ q.own = e.own /\ q.flight = e.flight
  BY <1>1, EyeNames
<1> QED
  BY <1>1, <1>2 DEF Stays, Waiting, AtRest, Calm, Resting, Standing, Asking

LEMMA RestingFlight ==
  ASSUME NEW e, Sound(e), AtRest(e), NEW rests, NEW q, q = FlightFrame(e, rests)
  PROVE  Sound(q) /\ Stays(q, e)
<1>1. Sound(q)
  BY FlightFrameIs
<1>2. CASE e.phase \in {"origin", "overview"} \/ ~Journey(e)
  BY <1>1, <1>2 DEF FlightFrame, Stays
<1>3. CASE ~(e.phase \in {"origin", "overview"} \/ ~Journey(e))
  <2>0. ~Waiting(e)
    BY <1>3 DEF Waiting
  <2>1. PICK to : to = Step(e, rests)
    OBVIOUS
  <2>2. /\ Sound(to) /\ AtRest(to) /\ Standing(to) /\ to.cam = e.cam /\ to.depth = e.depth
        /\ to.flight = e.flight /\ to.turn = e.turn
    BY <1>3, <2>1, RestingStep
  <2>3. PICK ready : ready = [to EXCEPT !.mark = "ready"]
    OBVIOUS
  <2>4. /\ Sound(ready) /\ AtRest(ready) /\ Standing(ready) /\ ready.cam = e.cam /\ ready.depth = e.depth
        /\ ready.flight = e.flight /\ ready.turn = e.turn
    BY <2>2, <2>3, EyeNames DEF Sound, EyeTyped, AtRest, Calm, Resting, Standing, Asking
  <2>5. PICK in : in = IF ~Moving(to) /\ to.mark = "emitting" THEN MarkExploring(ready) ELSE to
    OBVIOUS
  <2>6. /\ Sound(in) /\ AtRest(in) /\ Standing(in) /\ in.cam = e.cam /\ in.depth = e.depth
        /\ in.flight = e.flight /\ in.turn = e.turn
    <3>1. CASE in = to
      BY <2>2, <3>1
    <3>2. CASE in = MarkExploring(ready)
      BY <2>4, <3>2, RestingExplorer
    <3> QED
      BY <2>5, <3>1, <3>2
  <2>7. PICK home : home = IF ~Moving(in) /\ in.depth = 0 THEN MarkOrigin(in) ELSE in
    OBVIOUS
  <2>8. /\ Sound(home) /\ AtRest(home) /\ Standing(home) /\ home.cam = e.cam /\ home.depth = e.depth
    <3>1. CASE home = in
      BY <2>6, <3>1
    <3>2. CASE home = MarkOrigin(in) /\ in.depth = 0
      BY <2>6, <3>2, RestingOrigin
    <3> QED
      BY <2>7, <3>1, <3>2
  <2>9. PICK own : own = [home EXCEPT !.own = "asked"]
    OBVIOUS
  <2>10. q = home \/ (home.turn = "idle" /\ q = MoveTimeline(own))
    BY <1>3, <2>1, <2>3, <2>5, <2>7, <2>9 DEF FlightFrame, Follows
  <2>11. AtRest(q) /\ q.cam = home.cam /\ q.depth = home.depth
    BY <2>8, <2>9, <2>10, RestingTimeline
  <2> QED
    BY <1>1, <2>0, <2>8, <2>11 DEF Stays
<1> QED
  BY <1>2, <1>3

LEMMA RestingFrame ==
  ASSUME NEW e, Sound(e), AtRest(e), NEW rests \in BOOLEAN, NEW kept \in BOOLEAN, NEW q, q = Frame(e, rests, kept)
  PROVE  Stays(q, e)
<1>1. CASE e.paused \/ e.hidden
  BY <1>1, EyeNames DEF Sound, EyeTyped, Frame, Stays, Waiting, AtRest, Calm, Resting, Standing, Asking
<1>2. CASE ~(e.paused \/ e.hidden)
  <2>1. ~e.back
    BY DEF AtRest, Calm
  <2>2. PICK moved : moved = FlightFrame(e, rests)
    OBVIOUS
  <2>3. Sound(moved) /\ Stays(moved, e)
    BY <2>2, RestingFlight
  <2>4. PICK v : v = VisualLayout(moved)
    OBVIOUS
  <2>5. Sound(v) /\ Stays(v, moved)
    BY <2>3, <2>4, RestingLayout DEF Stays
  <2>6. PICK again : q = [v EXCEPT !.frame = again]
    BY <1>2, <2>1, <2>2, <2>4 DEF Frame
  <2>7. Stays(q, v)
    BY <2>5, <2>6, EyeNames DEF Sound, EyeTyped, Stays, Waiting, AtRest, Calm, Resting, Standing, Asking
  <2> QED
    BY <2>3, <2>5, <2>7 DEF Stays
<1> QED
  BY <1>1, <1>2

LEMMA RestingResume ==
  ASSUME NEW e, Sound(e), AtRest(e), NEW q, q = Resume(e)
  PROVE  Stays(q, e)
<1>1. CASE ~e.interactive \/ ~e.ready \/ e.hidden
  BY <1>1 DEF Resume, Stays
<1>2. CASE ~(~e.interactive \/ ~e.ready \/ e.hidden)
  <2>1. PICK r : r = [e EXCEPT !.paused = FALSE]
    OBVIOUS
  <2>2. EyeTyped(r) /\ Stays(r, e) /\ r.entry = "none" /\ r.focused
    BY <2>1, EyeNames DEF Sound, EyeTyped, Stays, Waiting, AtRest, Calm, Resting, Standing, Asking
  <2>3. ResumeEntry(r) = r /\ ScheduleInitialFocus(r) = r
    BY <2>2 DEF ResumeEntry, ScheduleInitialFocus
  <2>4. q = StartLoop(r)
    BY <1>2, <2>1, <2>3 DEF Resume
  <2>5. Stays(q, r)
    BY <2>2, <2>4, EyeNames DEF StartLoop, EyeTyped, Stays, Waiting, AtRest, Calm, Resting, Standing, Asking
  <2> QED
    BY <2>2, <2>5 DEF Stays
<1> QED
  BY <1>1, <1>2

LEMMA RestingPlace ==
  ASSUME NEW e, Sound(e), AtRest(e), NEW old, NEW n, ~StableRestore(old), n.flight = old.flight, n.hit = NoSource,
         NEW q, q = PlaceCamera(e, old, n)
  PROVE  Sound(q) /\ AtRest(q) /\ q.cam = e.cam /\ q.depth = e.depth
<1>1. PICK ready : ready = [e EXCEPT !.ready = TRUE, !.initial = "none", !.fresh = FALSE, !.restoring = FALSE]
  OBVIOUS
<1>2. Sound(ready)
  BY <1>1, EyeNames, EyeWords DEF Sound, EyeTyped
<1>3. AtRest(ready) /\ ready.cam = e.cam /\ ready.depth = e.depth /\ ready.focused
  BY <1>1, EyeNames DEF Sound, EyeTyped, AtRest, Calm, Resting, Standing, Asking
<1>4. e.strategy # "accumulation"
  BY DEF AtRest, Calm
<1>5. q = ScheduleInitialFocus(ready)
  BY <1>1, <1>4 DEF PlaceCamera
<1>6. q = ready
  BY <1>3, <1>5 DEF ScheduleInitialFocus
<1> QED
  BY <1>2, <1>3, <1>6

LEMMA RestingTurned ==
  ASSUME NEW e, Sound(e), AtRest(e), e.turn \in {"asked", "due"}, NEW p \in Int,
         NEW q, q = Commit(e, [Now(e) EXCEPT !.near = p, !.window = TRUE, !.nodes = TRUE, !.cause = "journey"])
  PROVE  AtRest(q) /\ q.cam = e.cam /\ q.depth = e.depth
<1>1. PICK n : n = [Now(e) EXCEPT !.near = p, !.window = TRUE, !.nodes = TRUE, !.cause = "journey"]
  OBVIOUS
<1>2. /\ e.interactive = TRUE /\ e.strategy = "exploration" /\ e.flight # NoSource /\ e.own # "no" /\ Journey(e)
      /\ ~StableRestore(e)
  BY DEF AtRest, Calm, Asking, Journey, StableRestore, Sound, EyeTyped
<1>3. /\ Fits(e, n) /\ n.strategy = "exploration" /\ n.interactive = TRUE /\ n.flight = e.flight /\ n.near = p
      /\ n.epoch = FALSE /\ n.window = TRUE /\ n.cause = "journey" /\ n.hit = NoSource
  BY <1>1, <1>2, NowIs DEF Fits, News, Now, Sound
<1>4. PICK opted : opted = [e EXCEPT !.interactive = TRUE]
  OBVIOUS
<1>5. opted = SetOptions(e, n)
  BY <1>2, <1>3, <1>4 DEF SetOptions
<1>6. Sound(opted) /\ AtRest(opted) /\ opted.cam = e.cam /\ opted.depth = e.depth /\ opted.flight = e.flight
      /\ opted.own # "no"
  BY <1>2, <1>4, EyeNames DEF Sound, EyeTyped, AtRest, Calm, Resting, Standing, Asking
<1>7. Journey(opted) /\ ~StableRestore(opted)
  BY <1>2, <1>6 DEF Journey, StableRestore, AtRest, Calm
<1>8. PICK a : a = [opted EXCEPT !.turn = "entering"]
  OBVIOUS
<1>9. Sound(a) /\ AtRest(a) /\ a.cam = e.cam /\ a.depth = e.depth /\ a.flight = e.flight /\ a.own # "no" /\ a.turn = "entering"
  BY <1>6, <1>8, EyeNames, EyeWords DEF Sound, EyeTyped, AtRest, Calm, Resting, Standing, Asking
<1>10. PICK b : b = AdoptFlight(a, n)
  OBVIOUS
<1>11. Sound(b)
  BY <1>3, <1>9, <1>10, AdoptFlightIs DEF Fits
<1>12. b = [a EXCEPT !.flight = n.flight, !.near = n.near, !.own = "no"]
  BY <1>2, <1>3, <1>9, <1>10 DEF AdoptFlight
<1>13. AtRest(b) /\ b.cam = e.cam /\ b.depth = e.depth
  BY <1>9, <1>12, EyeNames DEF Sound, EyeTyped, AtRest, Calm, Resting, Standing, Asking
<1>14. AdoptEpoch(b, n) = b
  BY <1>3 DEF AdoptEpoch
<1>15. PICK c : c = VisualLayout(b)
  OBVIOUS
<1>16. Sound(c) /\ AtRest(c) /\ c.cam = e.cam /\ c.depth = e.depth
  BY <1>11, <1>13, <1>15, RestingLayout DEF Stays
<1>17. PICK d : d = PlaceCamera(c, opted, n)
  OBVIOUS
<1>18. Sound(d) /\ AtRest(d) /\ d.cam = e.cam /\ d.depth = e.depth
  BY <1>3, <1>6, <1>7, <1>16, <1>17, RestingPlace
<1>19. d = SetData(opted, n)
  BY <1>3, <1>7, <1>8, <1>10, <1>14, <1>15, <1>17 DEF SetData
<1>20. q = Resume(d)
  BY <1>1, <1>3, <1>5, <1>19 DEF Commit
<1> QED
  BY <1>18, <1>20, RestingResume DEF Stays

\* The exploration that comes back takes no source and asks for no page.
BackInPlace(e) ==
  /\ e.interactive /\ e.strategy = "exploration" /\ ~e.back /\ e.entry = "none" /\ ~e.entryTimer
  /\ e.turn = "idle" /\ e.phase \in {"origin", "overview"}

LEMMA UngatherOptions ==
  ASSUME NEW e, Sound(e), e.strategy = "accumulation", e.flight = NoSource, e.interactive, e.restoring,
         NEW n, n.strategy = "exploration", n.interactive, NEW q, q = SetOptions(e, n)
  PROVE  /\ q.interactive /\ q.strategy = "exploration" /\ ~q.back /\ q.entry = "none" /\ ~q.entryTimer
         /\ q.fresh /\ q.restoring /\ q.flight = NoSource /\ DOMAIN q = EyeFields
<1>1. PICK r : r = DropEntry(FreeGaze(e))
  OBVIOUS
<1>2. /\ r.flight = NoSource /\ r.entry = "none" /\ ~r.entryTimer /\ r.restoring /\ r.interactive
      /\ DOMAIN r = EyeFields
  BY <1>1, EyeNames DEF DropEntry, FreeGaze, Sound, EyeTyped
<1>3. PICK s : s = [r EXCEPT !.strategy = n.strategy, !.fresh = TRUE, !.focused = FALSE, !.initial = "none",
                             !.back = FALSE]
  OBVIOUS
<1>4. /\ s.flight = NoSource /\ s.entry = "none" /\ ~s.entryTimer /\ s.restoring /\ s.strategy = "exploration"
      /\ s.fresh /\ ~s.back /\ DOMAIN s = EyeFields
  BY <1>2, <1>3, EyeNames
<1>5. q = [s EXCEPT !.interactive = TRUE]
  BY <1>1, <1>3 DEF SetOptions, Journey
<1> QED
  BY <1>4, <1>5, EyeNames

LEMMA UngatherFlight ==
  ASSUME NEW e, DOMAIN e = EyeFields, e.strategy = "exploration", e.interactive, ~e.back, e.entry = "none", ~e.entryTimer,
         e.flight = NoSource, NEW n, n.epoch, n.window, NEW q, q = AdoptEpoch(AdoptFlight(e, n), n)
  PROVE  BackInPlace(q) /\ DOMAIN q = EyeFields
<1>1. PICK b : b = AdoptFlight(e, n)
  OBVIOUS
<1>2. /\ DOMAIN b = EyeFields /\ b.strategy = "exploration" /\ b.interactive /\ ~b.back /\ b.entry = "none"
      /\ ~b.entryTimer
  <2>1. PICK cut : cut = [DropEntry(FreeGaze(e)) EXCEPT !.back = FALSE]
    OBVIOUS
  <2>2. /\ DOMAIN cut = EyeFields /\ cut.strategy = "exploration" /\ cut.interactive /\ ~cut.back
        /\ cut.entry = "none" /\ ~cut.entryTimer
    BY <2>1, EyeNames DEF DropEntry, FreeGaze
  <2>3. PICK with : with = [cut EXCEPT !.flight = n.flight, !.near = n.near]
    OBVIOUS
  <2>4. /\ DOMAIN with = EyeFields /\ with.strategy = "exploration" /\ with.interactive /\ ~with.back
        /\ with.entry = "none" /\ ~with.entryTimer
    BY <2>2, <2>3, EyeNames
  <2>5. CASE n.flight = NoSource
    <3>1. b = [with EXCEPT !.phase = "overview", !.gate = "off", !.own = IF n.window /\ ~n.epoch THEN "no" ELSE @]
      BY <1>1, <2>1, <2>3, <2>5 DEF AdoptFlight
    <3>2. PICK own : b = [with EXCEPT !.phase = "overview", !.gate = "off", !.own = own]
      BY <3>1
    <3> QED
      BY <2>4, <3>2, EyeNames
  <2>6. CASE n.flight # NoSource
    <3>1. b = MarkOrigin(StandAt([with EXCEPT !.own = "no"], 0))
      BY <1>1, <2>1, <2>3, <2>6 DEF AdoptFlight
    <3>2. PICK r : r = [with EXCEPT !.own = "no", !.speed = 0, !.target = Nowhere, !.depth = 0, !.aim = 0]
      OBVIOUS
    <3>3. r = StandAt([with EXCEPT !.own = "no"], 0)
      BY <3>2 DEF StandAt, Brake
    <3>4. b = [r EXCEPT !.entry = "none", !.entryTimer = FALSE, !.phase = "origin", !.mark = "core", !.gate = "armed"]
      BY <3>1, <3>3 DEF MarkOrigin, DropEntry
    <3> QED
      BY <2>4, <3>2, <3>4, EyeNames
  <2> QED
    BY <2>5, <2>6
<1>3. PICK clean : clean = [ClearView(StopTurn(Brake(b))) EXCEPT !.held = FALSE, !.overview = TRUE]
  OBVIOUS
<1>4. /\ DOMAIN clean = EyeFields /\ clean.strategy = "exploration" /\ clean.interactive /\ ~clean.back
      /\ clean.entry = "none" /\ ~clean.entryTimer /\ clean.turn = "idle"
  BY <1>2, <1>3, EyeNames DEF ClearView, StopTurn, Brake
<1>5. q = MarkOrigin(clean) \/ q = [clean EXCEPT !.phase = "overview", !.gate = "off"]
  BY <1>1, <1>3 DEF AdoptEpoch
<1>6. CASE q = MarkOrigin(clean)
  BY <1>4, <1>6, EyeNames DEF MarkOrigin, DropEntry, BackInPlace
<1>7. CASE q = [clean EXCEPT !.phase = "overview", !.gate = "off"]
  BY <1>4, <1>7, EyeNames DEF BackInPlace
<1> QED
  BY <1>5, <1>6, <1>7

LEMMA UngatherWaits ==
  ASSUME NEW e, Sound(e), e.strategy = "accumulation", e.flight = NoSource, e.interactive, e.restoring,
         NEW n, Fits(e, n), n.strategy = "exploration", n.interactive, n.epoch, n.window, NEW q, q = Commit(e, n)
  PROVE  Waiting(q)
<1>1. PICK opted : opted = SetOptions(e, n)
  OBVIOUS
<1>2. /\ opted.interactive /\ opted.strategy = "exploration" /\ ~opted.back /\ opted.entry = "none" /\ ~opted.entryTimer
      /\ opted.fresh /\ opted.restoring /\ opted.flight = NoSource /\ DOMAIN opted = EyeFields
  BY <1>1, UngatherOptions
<1>3. Sound(opted) /\ News(n)
  BY <1>1, SetOptionsIs DEF Fits
<1>4. PICK turn : turn = IF n.window /\ ~n.epoch /\ ~StableRestore(opted) /\ Journey(opted) THEN "entering"
                         ELSE IF \/ ~n.epoch /\ n.cause = "synchronization" /\ opted.turn = "entering"
                                 \/ n.window /\ ~n.epoch /\ n.cause # "journey" /\ opted.turn \in {"asked", "due"}
                              THEN "idle" ELSE opted.turn
  OBVIOUS
<1>5. turn = opted.turn
  BY <1>4
<1>6. PICK a : a = [opted EXCEPT !.turn = turn]
  OBVIOUS
<1>7. /\ Sound(a) /\ a.flight = NoSource
      /\ a.interactive /\ a.strategy = "exploration" /\ ~a.back /\ a.entry = "none" /\ ~a.entryTimer
  BY <1>2, <1>3, <1>5, <1>6, EyeNames DEF Sound, EyeTyped
<1>8. PICK c : c = AdoptEpoch(AdoptFlight(a, n), n)
  OBVIOUS
<1>9. BackInPlace(c) /\ DOMAIN c = EyeFields
  <2>1. DOMAIN a = EyeFields
    BY <1>7 DEF Sound, EyeTyped
  <2> QED
    BY <1>7, <1>8, <2>1, UngatherFlight
<1>10. Sound(c)
  <2>1. PICK b : b = AdoptFlight(a, n)
    OBVIOUS
  <2>2. /\ Sound(b) /\ b.flight = n.flight
        /\ n.flight = NoSource => b.entry = "none"
        /\ n.flight # NoSource /\ n.flight # a.flight => b.depth = 0
    BY <1>3, <1>7, <2>1, AdoptFlightIs
  <2>3. c = AdoptEpoch(b, n)
    BY <1>8, <2>1
  <2>4. n.epoch /\ n.flight # NoSource => b.depth = 0
    BY <1>7, <2>2
  <2> QED
    BY <1>3, <2>2, <2>3, <2>4, AdoptEpochIs
<1>11. PICK d : d = VisualLayout(c)
  OBVIOUS
<1>12. BackInPlace(d) /\ DOMAIN d = EyeFields
  <2>1. /\ DOMAIN d = DOMAIN c
        /\ \A f \in EyeFields \ {"overview", "latched", "requested", "visual", "detail"} : d[f] = c[f]
    BY <1>10, <1>11, VisualLayoutIs
  <2>2. /\ d.interactive = c.interactive /\ d.strategy = c.strategy /\ d.back = c.back /\ d.entry = c.entry
        /\ d.entryTimer = c.entryTimer /\ d.turn = c.turn /\ d.phase = c.phase
    BY <2>1, EyeNames
  <2> QED
    BY <1>9, <2>1, <2>2 DEF BackInPlace
<1>13. PICK r : r = [d EXCEPT !.ready = TRUE, !.initial = "none", !.fresh = FALSE, !.restoring = FALSE, !.focused = TRUE]
  OBVIOUS
<1>14. Waiting(r) /\ DOMAIN r = EyeFields
  BY <1>12, <1>13, EyeNames DEF BackInPlace, Waiting, Calm
<1>15. r = PlaceCamera(d, opted, n)
  BY <1>2, <1>13 DEF PlaceCamera, StableRestore
<1>16. r = SetData(opted, n)
  BY <1>4, <1>6, <1>8, <1>11, <1>15 DEF SetData
<1>17. q = Resume(r)
  BY <1>1, <1>16 DEF Commit
<1>18. CASE ~r.interactive \/ ~r.ready \/ r.hidden
  BY <1>14, <1>17, <1>18 DEF Resume
<1>19. CASE ~(~r.interactive \/ ~r.ready \/ r.hidden)
  <2>1. PICK s : s = [r EXCEPT !.paused = FALSE]
    OBVIOUS
  <2>2. Waiting(s) /\ DOMAIN s = EyeFields
    BY <1>14, <2>1, EyeNames DEF Waiting, Calm
  <2>3. ResumeEntry(s) = s /\ ScheduleInitialFocus(s) = s
    BY <2>2 DEF ResumeEntry, ScheduleInitialFocus, Waiting, Calm
  <2>4. q = StartLoop(s)
    BY <1>17, <1>19, <2>1, <2>3 DEF Resume
  <2> QED
    BY <2>2, <2>4, EyeNames DEF StartLoop, Waiting, Calm
<1> QED
  BY <1>18, <1>19

LEMMA RestoredRests ==
  ASSUME NEW e, Sound(e), Waiting(e), NEW view, NEW q, q = RestoreView(e, view)
  PROVE  AtRest(q)
<1>1. PICK overview \in BOOLEAN : overview = (view.source = NoSource)
  OBVIOUS
<1>2. PICK seen : seen = [StopTurn(e) EXCEPT !.visual = view.source, !.latched = view.source,
                                    !.requested = view.source, !.overview = overview,
                                    !.detail = view.detail, !.cam = view.cam]
  OBVIOUS
<1>3. Waiting(seen) /\ DOMAIN seen = EyeFields /\ seen.flight = e.flight
  BY <1>2, EyeNames DEF StopTurn, Waiting, Calm, Sound, EyeTyped
<1>4. PICK d : d = Between(0, DeepestPlace, view.depth)
  OBVIOUS
<1>5. PICK flown : flown = [seen EXCEPT !.speed = 0, !.target = Nowhere, !.depth = d, !.aim = d, !.gaze = TRUE]
  OBVIOUS
<1>6. AtRest(flown) /\ Standing(flown) /\ DOMAIN flown = EyeFields /\ flown.flight = e.flight
  BY <1>3, <1>5, EyeNames DEF Waiting, AtRest, Calm, Resting, Standing, Asking
<1>7. PICK placed : placed = IF e.flight = NoSource \/ view.source # e.flight THEN seen
                             ELSE IF d = 0 THEN MarkOrigin(flown) ELSE MarkExploring(flown)
  OBVIOUS
<1>8. AtRest(placed) /\ DOMAIN placed = EyeFields
  <2>1. CASE placed = seen
    BY <1>3, <2>1 DEF Waiting, AtRest, Resting, Asking
  <2>2. CASE placed = MarkOrigin(flown)
    BY <1>6, <2>2, EyeNames DEF MarkOrigin, DropEntry, AtRest, Calm, Resting, Standing, Asking
  <2>3. CASE placed = MarkExploring(flown) /\ e.flight # NoSource
    BY <1>6, <2>3, EyeNames DEF MarkExploring, DropEntry, AtRest, Calm, Resting, Standing, Asking
  <2> QED
    BY <1>7, <2>1, <2>2, <2>3
<1>9. q = StartLoop(placed)
  BY <1>1, <1>2, <1>4, <1>5, <1>7 DEF RestoreView, StandAt, Brake
<1> QED
  BY <1>8, <1>9, EyeNames DEF StartLoop, AtRest, Calm, Resting, Standing, Asking

ViewCorrect == SceneCorrect /\ ViewHeld
RestKept == ViewHeld' /\ (stage.restored /\ stage'.restored => eye'.cam = eye.cam /\ eye'.depth = eye.depth)

\* A restored view is left alone by every step that does not end its time:
\* the invariant, and with it the property, over the steps of the engine that
\* leave the stage as it is.
LEMMA StillRests ==
  ASSUME Sound(eye), ViewHeld, Still, AtRest(eye) => Stays(eye', eye)
  PROVE  RestKept
<1>1. Waiting(eye) => AtRest(eye)
  BY DEF Waiting, AtRest, Resting, Asking
<1> QED
  BY <1>1 DEF RestKept, ViewHeld, Still, Stays

LEMMA RestingTimers ==
  ASSUME ViewCorrect, SceneTimers
  PROVE  RestKept
<1>1. Sound(eye) /\ EyeTyped(eye) /\ ViewHeld /\ Staged
  BY DEF ViewCorrect, SceneCorrect, Sound
<1>2. ASSUME Still, AtRest(eye) => Stays(eye', eye)
      PROVE  RestKept
  BY <1>1, <1>2, StillRests
<1>3. CASE AnimationFrame
  <2>1. PICK rests, kept \in BOOLEAN : eye' = Frame(eye, rests, kept)
    BY <1>3 DEF AnimationFrame, Change
  <2>2. AtRest(eye) => Stays(eye', eye)
    BY <1>1, <2>1, RestingFrame
  <2> QED
    BY <1>2, <1>3, <2>2 DEF AnimationFrame
<1>4. CASE TurnSettles
  <2>1. eye' = [eye EXCEPT !.turn = "idle"] /\ Still
    BY <1>4 DEF TurnSettles, Change, StopTurn
  <2>2. AtRest(eye) => Stays(eye', eye)
    BY <1>1, <2>1, EyeNames DEF EyeTyped, Stays, Waiting, AtRest, Calm, Resting, Standing, Asking
  <2> QED
    BY <1>2, <2>1, <2>2
<1>5. CASE EntryTimer
  <2>1. ~AtRest(eye) /\ Still
    BY <1>5 DEF EntryTimer, AtRest, Calm
  <2> QED
    BY <1>2, <2>1
<1>6. CASE GazeTimer
  <2>1. PICK gaze : eye' = [eye EXCEPT !.gazeTimer = FALSE, !.gaze = gaze]
    BY <1>6 DEF GazeTimer, Change
  <2>2. AtRest(eye) => Stays(eye', eye)
    BY <1>1, <2>1, EyeNames DEF EyeTyped, Stays, Waiting, AtRest, Calm, Resting, Standing, Asking
  <2> QED
    BY <1>2, <1>6, <2>2 DEF GazeTimer
<1>7. CASE GateOpens
  <2>1. eye' = [eye EXCEPT !.gate = "open"] /\ Still
    BY <1>7 DEF GateOpens, Change
  <2>2. AtRest(eye) => Stays(eye', eye)
    BY <1>1, <2>1, EyeNames DEF EyeTyped, Stays, Waiting, AtRest, Calm, Resting, Standing, Asking
  <2> QED
    BY <1>2, <2>1, <2>2
<1>8. CASE InitialFocus
  <2>1. ~AtRest(eye) /\ Still
    BY <1>8 DEF InitialFocus, AtRest, Calm
  <2> QED
    BY <1>2, <2>1
<1>9. CASE CoolsDown
  <2>1. eye' = eye /\ stage' = [stage EXCEPT !.follow = TRUE]
    BY <1>9 DEF CoolsDown
  <2>2. stage'.restored = stage.restored /\ stage'.restoring = stage.restoring
    BY <1>1, <2>1, StageNames DEF Staged
  <2> QED
    BY <1>1, <2>1, <2>2 DEF RestKept, ViewHeld
<1> QED
  BY <1>3, <1>4, <1>5, <1>6, <1>7, <1>8, <1>9, SMTT(20) DEF SceneTimers

\* Whatever the reader does ends the time of a restored view.
LEMMA SpendEnds ==
  ASSUME Staged, ViewHeld, Spend \/ Supersede
  PROVE  RestKept
<1>1. PICK r : /\ r # "alone"
               /\ r = IF Supersede \/ stage.restoring = "no" \/ (eye.flight # NoSource /\ eye'.flight = NoSource)
                       THEN "no" ELSE "disturbed"
  OBVIOUS
<1>2. PICK left : left = stage.left - 1
  OBVIOUS
<1>3. stage' = [stage EXCEPT !.left = left, !.restored = FALSE, !.restoring = r]
  <2>1. CASE Supersede
    BY <1>1, <1>2, <2>1 DEF Supersede
  <2>2. CASE Spend /\ ~Supersede
    BY <1>1, <1>2, <2>2 DEF Spend
  <2> QED
    BY <2>1, <2>2
<1>4. stage'.restored = FALSE /\ stage'.restoring # "alone"
  BY <1>1, <1>3, StageNames DEF Staged
<1> QED
  BY <1>4 DEF RestKept, ViewHeld

LEMMA RestingReader ==
  ASSUME ViewCorrect, SceneReader
  PROVE  RestKept
<1>1. Sound(eye) /\ EyeTyped(eye) /\ ViewHeld /\ Staged
  BY DEF ViewCorrect, SceneCorrect, Sound
<1>2. ASSUME Still, AtRest(eye) => Stays(eye', eye)
      PROVE  RestKept
  BY <1>1, <1>2, StillRests
<1>3. ASSUME Spend \/ Supersede PROVE RestKept
  BY <1>1, <1>3, SpendEnds
<1>4. CASE Show
  <2>1. PICK a : a = [eye EXCEPT !.hidden = FALSE]
    OBVIOUS
  <2>2. Sound(a)
    BY <1>1, <2>1, EyeNames DEF Sound, EyeTyped
  <2>3. AtRest(eye) => Stays(a, eye)
    BY <1>1, <2>1, EyeNames DEF EyeTyped, Stays, Waiting, AtRest, Calm, Resting, Standing, Asking
  <2>4. eye' = Resume(a) /\ Still
    BY <1>4, <2>1 DEF Show, Change
  <2>5. AtRest(eye) => Stays(eye', eye)
    BY <2>2, <2>3, <2>4, RestingResume DEF Stays
  <2> QED
    BY <1>2, <2>4, <2>5
<1>5. CASE Return
  <2>1. ~AtRest(eye) /\ Still
    BY <1>5 DEF Return, AtRest, Calm
  <2> QED
    BY <1>2, <2>1
<1>6. CASE Back \/ Wheel \/ Grab \/ Orbit \/ Lock \/ Hide \/ Leave
  BY <1>3, <1>6 DEF Back, Wheel, Grab, Orbit, Lock, Hide, Leave
<1> QED
  BY <1>4, <1>5, <1>6 DEF SceneReader

LEMMA RestingController ==
  ASSUME ViewCorrect, SceneController
  PROVE  RestKept
<1>1. Sound(eye) /\ EyeTyped(eye) /\ ViewHeld /\ Staged /\ Apart(eye)
  BY DEF ViewCorrect, SceneCorrect, Sound
<1>2. ASSUME Still, AtRest(eye) => Stays(eye', eye)
      PROVE  RestKept
  BY <1>1, <1>2, StillRests
<1>3. ASSUME Spend \/ Supersede PROVE RestKept
  BY <1>1, <1>3, SpendEnds
<1>4. Waiting(eye) => AtRest(eye)
  BY DEF Waiting, AtRest, Resting, Asking
<1>5. CASE Poll \/ EnterSource \/ LeaveSource \/ MoreEvidence \/ Synchronize \/ AskTurn
  BY <1>3, <1>5 DEF Poll, EnterSource, LeaveSource, MoreEvidence, Synchronize, AskTurn
<1>6. CASE TurnAdvances
  <2>1. PICK p \in 1..DeepestPlace \ {eye.near} : eye' = Turned(p)
    BY <1>6 DEF TurnAdvances, Change
  <2>2. p \in Int
    BY SceneAssumption
  <2>3. eye.turn \in {"asked", "due"} /\ Still
    BY <1>6 DEF TurnAdvances
  <2>4. eye' = Commit(eye, [Now(eye) EXCEPT !.near = p, !.window = TRUE, !.nodes = TRUE, !.cause = "journey"])
    BY <2>1 DEF Turned
  <2>5. AtRest(eye) => AtRest(eye') /\ eye'.cam = eye.cam /\ eye'.depth = eye.depth
    BY <1>1, <2>2, <2>3, <2>4, RestingTurned
  <2>6. ~Waiting(eye)
    BY <2>3 DEF Waiting
  <2> QED
    BY <1>2, <2>3, <2>5, <2>6 DEF Stays
<1>7. CASE TurnIsDue
  <2>1. PICK own : own = IF eye.own = "asked" THEN "due" ELSE eye.own
    OBVIOUS
  <2>2. eye' = [eye EXCEPT !.turn = "due", !.own = own] /\ eye.turn = "asked" /\ Still
    BY <1>1, <1>7, <2>1, EyeNames DEF TurnIsDue, Change, EyeTyped
  <2>3. AtRest(eye) => own = "due" /\ eye.flight # NoSource
    BY <2>1, <2>2 DEF AtRest, Asking
  <2>4. AtRest(eye) => Stays(eye', eye)
    BY <1>1, <2>2, <2>3, EyeNames DEF EyeTyped, Stays, Waiting, AtRest, Calm, Resting, Standing, Asking
  <2> QED
    BY <1>2, <2>2, <2>4
<1>8. CASE TurnIsGivenUp
  <2>1. eye' = [eye EXCEPT !.turn = "idle"] /\ Still
    BY <1>8 DEF TurnIsGivenUp, Change, StopTurn
  <2>2. AtRest(eye) => Stays(eye', eye)
    BY <1>1, <2>1, EyeNames DEF EyeTyped, Stays, Waiting, AtRest, Calm, Resting, Standing, Asking
  <2> QED
    BY <1>2, <2>1, <2>2
<1>9. CASE TurnIsBlocked
  <2>1. PICK turn : turn = IF eye.turn = "asked" THEN "idle" ELSE eye.turn
    OBVIOUS
  <2>2. PICK own : own = IF eye.own = "asked" THEN "no" ELSE eye.own
    OBVIOUS
  <2>3. eye' = [eye EXCEPT !.turn = turn, !.own = own]
    BY <1>1, <1>9, <2>1, <2>2, EyeNames DEF TurnIsBlocked, Change, EyeTyped
  <2>4. AtRest(eye) => Stays(eye', eye)
    BY <1>1, <2>1, <2>2, <2>3, EyeNames DEF EyeTyped, Stays, Waiting, AtRest, Calm, Resting, Standing, Asking
  <2>5. PICK follow : stage' = [stage EXCEPT !.follow = follow]
    BY <1>9 DEF TurnIsBlocked
  <2>6. stage'.restored = stage.restored /\ stage'.restoring = stage.restoring
    BY <1>1, <2>5, StageNames DEF Staged
  <2> QED
    BY <1>1, <1>4, <2>4, <2>6 DEF RestKept, ViewHeld, Stays
<1>10. CASE Gather
  <2>1. PICK left, k : stage' = [stage EXCEPT !.left = left, !.restored = FALSE, !.restoring = "no", !.kept = k]
    BY <1>10 DEF Gather
  <2>2. stage'.restored = FALSE /\ stage'.restoring = "no"
    BY <1>1, <2>1, StageNames DEF Staged
  <2> QED
    BY <2>2 DEF RestKept, ViewHeld
<1>11. CASE Ungather
  <2>1. eye.strategy = "accumulation" /\ eye.interactive /\ stage.kept.is
    BY <1>11 DEF Ungather
  <2>2. ~stage.restored
    BY <1>1, <2>1 DEF ViewHeld, AtRest, Calm
  <2>3. PICK a : a = [eye EXCEPT !.restoring = TRUE]
    OBVIOUS
  <2>4. Sound(a) /\ Course(a, eye) /\ a.near = eye.near /\ a.restoring
    BY <1>1, <2>3, EyeNames DEF Sound, EyeTyped, Course
  <2>5. PICK n : n = [Now(eye) EXCEPT !.strategy = "exploration", !.flight = stage.kept.flight,
                                      !.near = stage.kept.near, !.epoch = TRUE, !.window = TRUE, !.nodes = TRUE]
    OBVIOUS
  <2>6. stage.kept.flight \in Sights /\ stage.kept.near \in Int
    BY <1>1, <2>1 DEF Staged, ViewKept
  <2>7. a.flight = NoSource /\ a.strategy = "accumulation" /\ a.interactive
    BY <1>1, <2>1, <2>4 DEF Apart, Course
  <2>8. Fits(a, n) /\ n.strategy = "exploration" /\ n.interactive /\ n.epoch /\ n.window
    BY <1>1, <2>1, <2>5, <2>6, <2>7, NowIs, EyeWords DEF Fits, News, Now
  <2>9. eye' = Commit(a, n)
    BY <1>11, <2>3, <2>5 DEF Ungather, Change
  <2>10. Waiting(eye')
    BY <2>4, <2>7, <2>8, <2>9, UngatherWaits
  <2>11. PICK left : stage' = [stage EXCEPT !.left = left, !.restoring = "alone"]
    BY <1>11 DEF Ungather
  <2>12. stage'.restored = stage.restored
    BY <1>1, <2>11, StageNames DEF Staged
  <2> QED
    BY <2>2, <2>10, <2>12 DEF RestKept, ViewHeld
<1>12. CASE RestoreFrame
  <2>1. PICK view : eye' = RestoreView(eye, view)
    BY <1>12 DEF RestoreFrame, Change
  <2>2. PICK restored, k : /\ restored = (stage.restoring = "alone")
                           /\ stage' = [stage EXCEPT !.restoring = "no", !.restored = restored, !.kept = k]
    BY <1>12 DEF RestoreFrame
  <2>3. stage'.restoring = "no" /\ (stage'.restored => stage.restoring = "alone")
    BY <1>1, <2>2, StageNames DEF Staged
  <2>4. stage.restoring = "alone" => AtRest(eye')
    BY <1>1, <2>1, RestoredRests DEF ViewHeld
  <2>5. ~stage.restored
    BY <1>1, <1>12 DEF RestoreFrame, ViewHeld
  <2> QED
    BY <2>3, <2>4, <2>5 DEF RestKept, ViewHeld
<1> QED
  BY <1>5, <1>6, <1>7, <1>8, <1>9, <1>10, <1>11, <1>12, SMTT(20) DEF SceneController

\* Once the exploration is restored nothing but the reader moves the camera: no
\* timer, frame, late page or tab that is shown again (universe-scene-engine.ts,
\* restoreView and what setData does with a restored graph).
THEOREM RestoredStays == SceneSpec => RestoredViewHolds
<1>1. SceneInit => ViewCorrect
  <2> SUFFICES ASSUME SceneInit PROVE ViewCorrect
    OBVIOUS
  <2>1. stage.restored = FALSE /\ stage.restoring = "no"
    BY DEF SceneInit
  <2> QED
    BY <2>1, FirstStep DEF ViewCorrect, ViewHeld
<1>2. ViewCorrect /\ [SceneNext]_sceneVars => ViewCorrect' /\ RestKept
  <2> SUFFICES ASSUME ViewCorrect, [SceneNext]_sceneVars PROVE ViewCorrect' /\ RestKept
    OBVIOUS
  <2>1. SceneCorrect'
    BY SceneStep DEF ViewCorrect
  <2>2. ASSUME UNCHANGED sceneVars PROVE RestKept
    BY <2>2 DEF RestKept, ViewCorrect, ViewHeld, sceneVars
  <2>3. RestKept
    BY <2>2, RestingTimers, RestingReader, RestingController DEF SceneNext
  <2>4. ViewHeld'
    BY <2>3 DEF RestKept
  <2> QED
    BY <2>1, <2>3, <2>4 DEF ViewCorrect
<1>3. RestKept => (stage.restored /\ stage'.restored => eye'.cam = eye.cam /\ eye'.depth = eye.depth)
  BY DEF RestKept
<1> QED
  BY <1>1, <1>2, <1>3, PTL DEF SceneSpec, RestoredViewHolds

(***************************************************************************)
(* The pet (PetCharacter).                                                 *)
(***************************************************************************)
Pets == [activity : Activities, activityTimer : BOOLEAN, motion : Motions,
         queue : {<<>>, <<"wave">>}, motionTimer : BOOLEAN, speech : Tones,
         speechTimer : BOOLEAN, face : BOOLEAN, faceTimer : BOOLEAN,
         form : {"idle", "bursting", "falling", "launching"}, formTimer : BOOLEAN,
         collapsed : BOOLEAN]
Companies == [run : Sessions \cup {NoSession}, doing : RunActivities, key : Sessions \X Nat, front : Sessions,
              failed : SUBSET Sessions, inView : BOOLEAN, was : BOOLEAN, told : SUBSET (Sessions \X Nat),
              search : {"none", "here", "lost"}, runs : Nat, searches : Nat, plays : Nat, reduced : BOOLEAN]

\* Of a character: whatever has an end has the timer that brings it, and it does
\* not play while it looks busy with an answer.
Timed(p) ==
  /\ p \in Pets
  /\ p.motionTimer <=> p.motion # "idle"
  /\ p.queue # <<>> => p.motionTimer
  /\ p.activityTimer <=> p.activity \in {"done", "error"}
  /\ p.speech \in {"success", "error"} => p.speechTimer
  /\ p.face => p.faceTimer
  /\ p.formTimer <=> p.form \in {"bursting", "falling"}
  /\ p.activity \in RunActivities => p.motion = "idle"
\* The run that goes on has a number of its own: none announced before has it.
Numbered(w) ==
  /\ w \in Companies /\ (w.was <=> Running(w))
  /\ \A k \in w.told : k[2] <= w.runs
  /\ Running(w) => w.key[2] = w.runs /\ \A k \in w.told : k[2] < w.runs
PetCorrect ==
  /\ Timed(pet) /\ Numbered(work)
  /\ pet.form = "launching" => pet.motion = "fly"
  /\ pet.activity \in RunActivities => Running(work)

LEMMA PetIs == PetCorrect => PetConsistent
BY DEF PetCorrect, PetConsistent, PetTypeOK, NothingLingers, BusyWithARun, Timed, Numbered, Pets, Companies

(***************************************************************************)
(* The helpers of the character keep it in time.                           *)
(***************************************************************************)
LEMMA RestedIs ==
  ASSUME NEW p \in Pets, p.formTimer <=> p.form \in {"bursting", "falling"}, NEW q, q = Rested(p)
  PROVE  Timed(q) /\ q.activity = "idle" /\ q.form = p.form
<1> DEFINE a == [p EXCEPT !.face = FALSE, !.faceTimer = FALSE]
           b == [a EXCEPT !.queue = <<>>, !.motionTimer = FALSE, !.motion = "idle"]
           c == [b EXCEPT !.speech = "none", !.speechTimer = FALSE]
<1>1. /\ a \in Pets /\ a.form = p.form /\ a.formTimer = p.formTimer /\ ~a.face
  BY DEF Pets
<1>2. q = [c EXCEPT !.activityTimer = FALSE, !.activity = "idle"]
  BY <1>1 DEF Rested, Quiet, Interrupted, Unmasked, PetStill, Pets
<1> HIDE DEF a
<1>3. /\ b \in Pets /\ b.form = p.form /\ b.formTimer = p.formTimer /\ ~b.face /\ b.queue = <<>> /\ ~b.motionTimer
      /\ b.motion = "idle"
  BY <1>1 DEF Pets, Motions
<1> HIDE DEF b
<1>4. /\ c \in Pets /\ c.form = p.form /\ c.formTimer = p.formTimer /\ ~c.face /\ c.queue = <<>> /\ ~c.motionTimer
      /\ c.motion = "idle" /\ c.speech = "none"
  BY <1>3 DEF Pets, Tones
<1> HIDE DEF c
<1>5. /\ q \in Pets /\ q.form = p.form /\ q.formTimer = p.formTimer /\ ~q.face /\ q.queue = <<>> /\ ~q.motionTimer
      /\ q.motion = "idle" /\ q.speech = "none" /\ ~q.activityTimer /\ q.activity = "idle"
  BY <1>2, <1>4, ZenonT(20) DEF Pets, Activities
<1> QED
  BY <1>5 DEF Timed, RunActivities

LEMMA OccupiedIs ==
  ASSUME NEW p, Timed(p), NEW a \in Activities, NEW timed \in BOOLEAN, timed <=> a \in {"done", "error"},
         NEW q, q = Occupied(p, a, timed)
  PROVE  Timed(q) /\ q.activity = a /\ q.form = p.form /\ q.motion = "idle" /\ q.activityTimer = timed
<1> DEFINE b == [p EXCEPT !.face = FALSE, !.faceTimer = FALSE]
           c == [b EXCEPT !.queue = <<>>, !.motionTimer = FALSE, !.motion = "idle"]
           t == Tone(a)
           d == [c EXCEPT !.speech = t, !.speechTimer = timed]
<1>0. p \in Pets /\ (p.formTimer <=> p.form \in {"bursting", "falling"})
  BY DEF Timed
<1>1. /\ b \in Pets /\ b.form = p.form /\ b.formTimer = p.formTimer /\ ~b.face
  BY <1>0 DEF Pets
<1>2. q = [d EXCEPT !.activity = a, !.activityTimer = timed]
  BY <1>1 DEF Occupied, Said, Interrupted, Unmasked, PetStill, Pets
<1>t. t \in Tones /\ (t \in {"success", "error"} => timed)
  BY DEF Tone, Tones
<1> HIDE DEF b, t
<1>3. /\ c \in Pets /\ c.form = p.form /\ c.formTimer = p.formTimer /\ ~c.face /\ c.queue = <<>> /\ ~c.motionTimer
      /\ c.motion = "idle"
  BY <1>1 DEF Pets, Motions
<1> HIDE DEF c
<1>4. /\ d \in Pets /\ d.form = p.form /\ d.formTimer = p.formTimer /\ ~d.face /\ d.queue = <<>> /\ ~d.motionTimer
      /\ d.motion = "idle" /\ d.speech = t /\ d.speechTimer = timed
  BY <1>3, <1>t DEF Pets
<1> HIDE DEF d
<1>5. /\ q \in Pets /\ q.form = p.form /\ q.formTimer = p.formTimer /\ ~q.face /\ q.queue = <<>> /\ ~q.motionTimer
      /\ q.motion = "idle" /\ q.speech = t /\ q.speechTimer = timed /\ q.activityTimer = timed /\ q.activity = a
  BY <1>2, <1>4 DEF Pets
<1> QED
  BY <1>0, <1>5, <1>t DEF Timed

LEMMA StartedIs ==
  ASSUME NEW p \in Pets, NEW q, q = Started(p), ~p.motionTimer,
         p.activityTimer <=> p.activity \in {"done", "error"},
         p.speech \in {"success", "error"} => p.speechTimer,
         p.face => p.faceTimer,
         p.formTimer <=> p.form \in {"bursting", "falling"},
         p.activity \in RunActivities => p.queue = <<>>
  PROVE  Timed(q) /\ q.activity = p.activity /\ q.form = p.form /\ q.activityTimer = p.activityTimer
<1>1. CASE p.queue = <<>>
  <2>1. q = [p EXCEPT !.motion = "idle"]
    BY <1>1 DEF Started
  <2> QED
    BY <1>1, <2>1 DEF Timed, Pets, Motions
<1>2. CASE p.queue = <<"wave">>
  <2>1. q = [p EXCEPT !.motion = "wave", !.queue = <<>>, !.motionTimer = TRUE]
    <3>1. <<"wave">> # <<>> /\ Head(<<"wave">>) = "wave" /\ Tail(<<"wave">>) = <<>>
      OBVIOUS
    <3> QED
      BY <1>2, <3>1 DEF Started
  <2>2. p.activity \notin RunActivities
    <3>1. <<"wave">> # <<>>
      OBVIOUS
    <3> QED
      BY <1>2, <3>1
  <2>3. /\ q \in Pets /\ q.motion = "wave" /\ q.queue = <<>> /\ q.motionTimer /\ q.activity = p.activity
        /\ q.activityTimer = p.activityTimer /\ q.speech = p.speech /\ q.speechTimer = p.speechTimer
        /\ q.face = p.face /\ q.faceTimer = p.faceTimer /\ q.form = p.form /\ q.formTimer = p.formTimer
    BY <2>1 DEF Pets, Motions
  <2> QED
    BY <2>2, <2>3 DEF Timed
<1> QED
  BY <1>1, <1>2 DEF Pets

LEMMA MovedIs ==
  ASSUME NEW p, Timed(p), NEW m \in Motions \ {"idle"}, p.activity \notin RunActivities,
         NEW ms, NEW rest \in {<<>>, <<"wave">>}, ms # <<>>, Head(ms) = m, Tail(ms) = rest,
         NEW q, q = Moved(p, ms)
  PROVE  Timed(q) /\ q.activity = p.activity /\ q.form = p.form /\ q.motion = m /\ q.activityTimer = p.activityTimer
<1> DEFINE b == [p EXCEPT !.queue = <<>>, !.motionTimer = FALSE]
           c == [b EXCEPT !.queue = ms]
<1>1. q = Started(c)
  BY DEF Moved, PetStill
<1>3. q = [p EXCEPT !.motion = m, !.queue = rest, !.motionTimer = TRUE]
  <2>1. p \in Pets /\ c.queue = ms
    BY DEF Timed, Pets
  <2>2. q = [c EXCEPT !.motion = m, !.queue = rest, !.motionTimer = TRUE]
    BY <1>1, <2>1 DEF Started
  <2> QED
    BY <2>1, <2>2 DEF Pets
<1> QED
  BY <1>3 DEF Timed, Pets

\* What is put on show: a launch without a flight is over, and what was announced
\* is over where an answer is in view.
LEMMA ShownIs ==
  ASSUME NEW p, Timed(p), NEW w \in Companies, NEW q, q = Landed(Seen(p, w)),
         p.activity \in RunActivities => Running(w)
  PROVE  /\ Timed(q)
         /\ q.form = "launching" => q.motion = "fly"
         /\ q.activity \in RunActivities => Running(w)
         /\ ~w.inView => q.activity = p.activity /\ q.activityTimer = p.activityTimer
<1> DEFINE s == Seen(p, w)
<1>1. p \in Pets /\ (p.formTimer <=> p.form \in {"bursting", "falling"})
  BY DEF Timed
<1>2. /\ Timed(s)
      /\ s.activity \in RunActivities => Running(w)
      /\ ~w.inView => s = p
  <2>1. Timed(Rested(p)) /\ Rested(p).activity = "idle"
    BY <1>1, RestedIs
  <2> QED
    BY <2>1 DEF Seen, RunActivities
<1> HIDE DEF s
<1>3. s \in Pets
  BY <1>2 DEF Timed
<1>4. CASE s.form = "launching" /\ s.motion # "fly"
  <2>1. q = [s EXCEPT !.form = "idle"]
    BY <1>4 DEF Landed, s
  <2>2. /\ q \in Pets /\ q.form = "idle" /\ q.motion = s.motion /\ q.queue = s.queue /\ q.motionTimer = s.motionTimer
        /\ q.activity = s.activity
        /\ q.activityTimer = s.activityTimer /\ q.speech = s.speech /\ q.speechTimer = s.speechTimer
        /\ q.face = s.face /\ q.faceTimer = s.faceTimer /\ q.formTimer = s.formTimer
    BY <1>3, <2>1 DEF Pets
  <2>3. ~s.formTimer
    BY <1>2, <1>4 DEF Timed
  <2> QED
    BY <1>2, <2>2, <2>3 DEF Timed
<1>5. CASE ~(s.form = "launching" /\ s.motion # "fly")
  <2>1. q = s
    BY <1>5 DEF Landed, s
  <2> QED
    BY <1>2, <1>5, <2>1
<1> QED
  BY <1>4, <1>5

LEMMA CompletedIs ==
  ASSUME NEW p, Timed(p)
  PROVE  Timed(Completed(p)) /\ Completed(p).activity = "done" /\ Completed(p).activityTimer = TRUE
<1> DEFINE a == Occupied(p, "done", TRUE)
<1>1. Timed(a) /\ a.activity = "done" /\ a.activityTimer = TRUE
  <2>1. PICK timed \in BOOLEAN : timed = TRUE
    OBVIOUS
  <2>2. "done" \in Activities /\ (timed <=> "done" \in {"done", "error"})
    BY <2>1 DEF Activities
  <2>3. LET q == Occupied(p, "done", timed)
        IN  Timed(q) /\ q.activity = "done" /\ q.activityTimer = timed
    BY <2>2, OccupiedIs
  <2> QED
    BY <2>1, <2>3
<1> HIDE DEF a
<1>2. /\ Timed(Moved(a, <<"jump", "wave">>)) /\ Moved(a, <<"jump", "wave">>).activity = a.activity
      /\ Moved(a, <<"jump", "wave">>).activityTimer = a.activityTimer
  <2> DEFINE ms == <<"jump", "wave">>
  <2>1. /\ "jump" \in Motions \ {"idle"} /\ a.activity \notin RunActivities /\ ms # <<>> /\ Head(ms) = "jump"
        /\ Tail(ms) = <<"wave">> /\ <<"wave">> \in {<<>>, <<"wave">>}
    BY <1>1 DEF Motions, RunActivities
  <2> QED
    BY <1>1, <2>1, MovedIs, ZenonT(20)
<1> QED
  BY <1>1, <1>2 DEF Completed, a

LEMMA FailedIs ==
  ASSUME NEW p, Timed(p)
  PROVE  Timed(Failed(p)) /\ Failed(p).activity = "error" /\ Failed(p).activityTimer = TRUE
<1>1. PICK timed \in BOOLEAN : timed = TRUE
  OBVIOUS
<1>2. "error" \in Activities /\ (timed <=> "error" \in {"done", "error"})
  BY <1>1 DEF Activities
<1>3. LET q == Occupied(p, "error", timed)
      IN  Timed(q) /\ q.activity = "error" /\ q.activityTimer = timed
  BY <1>2, OccupiedIs
<1> QED
  BY <1>1, <1>3 DEF Failed

\* A change of the conversations, and what it sets off.
LEMMA SettledIs ==
  ASSUME PetCorrect, NEW w \in Companies, w.was = work.was, w.told = work.told, Settled(pet, w),
         \A k \in w.told : k[2] <= w.runs,
         work.was /\ ~Running(w) => w.key \notin w.told /\ w.key[2] <= w.runs,
         Running(w) => w.key[2] = w.runs /\ \A k \in w.told : k[2] < w.runs
  PROVE  /\ PetCorrect'
         /\ (Running(work) /\ ~Running(w) /\ ~w.inView) => pet'.activity \in {"done", "error"} /\ pet'.activityTimer
<1> DEFINE p == Followed(pet, w)
<1>0. /\ Timed(pet) /\ Numbered(work) /\ pet \in Pets
      /\ pet.formTimer <=> pet.form \in {"bursting", "falling"}
      /\ pet.activity \in RunActivities => work.was
      /\ (work.was <=> Running(work)) /\ work.was \in BOOLEAN
  BY DEF PetCorrect, Timed, Numbered, Companies
<1>1. /\ Timed(p)
      /\ p.activity \in RunActivities => Running(w)
      /\ (work.was /\ ~Running(w) /\ ~w.inView) => p.activity \in {"done", "error"} /\ p.activityTimer
  <2>1. CASE Running(w)
    <3>1. p = Occupied(pet, w.doing, FALSE)
      BY <2>1 DEF Followed
    <3>2. w.doing \in Activities /\ w.doing \notin {"done", "error"}
      BY DEF Companies, RunActivities, Activities
    <3> QED
      BY <1>0, <2>1, <3>1, <3>2, OccupiedIs
  <2>2. CASE ~Running(w) /\ ~work.was
    <3>1. p = pet
      BY <2>2 DEF Followed
    <3> QED
      BY <1>0, <2>2, <3>1
  <2>3. CASE ~Running(w) /\ work.was
    <3>1. p = IF w.inView THEN Rested(pet) ELSE IF ShowsFailure(w) THEN Failed(pet) ELSE Completed(pet)
      BY <2>3 DEF Followed
    <3>2. Timed(Rested(pet)) /\ Rested(pet).activity = "idle"
      BY <1>0, RestedIs
    <3> QED
      BY <1>0, <2>3, <3>1, <3>2, CompletedIs, FailedIs DEF RunActivities
  <2> QED
    BY <1>0, <2>1, <2>2, <2>3
<1> HIDE DEF p
<1>2. pet' = Landed(Seen(p, w)) /\ work' = Noted(w)
  BY DEF Settled, p
<1>3. /\ Timed(pet')
      /\ pet'.form = "launching" => pet'.motion = "fly"
      /\ pet'.activity \in RunActivities => Running(w)
      /\ ~w.inView => pet'.activity = p.activity /\ pet'.activityTimer = p.activityTimer
  BY <1>1, <1>2, ShownIs
<1>4. PICK runs \in BOOLEAN : runs = Running(w)
  BY DEF Running
<1>5. PICK told \in SUBSET (Sessions \X Nat) :
        told = IF w.was /\ ~Running(w) /\ ~w.inView THEN w.told \cup {w.key} ELSE w.told
  BY DEF Companies
<1>6. work' = [w EXCEPT !.was = runs, !.told = told]
  BY <1>2, <1>4, <1>5 DEF Noted
<1>7. /\ work' \in Companies /\ work'.was = runs /\ work'.told = told /\ work'.run = w.run /\ work'.key = w.key
      /\ work'.runs = w.runs
  BY <1>6 DEF Companies
<1>8. Running(work') <=> Running(w)
  BY <1>7 DEF Running
<1>9. Numbered(work')
  BY <1>4, <1>5, <1>7, <1>8 DEF Numbered
<1> QED
  BY <1>0, <1>1, <1>3, <1>8, <1>9 DEF PetCorrect

LEMMA PetInitHolds == PetCharacterInit => PetCorrect
<1> SUFFICES ASSUME PetCharacterInit
             PROVE  PetCorrect
  OBVIOUS
<1>1. Timed(pet) /\ pet.form = "idle" /\ pet.activity = "idle"
  BY DEF PetCharacterInit, Timed, Pets, Activities, Motions, Tones, RunActivities
<1>2. PICK s \in Sessions, seen \in BOOLEAN, reduced \in BOOLEAN :
       work = [run |-> NoSession, doing |-> "thinking", key |-> <<s, 0>>, front |-> s, failed |-> {},
               inView |-> seen, was |-> FALSE, told |-> {}, search |-> "none",
               runs |-> 0, searches |-> 0, plays |-> 0, reduced |-> reduced]
  BY DEF PetCharacterInit
<1>3. work \in Companies /\ work.was = FALSE /\ work.told = {} /\ work.run = NoSession
  BY <1>2 DEF Companies, RunActivities
<1> QED
  BY <1>1, <1>3 DEF PetCorrect, Numbered, Running, RunActivities

(***************************************************************************)
(* One step.                                                               *)
(***************************************************************************)
LEMMA ConversationHolds ==
  ASSUME PetCorrect, RunStarts \/ RunSteps \/ RunEnds \/ OpenSession \/ Look
  PROVE  PetCorrect' /\ ((Running(work) /\ ~Running(work') /\ ~work.inView)
                           => pet'.activity \in {"done", "error"} /\ pet'.activityTimer)
<1>0. /\ Numbered(work) /\ work \in Companies
      /\ work.was <=> Running(work)
      /\ \A k \in work.told : k \in Sessions \X Nat /\ k[2] \in Nat /\ k[2] <= work.runs
      /\ work.runs \in Nat /\ work.runs + 1 \in Nat
      /\ Running(work) => work.key[2] = work.runs /\ \A k \in work.told : k[2] < work.runs
  BY DEF PetCorrect, Numbered, Companies
<1>n. \A w \in Companies : Noted(w).run = w.run
  BY DEF Noted, Companies
<1>1. CASE RunStarts
  <2> DEFINE s == work.front
             w == [work EXCEPT !.run = s, !.doing = "thinking", !.key = <<s, work.runs + 1>>,
                               !.failed = @ \ {s}, !.runs = @ + 1]
  <2>1. ~Running(work) /\ Settled(pet, w)
    BY <1>1 DEF RunStarts
  <2>2. s \in Sessions /\ <<s, work.runs + 1>> \in Sessions \X Nat /\ "thinking" \in RunActivities
    BY <1>0 DEF Companies, RunActivities
  <2>3. /\ w \in Companies /\ w.was = work.was /\ w.told = work.told /\ w.runs = work.runs + 1
        /\ w.key = <<s, work.runs + 1>> /\ w.run = s
    BY <1>0, <2>2 DEF Companies
  <2> HIDE DEF w
  <2>4. PetCorrect'
    <3>1. \A k \in w.told : k[2] < w.runs
      BY <1>0, <2>3
    <3>2. w.key[2] = w.runs
      BY <2>3
    <3> QED
      BY <1>0, <2>1, <2>3, <3>1, <3>2, SettledIs
  <2> QED
    BY <2>1, <2>4
<1>2. CASE RunSteps
  <2>1. PICK d \in RunActivities : Running(work) /\ Settled(pet, [work EXCEPT !.doing = d])
    BY <1>2 DEF RunSteps
  <2> DEFINE w == [work EXCEPT !.doing = d]
  <2>2. /\ w \in Companies /\ w.was = work.was /\ w.told = work.told /\ w.runs = work.runs
        /\ w.key = work.key /\ w.run = work.run
    BY <1>0 DEF Companies
  <2>3. Settled(pet, w)
    BY <2>1
  <2> HIDE DEF w
  <2>4. PetCorrect'
    BY <1>0, <2>2, <2>3, SettledIs DEF Running
  <2>5. Running(work')
    BY <1>n, <2>1, <2>2, <2>3 DEF Settled, Running
  <2> QED
    BY <2>4, <2>5
<1>3. CASE RunEnds
  <2>1. PICK failed \in SUBSET Sessions :
          Running(work) /\ Settled(pet, [work EXCEPT !.run = NoSession, !.doing = "thinking", !.failed = failed])
    <3>1. PICK bad \in BOOLEAN :
            /\ Running(work)
            /\ Settled(pet, [work EXCEPT !.run = NoSession, !.doing = "thinking",
                                         !.failed = IF bad THEN @ \cup {work.run} ELSE @])
      BY <1>3 DEF RunEnds
    <3>2. (IF bad THEN work.failed \cup {work.run} ELSE work.failed) \in SUBSET Sessions
      BY <1>0, <3>1 DEF Companies, Running
    <3> QED
      BY <3>1, <3>2
  <2> DEFINE w == [work EXCEPT !.run = NoSession, !.doing = "thinking", !.failed = failed]
  <2>2. /\ w \in Companies /\ w.was = work.was /\ w.told = work.told /\ w.runs = work.runs
        /\ w.key = work.key /\ w.run = NoSession /\ w.inView = work.inView
    BY <1>0 DEF Companies, RunActivities
  <2>3. Settled(pet, w)
    BY <2>1
  <2> HIDE DEF w
  <2>4. ~Running(w) /\ w.key \notin w.told /\ w.key[2] <= w.runs
    BY <1>0, <2>1, <2>2 DEF Running
  <2> QED
    BY <1>0, <2>2, <2>3, <2>4, SettledIs
<1>4. CASE OpenSession
  <2>1. PICK s \in Sessions : Settled(pet, [work EXCEPT !.front = s])
    BY <1>4 DEF OpenSession
  <2> DEFINE w == [work EXCEPT !.front = s]
  <2>2. /\ w \in Companies /\ w.was = work.was /\ w.told = work.told /\ w.runs = work.runs
        /\ w.key = work.key /\ w.run = work.run
    BY <1>0 DEF Companies
  <2>3. Settled(pet, w)
    BY <2>1
  <2> HIDE DEF w
  <2>4. PetCorrect'
    BY <1>0, <2>2, <2>3, SettledIs DEF Running
  <2>5. Running(work) => Running(work')
    BY <1>n, <2>2, <2>3 DEF Settled, Running
  <2> QED
    BY <2>4, <2>5
<1>5. CASE Look
  <2> DEFINE seen == ~work.inView
             w == [work EXCEPT !.inView = seen]
  <2>1. Settled(pet, w) /\ seen \in BOOLEAN
    BY <1>5 DEF Look
  <2> HIDE DEF seen
  <2>2. /\ w \in Companies /\ w.was = work.was /\ w.told = work.told /\ w.runs = work.runs
        /\ w.key = work.key /\ w.run = work.run
    BY <1>0, <2>1 DEF Companies
  <2> HIDE DEF w
  <2>4. PetCorrect'
    BY <1>0, <2>1, <2>2, SettledIs DEF Running
  <2>5. Running(work) => Running(work')
    BY <1>n, <2>1, <2>2 DEF Settled, Running
  <2> QED
    BY <2>4, <2>5
<1> QED
  BY <1>1, <1>2, <1>3, <1>4, <1>5

\* A change of the character alone.
LEMMA AloneHolds ==
  ASSUME PetCorrect, work' \in Companies, work'.run = work.run, work'.was = work.was, work'.told = work.told,
         work'.runs = work.runs, work'.key = work.key,
         NEW p, Timed(p), p.activity \in RunActivities => Running(work), pet' = Landed(Seen(p, work))
  PROVE  PetCorrect' /\ (Running(work) => Running(work'))
<1>1. /\ Timed(pet')
      /\ pet'.form = "launching" => pet'.motion = "fly"
      /\ pet'.activity \in RunActivities => Running(work)
  BY ShownIs DEF PetCorrect, Numbered
<1>2. Running(work') <=> Running(work)
  BY DEF Running
<1>3. Numbered(work')
  BY <1>2 DEF PetCorrect, Numbered
<1> QED
  BY <1>1, <1>2, <1>3 DEF PetCorrect

LEMMA SearchHolds ==
  ASSUME PetCorrect, SearchStarts \/ SearchEnds \/ SearchLost
  PROVE  PetCorrect' /\ (Running(work) => Running(work'))
<1>0. /\ Timed(pet) /\ work \in Companies /\ pet \in Pets
      /\ pet.formTimer <=> pet.form \in {"bursting", "falling"}
  BY DEF PetCorrect, Numbered, Timed
<1>w. ASSUME NEW search \in {"none", "here", "lost"}, NEW n \in Nat, NEW w, w = [work EXCEPT !.search = search, !.searches = n]
      PROVE  /\ w \in Companies /\ w.run = work.run /\ w.was = work.was /\ w.told = work.told
             /\ w.runs = work.runs /\ w.key = work.key
  BY <1>0, <1>w DEF Companies
<1>1. CASE SearchStarts
  <2>1. /\ work' = [work EXCEPT !.search = "here", !.searches = work.searches + 1]
        /\ pet' = Landed(Seen(Occupied(pet, "searching", FALSE), work))
        /\ work.searches + 1 \in Nat
    BY <1>0, <1>1 DEF SearchStarts, Shown, Companies
  <2>2. PICK timed \in BOOLEAN : timed = FALSE
    OBVIOUS
  <2>3. "searching" \in Activities /\ (timed <=> "searching" \in {"done", "error"})
    BY <2>2 DEF Activities
  <2>4. LET q == Occupied(pet, "searching", timed) IN Timed(q) /\ q.activity \notin RunActivities
    BY <1>0, <2>3, OccupiedIs DEF RunActivities
  <2> QED
    BY <1>w, <2>1, <2>2, <2>4, AloneHolds
<1>2. CASE SearchEnds
  <2>1. PICK p \in {Completed(pet), Failed(pet), Rested(pet)} : pet' = Landed(Seen(p, work))
    BY <1>2 DEF SearchEnds, Shown
  <2>2. work' = [work EXCEPT !.search = "none", !.searches = work.searches] /\ work.searches \in Nat
    BY <1>0, <1>2 DEF SearchEnds, Companies
  <2>3. Timed(p) /\ p.activity \notin RunActivities
    BY <1>0, <2>1, CompletedIs, FailedIs, RestedIs DEF RunActivities
  <2> QED
    BY <1>w, <2>1, <2>2, <2>3, AloneHolds, ZenonT(20)
<1>3. CASE SearchLost
  <2>1. work' = [work EXCEPT !.search = "lost", !.searches = work.searches] /\ work.searches \in Nat /\ pet' = pet
    BY <1>0, <1>3 DEF SearchLost, Companies
  <2>2. /\ work' \in Companies /\ work'.run = work.run /\ work'.was = work.was /\ work'.told = work.told
        /\ work'.runs = work.runs /\ work'.key = work.key
    BY <1>w, <2>1
  <2>3. Running(work') <=> Running(work)
    BY <2>2 DEF Running
  <2> QED
    BY <2>1, <2>2, <2>3 DEF PetCorrect, Numbered
<1> QED
  BY <1>1, <1>2, <1>3

LEMMA TimersHold ==
  ASSUME PetCorrect, PetTimers
  PROVE  PetCorrect' /\ (Running(work) => Running(work'))
<1>0. /\ Timed(pet) /\ work \in Companies /\ pet \in Pets
      /\ pet.formTimer <=> pet.form \in {"bursting", "falling"}
      /\ pet.activity \in RunActivities => Running(work)
  BY DEF PetCorrect, Numbered, Timed
<1>a. ASSUME NEW p, Timed(p), p.activity \in RunActivities => Running(work), pet' = Landed(Seen(p, work)), work' = work
      PROVE  PetCorrect' /\ (Running(work) => Running(work'))
  BY <1>0, <1>a, AloneHolds
<1>1. CASE SpeechEnds
  <2>1. /\ Quiet(pet) \in Pets /\ Timed(Quiet(pet)) /\ Quiet(pet).activity = pet.activity
    BY <1>0 DEF Quiet, Timed, Pets, Tones
  <2> QED
    BY <1>0, <1>1, <1>a, <2>1 DEF SpeechEnds, Shown
<1>2. CASE ActivityEnds
  <2>1. Timed(Rested(pet)) /\ Rested(pet).activity \notin RunActivities
    BY <1>0, RestedIs DEF RunActivities
  <2> QED
    BY <1>2, <1>a, <2>1 DEF ActivityEnds, Shown
<1>3. CASE FaceEnds
  <2>1. Timed(Unmasked(pet)) /\ Unmasked(pet).activity = pet.activity
    BY <1>0 DEF Unmasked, Timed, Pets
  <2> QED
    BY <1>0, <1>3, <1>a, <2>1 DEF FaceEnds, Shown
<1>4. CASE MotionEnds
  <2> DEFINE b == [pet EXCEPT !.motionTimer = FALSE]
  <2>1. pet.motionTimer /\ pet' = Landed(Seen(Started(b), work)) /\ work' = work
    BY <1>4 DEF MotionEnds, Shown
  <2>2. pet.activity \notin RunActivities
    BY <1>0, <2>1 DEF Timed
  <2>3. /\ b \in Pets /\ ~b.motionTimer /\ b.activity = pet.activity /\ b.activityTimer = pet.activityTimer
        /\ b.speech = pet.speech /\ b.speechTimer = pet.speechTimer /\ b.face = pet.face /\ b.faceTimer = pet.faceTimer
        /\ b.form = pet.form /\ b.formTimer = pet.formTimer
    BY <1>0 DEF Pets
  <2> HIDE DEF b
  <2>4. Timed(Started(b)) /\ Started(b).activity = b.activity
    BY <1>0, <2>2, <2>3, StartedIs DEF Timed
  <2> QED
    BY <1>a, <2>1, <2>2, <2>3, <2>4
<1>5. CASE Falls
  <2> DEFINE b == [pet EXCEPT !.form = "falling"]
  <2>1. pet.formTimer /\ pet' = Landed(Seen(b, work)) /\ work' = work
    BY <1>5 DEF Falls, Shown
  <2>2. Timed(b) /\ b.activity = pet.activity
    BY <1>0, <2>1 DEF Timed, Pets
  <2> QED
    BY <1>0, <1>a, <2>1, <2>2
<1>6. CASE Launches
  <2> DEFINE p == Emoted([pet EXCEPT !.formTimer = FALSE, !.collapsed = FALSE])
             b == [p EXCEPT !.form = "launching"]
             c == [p EXCEPT !.form = "idle"]
  <2>1. /\ work' = work
        /\ pet' = IF p.activity = "idle" /\ p.motion = "idle" THEN Landed(Seen(Moved(b, <<"fly">>), work))
                  ELSE Landed(Seen(c, work))
    BY <1>6 DEF Launches, Shown
  <2>2. /\ p \in Pets /\ ~p.formTimer /\ p.face /\ p.faceTimer /\ p.motion = pet.motion /\ p.queue = pet.queue
        /\ p.motionTimer = pet.motionTimer /\ p.activity = pet.activity /\ p.activityTimer = pet.activityTimer
        /\ p.speech = pet.speech /\ p.speechTimer = pet.speechTimer
    BY <1>0 DEF Emoted, Pets
  <2> HIDE DEF p
  <2>3. Timed(b) /\ b.activity = pet.activity /\ Timed(c) /\ c.activity = pet.activity
    <3>1. /\ b \in Pets /\ b.form = "launching" /\ c \in Pets /\ c.form = "idle"
          /\ ~b.formTimer /\ b.face /\ b.faceTimer /\ b.motion = pet.motion /\ b.queue = pet.queue
          /\ b.motionTimer = pet.motionTimer /\ b.activity = pet.activity /\ b.activityTimer = pet.activityTimer
          /\ b.speech = pet.speech /\ b.speechTimer = pet.speechTimer
          /\ ~c.formTimer /\ c.face /\ c.faceTimer /\ c.motion = pet.motion /\ c.queue = pet.queue
          /\ c.motionTimer = pet.motionTimer /\ c.activity = pet.activity /\ c.activityTimer = pet.activityTimer
          /\ c.speech = pet.speech /\ c.speechTimer = pet.speechTimer
      BY <2>2 DEF Pets
    <3> HIDE DEF b, c
    <3> QED
      BY <1>0, <3>1 DEF Timed
  <2> HIDE DEF b, c
  <2>4. CASE p.activity = "idle" /\ p.motion = "idle"
    <3>1. "fly" \in Motions \ {"idle"} /\ b.activity \notin RunActivities
      BY <2>2, <2>3, <2>4 DEF Motions, RunActivities
    <3>2. Timed(Moved(b, <<"fly">>)) /\ Moved(b, <<"fly">>).activity = b.activity
      <4> DEFINE ms == <<"fly">>
      <4>1. ms # <<>> /\ Head(ms) = "fly" /\ Tail(ms) = <<>> /\ <<>> \in {<<>>, <<"wave">>}
        OBVIOUS
      <4> HIDE DEF ms
      <4>2. Timed(Moved(b, ms)) /\ Moved(b, ms).activity = b.activity
        BY <2>3, <3>1, <4>1, MovedIs
      <4> QED
        BY <4>2 DEF ms
    <3> QED
      BY <1>a, <2>1, <2>4, <3>1, <3>2
  <2>5. CASE ~(p.activity = "idle" /\ p.motion = "idle")
    BY <1>0, <1>a, <2>1, <2>3, <2>5
  <2> QED
    BY <2>4, <2>5
<1> QED
  BY <1>1, <1>2, <1>3, <1>4, <1>5, <1>6 DEF PetTimers

LEMMA PlayHolds ==
  ASSUME PetCorrect, Play \/ MakeFace \/ Expand \/ Collapse
  PROVE  PetCorrect' /\ (Running(work) => Running(work'))
<1>0. /\ Timed(pet) /\ work \in Companies /\ pet \in Pets
      /\ pet.formTimer <=> pet.form \in {"bursting", "falling"}
      /\ pet.activity \in RunActivities => Running(work)
  BY DEF PetCorrect, Numbered, Timed
<1>a. ASSUME NEW p, Timed(p), p.activity \in RunActivities => Running(work), Plays(p)
      PROVE  PetCorrect' /\ (Running(work) => Running(work'))
  <2>1. work' = [work EXCEPT !.plays = work.plays + 1] /\ work.plays + 1 \in Nat /\ pet' = Landed(Seen(p, work))
    BY <1>0, <1>a DEF Plays, Shown, Companies
  <2>2. /\ work' \in Companies /\ work'.run = work.run /\ work'.was = work.was /\ work'.told = work.told
        /\ work'.runs = work.runs /\ work'.key = work.key
    BY <1>0, <2>1 DEF Companies
  <2> QED
    BY <1>a, <2>1, <2>2, AloneHolds
<1>1. CASE Play
  <2>1. PICK m \in Motions \ {"idle"} : MayAct /\ Plays(Moved(pet, <<m>>))
    BY <1>1 DEF Play
  <2>2. pet.activity \notin RunActivities
    BY <1>0, <2>1 DEF MayAct
  <2>3. Timed(Moved(pet, <<m>>)) /\ Moved(pet, <<m>>).activity = pet.activity
    <3> DEFINE ms == <<m>>
    <3>1. ms # <<>> /\ Head(ms) = m /\ Tail(ms) = <<>> /\ <<>> \in {<<>>, <<"wave">>}
      OBVIOUS
    <3> HIDE DEF ms
    <3>2. Timed(Moved(pet, ms)) /\ Moved(pet, ms).activity = pet.activity
      BY <1>0, <2>2, <3>1, MovedIs
    <3> QED
      BY <3>2 DEF ms
  <2> QED
    BY <1>a, <2>1, <2>2, <2>3
<1>2. CASE MakeFace
  <2>1. Timed(Emoted(pet)) /\ Emoted(pet).activity = pet.activity
    BY <1>0 DEF Emoted, Timed, Pets
  <2> QED
    BY <1>0, <1>2, <1>a, <2>1 DEF MakeFace
<1>3. CASE Expand
  <2> DEFINE b == [pet EXCEPT !.collapsed = FALSE]
             c == [pet EXCEPT !.form = "bursting", !.formTimer = TRUE]
  <2>1. pet.form = "idle" /\ (Plays(b) \/ Plays(c))
    BY <1>3 DEF Expand
  <2>2. Timed(b) /\ b.activity = pet.activity
    BY <1>0 DEF Timed, Pets
  <2>3. Timed(c) /\ c.activity = pet.activity
    BY <1>0 DEF Timed, Pets
  <2> HIDE DEF b, c
  <2> QED
    BY <1>0, <1>a, <2>1, <2>2, <2>3
<1>4. CASE Collapse
  <2> DEFINE b == [pet EXCEPT !.form = "idle", !.formTimer = FALSE, !.collapsed = TRUE]
  <2>1. Plays(b)
    BY <1>4 DEF Collapse
  <2>2. Timed(b) /\ b.activity = pet.activity
    BY <1>0 DEF Timed, Pets
  <2> HIDE DEF b
  <2> QED
    BY <1>0, <1>a, <2>1, <2>2
<1> QED
  BY <1>1, <1>2, <1>3, <1>4

LEMMA PetNextHolds ==
  ASSUME PetCorrect, PetCharacterNext
  PROVE  PetCorrect' /\ ((Running(work) /\ ~Running(work') /\ ~work.inView)
                           => pet'.activity \in {"done", "error"} /\ pet'.activityTimer)
BY ConversationHolds, SearchHolds, TimersHold, PlayHolds DEF PetCharacterNext

\* What the character does, says and queues agrees with its timers and its run,
\* whatever runs, searches and plays go on (pet-agent.ts, the effects of pet.tsx).
THEOREM PetHolds == PetCharacterSpec => []PetConsistent
<1>1. PetCorrect /\ [PetCharacterNext]_petVars => PetCorrect'
  <2>1. PetCorrect /\ UNCHANGED petVars => PetCorrect'
    BY DEF petVars, PetCorrect
  <2> QED
    BY <2>1, PetNextHolds
<1> QED
  BY <1>1, PetInitHolds, PetIs, PTL DEF PetCharacterSpec

\* A run that ends where no answer is in view is announced, however often the
\* conversation ran before (pet.tsx, the effect that follows the run).
THEOREM EndIsTold == PetCharacterSpec => RunEndIsTold
<1>1. PetCorrect /\ [PetCharacterNext]_petVars => PetCorrect'
  <2>1. PetCorrect /\ UNCHANGED petVars => PetCorrect'
    BY DEF petVars, PetCorrect
  <2> QED
    BY <2>1, PetNextHolds
<1>2. PetCorrect /\ [PetCharacterNext]_petVars
        => [(Running(work) /\ ~Running(work') /\ ~work.inView)
              => pet'.activity \in {"done", "error"} /\ pet'.activityTimer]_petVars
  BY PetNextHolds
<1> QED
  BY <1>1, <1>2, PetInitHolds, PTL DEF PetCharacterSpec, RunEndIsTold

(***************************************************************************)
(* The panel (PetPanel).                                                   *)
(***************************************************************************)
Spots == {"home", "left", "right", "corner", "reset"}
Places == [at : Spots, free : Spots \cup {None}, placed : BOOLEAN, frame : BOOLEAN, stored : Spots \cup {None},
           user : Spots]
Details == [of : Nodes \cup {None}, from : {"none", "patch", "search"}]
Fetches == [of : Nodes, alive : BOOLEAN]
Answers == Threads \cup {Draft, None}
PanelFields ==
  {"mode", "path", "section", "open", "view", "preview", "actions", "context", "detailWaits",
   "askWaits", "there", "trail", "detail", "failed", "fetches", "patches", "history", "draft",
   "answer", "observed", "front", "source"}
Panel(p) ==
  /\ DOMAIN p = PanelFields
  /\ p.mode \in {"normal", "explore"}
  /\ p.path \in Paths
  /\ p.section \in Sections
  /\ p.open \in BOOLEAN
  /\ p.view \in {"workspace", "settings"}
  /\ p.preview \in BOOLEAN
  /\ p.actions \in BOOLEAN
  /\ p.context \in Sections \cup {None}
  /\ p.detailWaits \in Nodes \cup {None}
  /\ p.askWaits \in Nodes \cup {None}
  /\ p.there \in BOOLEAN
  /\ p.trail \in Seq(Nodes \cup Papers)
  /\ p.detail \in Details
  /\ p.failed \in BOOLEAN
  /\ p.fetches \in SUBSET Fetches
  /\ p.patches \in Seq(Nodes)
  /\ p.history \in BOOLEAN
  /\ p.draft \in Nodes \cup {None}
  /\ p.answer \in Answers
  /\ p.observed \in Threads \cup {None}
  /\ p.front \in Answers
  /\ p.source \in {None, "a source"}

LEMMA PanelNames ==
  /\ "mode" \in PanelFields
  /\ "path" \in PanelFields
  /\ "section" \in PanelFields
  /\ "open" \in PanelFields
  /\ "view" \in PanelFields
  /\ "preview" \in PanelFields
  /\ "actions" \in PanelFields
  /\ "context" \in PanelFields
  /\ "detailWaits" \in PanelFields
  /\ "askWaits" \in PanelFields
  /\ "there" \in PanelFields
  /\ "trail" \in PanelFields
  /\ "detail" \in PanelFields
  /\ "failed" \in PanelFields
  /\ "fetches" \in PanelFields
  /\ "patches" \in PanelFields
  /\ "history" \in PanelFields
  /\ "draft" \in PanelFields
  /\ "answer" \in PanelFields
  /\ "observed" \in PanelFields
  /\ "front" \in PanelFields
  /\ "source" \in PanelFields
BY DEF PanelFields

\* Of a panel: what it loads is about its target.
Loads(p) ==
  /\ p.detail.of # None => Target(p) = p.detail.of
  /\ (p.there /\ Target(p) \in Nodes)
       => \/ p.detail.of # None \/ p.failed
          \/ \E f \in p.fetches : f.alive /\ f.of = Target(p)
  /\ \A f \in p.fetches : f.alive => f.of = Target(p)
\* Of a panel: nothing waits for one that is there, and none is without its target.
Attentive(p) ==
  /\ p.there => p.detailWaits = None /\ p.askWaits = None
  /\ ~p.there => p.trail = <<>>
InView(p) ==
  /\ p.there <=> (p.mode = "explore" /\ p.open)
  /\ p.context # None => p.there /\ p.view = "workspace" /\ p.section = p.context
\* The place of the exploration is taken and given back by a frame to come.
PlaceKept(mode, q) ==
  /\ q \in Places
  /\ mode = "explore" /\ ~q.placed => q.frame
  /\ mode = "normal" /\ q.placed => q.frame
  /\ q.placed => q.free = q.user
  /\ ~q.placed => q.at = q.user
PanelSound(p) == Panel(p) /\ Loads(p) /\ Attentive(p) /\ InView(p)
PanelCorrect == PanelSound(panel) /\ PlaceKept(panel.mode, place)

LEMMA PanelIs == PanelCorrect => PanelConsistent
<1> SUFFICES ASSUME PanelCorrect
             PROVE  PanelConsistent
  OBVIOUS
<1>1. Panel(panel) /\ Loads(panel) /\ Attentive(panel) /\ InView(panel) /\ PlaceKept(panel.mode, place)
  BY DEF PanelCorrect, PanelSound
<1>2. PanelTypeOK
  BY <1>1, PanelNames DEF Panel, PanelTypeOK, Answers, Details
<1>3. NothingWaits
  BY <1>1 DEF Attentive, NothingWaits
<1>4. DetailIsTargets
  BY <1>1 DEF Loads, DetailIsTargets
<1>5. ContextInView
  BY <1>1 DEF InView, ContextInView
<1>6. PlaceComesBack
  BY <1>1 DEF PlaceKept, PlaceComesBack
<1> QED
  BY <1>2, <1>3, <1>4, <1>5, <1>6 DEF PanelConsistent

(***************************************************************************)
(* The handlers: what they leave alone of a panel that still waits for its  *)
(* render.                                                                 *)
(***************************************************************************)
Like(q, p) ==
  /\ q.there = p.there /\ q.detail = p.detail /\ q.failed = p.failed /\ q.fetches = p.fetches
  /\ q.detailWaits = p.detailWaits /\ q.askWaits = p.askWaits
Sketch(p) ==
  /\ Panel(p) /\ Attentive(p)
  /\ p.there = panel.there /\ p.detail = panel.detail /\ p.failed = panel.failed /\ p.fetches = panel.fetches

LEMMA EnteredIs ==
  ASSUME NEW p, Panel(p), NEW section \in Sections \cup {None}, NEW q, q = Entered(p, section)
  PROVE  /\ Panel(q) /\ q.mode = "explore" /\ Like(q, p) /\ q.trail = p.trail /\ q.open = p.open /\ q.view = p.view
         /\ q.preview = p.preview
<1> DEFINE s == IF section # None THEN section
                ELSE IF PathSection(p.path) # None THEN PathSection(p.path) ELSE p.section
<1>1. s \in Sections
  BY PanelNames DEF Panel, PathSection, Sections
<1>2. q = [p EXCEPT !.mode = "explore", !.section = s]
  BY DEF Entered
<1> HIDE DEF s
<1> QED
  BY <1>1, <1>2, PanelNames DEF Panel, Like

LEMMA YieldedIs ==
  ASSUME NEW p, Panel(p), NEW q, q = Yielded(p)
  PROVE  Panel(q) /\ Like(q, p) /\ q.trail = p.trail /\ q.mode = p.mode /\ ~q.open
BY PanelNames DEF Panel, Yielded, Like

LEMMA OpenedIs ==
  ASSUME NEW p, Panel(p), NEW q, q = Opened(p)
  PROVE  Panel(q) /\ Like(q, p) /\ q.trail = p.trail /\ q.mode = p.mode /\ q.open
BY PanelNames DEF Panel, Opened, Like

LEMMA WithDetailIs ==
  ASSUME NEW p, Panel(p), NEW target \in Nodes \cup Papers, NEW q, q = WithDetail(p, target)
  PROVE  Panel(q) /\ Like(q, p) /\ q.mode = p.mode /\ q.open = p.open
<1>1. <<target>> \in Seq(Nodes \cup Papers)
  OBVIOUS
<1> QED
  BY <1>1, PanelNames DEF Panel, WithDetail, Like

LEMMA WithAskIs ==
  ASSUME NEW p, Panel(p), NEW target \in Nodes, NEW q, q = WithAsk(p, target)
  PROVE  Panel(q) /\ Like(q, p) /\ q.mode = "explore" /\ q.open = p.open /\ q.trail = <<>>
<1> DEFINE r == [p EXCEPT !.view = "workspace", !.history = FALSE, !.trail = <<>>, !.draft = target]
<1>1. <<>> \in Seq(Nodes \cup Papers)
  OBVIOUS
<1>2. Panel(r) /\ Like(r, p) /\ r.open = p.open /\ r.trail = <<>>
  BY <1>1, PanelNames DEF Panel, Like
<1> HIDE DEF r
<1>3. q = Entered(r, "answer") /\ "answer" \in Sections \cup {None}
  BY DEF WithAsk, r, Sections
<1> QED
  BY <1>2, <1>3, EnteredIs DEF Like

LEMMA AfterModeIs ==
  ASSUME NEW p, Panel(p), NEW old, NEW q, q = AfterMode(p, old)
  PROVE  Panel(q) /\ Like(q, p) /\ q.trail = p.trail /\ q.mode = p.mode
<1>1. CASE p.mode = old.mode
  BY <1>1 DEF AfterMode, Like
<1>2. CASE p.mode # old.mode
  <2> DEFINE r == Yielded(p)
             v == IF p.mode = "normal" THEN "workspace" ELSE r.view
  <2>1. Panel(r) /\ Like(r, p) /\ r.trail = p.trail /\ r.mode = p.mode
    BY YieldedIs
  <2>2. v \in {"workspace", "settings"}
    BY <2>1, PanelNames DEF Panel
  <2>3. q = [r EXCEPT !.view = v]
    BY <1>2 DEF AfterMode
  <2> HIDE DEF r, v
  <2>4. /\ Panel(q) /\ q.trail = r.trail /\ q.mode = r.mode /\ q.there = r.there /\ q.detail = r.detail
        /\ q.failed = r.failed /\ q.fetches = r.fetches /\ q.detailWaits = r.detailWaits /\ q.askWaits = r.askWaits
    BY <2>1, <2>2, <2>3, PanelNames DEF Panel
  <2> QED
    BY <2>1, <2>4 DEF Like
<1> QED
  BY <1>1, <1>2

\* Mounted takes what waits, or forgets.
LEMMA MountedIs ==
  ASSUME NEW p, Panel(p), Attentive(p), NEW q, q = Mounted(p)
  PROVE  /\ Panel(q) /\ Attentive(q) /\ q.mode = p.mode /\ q.open = p.open
         /\ q.detail = p.detail /\ q.failed = p.failed /\ q.fetches = p.fetches
         /\ q.there <=> (q.mode = "explore" /\ q.open)
<1> DEFINE there == p.mode = "explore" /\ p.open
           a == IF p.detailWaits # None THEN WithDetail(p, p.detailWaits) ELSE p
           b == IF p.askWaits # None THEN WithAsk(a, p.askWaits) ELSE a
<1>1. p.detailWaits \in Nodes \cup {None} /\ p.askWaits \in Nodes \cup {None}
  BY PanelNames DEF Panel
<1>2. Panel(a) /\ Like(a, p) /\ a.mode = p.mode /\ a.open = p.open
  <2>1. CASE p.detailWaits # None
    BY <1>1, <2>1, WithDetailIs
  <2>2. CASE p.detailWaits = None
    BY <2>2 DEF Like
  <2> QED
    BY <2>1, <2>2
<1> HIDE DEF a
<1>3. Panel(b) /\ Like(b, p) /\ b.open = p.open /\ (there => b.mode = p.mode)
  <2>1. CASE p.askWaits # None
    BY <1>1, <1>2, <2>1, WithAskIs DEF Like
  <2>2. CASE p.askWaits = None
    BY <1>2, <2>2
  <2> QED
    BY <2>1, <2>2
<1> HIDE DEF b
<1>4. CASE there /\ ~p.there
  <2>1. q = [b EXCEPT !.there = TRUE, !.detailWaits = None, !.askWaits = None]
    BY <1>4 DEF Mounted, a, b
  <2>2. /\ Panel(q) /\ q.there = TRUE /\ q.detailWaits = None /\ q.askWaits = None /\ q.mode = b.mode /\ q.open = b.open
        /\ q.detail = b.detail /\ q.failed = b.failed /\ q.fetches = b.fetches
    BY <1>3, <2>1, PanelNames DEF Panel
  <2> QED
    BY <1>3, <1>4, <2>2 DEF Like, Attentive
<1>5. CASE (there /\ p.there) \/ (~there /\ ~p.there)
  <2>1. q = p
    BY <1>5 DEF Mounted
  <2> QED
    BY <1>5, <2>1
<1>6. CASE ~there /\ p.there
  <2>1. q = [p EXCEPT !.there = FALSE, !.trail = <<>>, !.history = FALSE, !.draft = None,
                      !.answer = None, !.observed = None, !.patches = <<>>]
    BY <1>6 DEF Mounted
  <2>2. <<>> \in Seq(Nodes \cup Papers) /\ <<>> \in Seq(Nodes)
    OBVIOUS
  <2>3. Panel(q) /\ ~q.there /\ q.trail = <<>> /\ q.mode = p.mode /\ q.open = p.open
        /\ q.detail = p.detail /\ q.failed = p.failed /\ q.fetches = p.fetches
    BY <2>1, <2>2, PanelNames DEF Panel, Answers
  <2> QED
    BY <1>6, <2>3 DEF Attentive
<1> QED
  BY <1>4, <1>5, <1>6

LEMMA ContextIs ==
  ASSUME NEW p, Panel(p), Attentive(p), p.there <=> (p.mode = "explore" /\ p.open), NEW q, q = Context(p)
  PROVE  Panel(q) /\ Attentive(q) /\ InView(q) /\ Like(q, p) /\ q.mode = p.mode /\ q.trail = p.trail
<1> DEFINE c == IF /\ p.mode = "explore" /\ p.open /\ p.view = "workspace"
                   /\ ~p.preview /\ p.section \in {"search", "answer"}
                THEN p.section ELSE None
<1>1. c \in Sections \cup {None} /\ (c # None => p.there /\ p.view = "workspace" /\ p.section = c)
  BY PanelNames DEF Panel
<1>2. q = [p EXCEPT !.context = c]
  BY DEF Context
<1> HIDE DEF c
<1>3. /\ Panel(q) /\ q.context = c /\ Like(q, p) /\ q.mode = p.mode /\ q.trail = p.trail /\ q.open = p.open
      /\ q.view = p.view /\ q.section = p.section
  BY <1>1, <1>2, PanelNames DEF Panel, Like
<1> QED
  BY <1>1, <1>3 DEF Attentive, InView, Like

LEMMA TargetIs ==
  ASSUME NEW p, Panel(p)
  PROVE  /\ Target(p) \in Nodes \cup Papers \cup {None}
         /\ \A q : q.trail = p.trail => Target(q) = Target(p)
         /\ p.trail = <<>> => Target(p) = None
<1>1. p.trail \in Seq(Nodes \cup Papers)
  BY PanelNames DEF Panel
<1> QED
  BY <1>1 DEF Target, Last

LEMMA FetchesAre ==
  ASSUME NEW p, Panel(p), NEW fetches \in SUBSET Fetches, NEW q, q = [p EXCEPT !.fetches = fetches]
  PROVE  /\ Panel(q) /\ q.fetches = fetches /\ q.detail = p.detail /\ q.failed = p.failed
         /\ q.there = p.there /\ q.trail = p.trail /\ q.mode = p.mode /\ q.open = p.open
         /\ q.view = p.view /\ q.section = p.section /\ q.context = p.context
         /\ q.detailWaits = p.detailWaits /\ q.askWaits = p.askWaits
BY PanelNames DEF Panel

LEMMA LoadingIs ==
  ASSUME NEW p, Panel(p), NEW q, q = Loading(p)
  PROVE  /\ Panel(q) /\ Loads(q) /\ q.there = p.there /\ q.trail = p.trail /\ q.mode = p.mode /\ q.open = p.open
         /\ q.view = p.view /\ q.section = p.section /\ q.context = p.context
         /\ q.detailWaits = p.detailWaits /\ q.askWaits = p.askWaits
<1> DEFINE new == IF Target(p) \in Nodes THEN {[of |-> Target(p), alive |-> TRUE]} ELSE {}
           fetches == Dead(p) \cup new
<1>a. p.fetches \in SUBSET Fetches
  BY PanelNames DEF Panel
<1>1. \A f \in Dead(p) : f \in Fetches /\ ~f.alive
  <2> SUFFICES ASSUME NEW f \in Dead(p)
               PROVE  f \in Fetches /\ ~f.alive
    OBVIOUS
  <2>1. PICK g \in p.fetches : f = [g EXCEPT !.alive = FALSE]
    BY DEF Dead
  <2>2. g \in Fetches
    BY <1>a, <2>1
  <2> QED
    BY <2>1, <2>2 DEF Fetches
<1>2. \A f \in new : f \in Fetches /\ f.alive /\ f.of = Target(p)
  <2>1. ASSUME NEW f \in new
        PROVE  Target(p) \in Nodes /\ f = [of |-> Target(p), alive |-> TRUE]
    OBVIOUS
  <2>2. ASSUME NEW t \in Nodes, NEW f, f = [of |-> t, alive |-> TRUE]
        PROVE  f \in Fetches /\ f.alive /\ f.of = t
    BY <2>2 DEF Fetches
  <2> HIDE DEF new
  <2> QED
    BY <2>1, <2>2
<1>3. Target(p) \in Nodes => \E f \in new : f.alive /\ f.of = Target(p)
  <2> SUFFICES ASSUME Target(p) \in Nodes
               PROVE  \E f \in new : f.alive /\ f.of = Target(p)
    OBVIOUS
  <2> WITNESS [of |-> Target(p), alive |-> TRUE] \in new
  <2> QED
    OBVIOUS
<1>5. PICK d \in Details : d.of = None /\ d = NoDetail
  BY DEF NoDetail, Details
<1>4. q = [p EXCEPT !.detail = d, !.failed = FALSE, !.fetches = fetches]
  <2>1. CASE Target(p) \in Nodes
    BY <1>5, <2>1 DEF Loading
  <2>2. CASE Target(p) \notin Nodes
    <3>1. fetches = Dead(p)
      BY <2>2
    <3> QED
      BY <1>5, <2>2, <3>1 DEF Loading
  <2> QED
    BY <2>1, <2>2
<1> HIDE DEF new
<1>e. fetches \in SUBSET Fetches
  BY <1>1, <1>2
<1>6. \A f \in fetches : f.alive => f.of = Target(p)
  BY <1>1, <1>2
<1>7. Target(p) \in Nodes => \E f \in fetches : f.alive /\ f.of = Target(p)
  BY <1>3
<1> HIDE DEF fetches
<1>b. PICK failed \in BOOLEAN : failed = FALSE
  OBVIOUS
<1>c. PICK r : r = [p EXCEPT !.detail = d, !.failed = failed]
  OBVIOUS
<1>d. q = [r EXCEPT !.fetches = fetches]
  BY <1>4, <1>b, <1>c
<1>f. /\ Panel(r) /\ r.detail = d /\ r.failed = failed /\ r.fetches = p.fetches
      /\ r.there = p.there /\ r.trail = p.trail /\ r.mode = p.mode /\ r.open = p.open
      /\ r.view = p.view /\ r.section = p.section /\ r.context = p.context
      /\ r.detailWaits = p.detailWaits /\ r.askWaits = p.askWaits
  BY <1>c, PanelNames DEF Panel
<1>8. /\ Panel(q) /\ q.there = p.there /\ q.trail = p.trail /\ q.mode = p.mode /\ q.open = p.open
      /\ q.view = p.view /\ q.section = p.section /\ q.context = p.context
      /\ q.detailWaits = p.detailWaits /\ q.askWaits = p.askWaits
      /\ q.detail = d /\ q.fetches = fetches
  BY <1>d, <1>e, <1>f, FetchesAre
<1>9. Target(q) = Target(p)
  BY <1>8, TargetIs
<1>10. Loads(q)
  BY <1>5, <1>6, <1>7, <1>8, <1>9 DEF Loads
<1> QED
  BY <1>8, <1>10

LEMMA AnsweringIs ==
  ASSUME NEW p, Panel(p), NEW q, q = Answering(p)
  PROVE  /\ Panel(q) /\ Like(q, p) /\ q.trail = p.trail /\ q.mode = p.mode /\ q.open = p.open
         /\ q.view = p.view /\ q.section = p.section /\ q.context = p.context
<1> DEFINE route == RouteThread(p.path)
           a == IF route # p.observed /\ route # None THEN route
                ELSE IF p.answer # None THEN p.answer
                ELSE IF p.front # None THEN p.front
                ELSE IF Threads # {} THEN CHOOSE t \in Threads : TRUE
                ELSE IF p.section = "answer" THEN Draft ELSE None
           front == IF p.section = "answer" /\ a # None THEN a ELSE p.front
<1>1. p.answer \in Answers /\ p.front \in Answers
  BY PanelNames DEF Panel
<1>2. route \in Threads \cup {None}
  BY DEF RouteThread
<1>3. a \in Answers
  <2>1. Threads # {} => (CHOOSE t \in Threads : TRUE) \in Threads
    OBVIOUS
  <2> HIDE DEF route
  <2> QED
    BY <1>1, <1>2, <2>1 DEF Answers
<1>4. CASE ~p.there
  <2>1. q = p
    BY <1>4 DEF Answering
  <2> QED
    BY <2>1 DEF Like
<1>5. CASE p.there
  <2>1. q = [p EXCEPT !.observed = route, !.answer = a, !.front = front]
    BY <1>5 DEF Answering
  <2> HIDE DEF a
  <2>2. front \in Answers
    BY <1>1, <1>3
  <2> HIDE DEF route, front
  <2>3. /\ Panel(q) /\ q.trail = p.trail /\ q.mode = p.mode /\ q.open = p.open
        /\ q.view = p.view /\ q.section = p.section /\ q.context = p.context
        /\ q.there = p.there /\ q.detail = p.detail /\ q.failed = p.failed /\ q.fetches = p.fetches
        /\ q.detailWaits = p.detailWaits /\ q.askWaits = p.askWaits
    BY <1>2, <1>3, <2>1, <2>2, PanelNames DEF Panel
  <2> QED
    BY <2>3 DEF Like
<1> QED
  BY <1>4, <1>5

\* A render, whatever the handlers left it, keeps the panel sound.
LEMMA RenderedHolds ==
  ASSUME PanelSound(panel), NEW p, Sketch(p), Rendered(p)
  PROVE  PanelSound(panel') /\ panel'.mode = p.mode
<1>1. /\ Panel(p) /\ Attentive(p)
      /\ p.there = panel.there /\ p.detail = panel.detail /\ p.failed = panel.failed /\ p.fetches = panel.fetches
  BY DEF Sketch
<1>2. PICK a : a = AfterMode(p, panel)
  OBVIOUS
<1>3. Panel(a) /\ Like(a, p) /\ a.trail = p.trail /\ a.mode = p.mode
  BY <1>1, <1>2, AfterModeIs
<1>4. /\ Attentive(a) /\ a.there = panel.there /\ a.detail = panel.detail /\ a.failed = panel.failed
      /\ a.fetches = panel.fetches
  BY <1>1, <1>3 DEF Attentive, Like
<1>5. PICK b : b = Mounted(a)
  OBVIOUS
<1>6. /\ Panel(b) /\ Attentive(b) /\ b.mode = a.mode
      /\ b.detail = a.detail /\ b.failed = a.failed /\ b.fetches = a.fetches
      /\ b.there <=> (b.mode = "explore" /\ b.open)
  BY <1>3, <1>4, <1>5, MountedIs
<1>7. PICK c : c = Context(b)
  OBVIOUS
<1>8. Panel(c) /\ Attentive(c) /\ InView(c) /\ Like(c, b) /\ c.mode = b.mode /\ c.trail = b.trail
  BY <1>6, <1>7, ContextIs
<1>9. c.detail = panel.detail /\ c.failed = panel.failed /\ c.fetches = panel.fetches
  BY <1>4, <1>6, <1>8 DEF Like
<1>10. PICK e : e = AfterTarget(c, panel)
  OBVIOUS
<1>11. Panel(e) /\ Attentive(e) /\ InView(e) /\ Loads(e) /\ e.mode = c.mode
  <2>1. CASE Target(c) = Target(panel) /\ c.there = panel.there
    <3>1. e = c
      BY <1>10, <2>1 DEF AfterTarget
    <3>2. Loads(panel)
      BY DEF PanelSound
    <3>3. Loads(c)
      BY <1>9, <2>1, <3>2 DEF Loads
    <3> QED
      BY <1>8, <3>1, <3>3
  <2>2. CASE ~(Target(c) = Target(panel) /\ c.there = panel.there)
    <3>1. e = Loading(c)
      BY <1>10, <2>2 DEF AfterTarget
    <3>2. /\ Panel(e) /\ Loads(e) /\ e.there = c.there /\ e.trail = c.trail /\ e.mode = c.mode /\ e.open = c.open
          /\ e.view = c.view /\ e.section = c.section /\ e.context = c.context
          /\ e.detailWaits = c.detailWaits /\ e.askWaits = c.askWaits
      BY <1>8, <3>1, LoadingIs
    <3> QED
      BY <1>8, <3>2 DEF Attentive, InView
  <2> QED
    BY <2>1, <2>2
<1>12. PICK g : g = Answering(e)
  OBVIOUS
<1>13. /\ Panel(g) /\ Like(g, e) /\ g.trail = e.trail /\ g.mode = e.mode /\ g.open = e.open
       /\ g.view = e.view /\ g.section = e.section /\ g.context = e.context
  BY <1>11, <1>12, AnsweringIs
<1>14. Target(g) = Target(e)
  BY <1>11, <1>13, TargetIs
<1>15. Attentive(g) /\ InView(g) /\ Loads(g)
  BY <1>11, <1>13, <1>14 DEF Attentive, InView, Loads, Like
<1>16. panel' = g
  BY <1>2, <1>5, <1>7, <1>10, <1>12 DEF Rendered
<1> QED
  BY <1>3, <1>6, <1>8, <1>11, <1>13, <1>15, <1>16 DEF PanelSound

LEMMA SketchIs ==
  ASSUME PanelSound(panel), NEW p, Panel(p), Like(p, panel),
         p.trail = panel.trail \/ panel.there \/ p.trail = <<>>
  PROVE  Sketch(p)
BY DEF PanelSound, Sketch, Like, Attentive

\* A render that leaves the mode leaves the place; one that may change it asks for a frame.
LEMMA RenderIs ==
  ASSUME PanelCorrect, NEW p, Sketch(p), Rendered(p), (Idle /\ p.mode = panel.mode) \/ NextFrame
  PROVE  PanelCorrect'
<1>1. PanelSound(panel) /\ PlaceKept(panel.mode, place)
  BY DEF PanelCorrect
<1>2. PanelSound(panel') /\ panel'.mode = p.mode
  BY <1>1, RenderedHolds
<1>3. CASE Idle /\ p.mode = panel.mode
  <2>1. place' = place
    BY <1>3 DEF Idle
  <2> QED
    BY <1>1, <1>2, <1>3, <2>1 DEF PanelCorrect
<1>4. CASE NextFrame
  <2>1. place' = [place EXCEPT !.frame = TRUE]
    BY <1>4 DEF NextFrame
  <2>2. place \in Places
    BY <1>1 DEF PlaceKept
  <2>3. /\ place' \in Places /\ place'.frame = TRUE /\ place'.at = place.at /\ place'.free = place.free
        /\ place'.placed = place.placed /\ place'.user = place.user
    BY <2>1, <2>2 DEF Places
  <2>4. PlaceKept(panel'.mode, place')
    BY <1>1, <2>3 DEF PlaceKept
  <2> QED
    BY <1>2, <2>4 DEF PanelCorrect
<1> QED
  BY <1>3, <1>4

LEMMA PanelStarts == PetPanelInit => PanelCorrect
<1> SUFFICES ASSUME PetPanelInit
             PROVE  PanelCorrect
  OBVIOUS
<1>1. PICK path \in Paths, section \in Sections, mode \in {"normal", "explore"} :
       panel = [mode |-> mode, path |-> path, section |-> section, open |-> FALSE, view |-> "workspace",
                preview |-> FALSE, actions |-> FALSE, context |-> None, detailWaits |-> None,
                askWaits |-> None, there |-> FALSE, trail |-> <<>>, detail |-> NoDetail, failed |-> FALSE,
                fetches |-> {}, patches |-> <<>>, history |-> FALSE, draft |-> None, answer |-> None,
                observed |-> None, front |-> None, source |-> None]
  BY DEF PetPanelInit
<1>2. NoDetail \in Details /\ NoDetail.of = None
  BY DEF NoDetail, Details
<1>3. <<>> \in Seq(Nodes \cup Papers) /\ <<>> \in Seq(Nodes)
  OBVIOUS
<1>4. {} \in SUBSET Fetches /\ None \in Answers
  BY DEF Answers
<1>5. Panel(panel)
  <2>1. DOMAIN panel = PanelFields
    BY <1>1 DEF PanelFields
  <2>2. /\ panel.mode \in {"normal", "explore"} /\ panel.path \in Paths /\ panel.section \in Sections
        /\ panel.open \in BOOLEAN /\ panel.view \in {"workspace", "settings"} /\ panel.preview \in BOOLEAN
        /\ panel.actions \in BOOLEAN /\ panel.context \in Sections \cup {None}
    BY <1>1
  <2>3. /\ panel.detailWaits \in Nodes \cup {None} /\ panel.askWaits \in Nodes \cup {None}
        /\ panel.there \in BOOLEAN /\ panel.trail \in Seq(Nodes \cup Papers) /\ panel.detail \in Details
        /\ panel.failed \in BOOLEAN /\ panel.fetches \in SUBSET Fetches /\ panel.patches \in Seq(Nodes)
    BY <1>1, <1>2, <1>3, <1>4
  <2>4. /\ panel.history \in BOOLEAN /\ panel.draft \in Nodes \cup {None} /\ panel.answer \in Answers
        /\ panel.observed \in Threads \cup {None} /\ panel.front \in Answers /\ panel.source \in {None, "a source"}
    BY <1>1, <1>4
  <2> QED
    BY <2>1, <2>2, <2>3, <2>4 DEF Panel
<1>6. /\ panel.there = FALSE /\ panel.open = FALSE /\ panel.context = None /\ panel.trail = <<>>
      /\ panel.detail = NoDetail /\ panel.fetches = {}
  BY <1>1
<1>7. Loads(panel) /\ Attentive(panel) /\ InView(panel)
  BY <1>2, <1>6 DEF Loads, Attentive, InView
<1>8. place = [at |-> "home", free |-> None, placed |-> FALSE, frame |-> TRUE, stored |-> None, user |-> "home"]
  BY DEF PetPanelInit
<1>9. PlaceKept(panel.mode, place)
  BY <1>8 DEF PlaceKept, Places, Spots
<1> QED
  BY <1>5, <1>7, <1>9 DEF PanelCorrect, PanelSound
(***************************************************************************)
(* The actions that render.                                                *)
(***************************************************************************)
LEMMA ShellActs ==
  ASSUME PanelCorrect, Navigate \/ EnterExplore \/ LeaveExplore \/ OpenWorkspace \/ OpenSettings \/ OpenActions \/ CloseActions
  PROVE  PanelCorrect'
<1>1. PanelSound(panel) /\ Panel(panel)
  BY DEF PanelCorrect, PanelSound
<1>2. CASE Navigate
  <2>1. PICK path \in Paths : Rendered([panel EXCEPT !.path = path]) /\ Idle
    BY <1>2 DEF Navigate
  <2>2. PICK p : p = [panel EXCEPT !.path = path]
    OBVIOUS
  <2>3. Panel(p) /\ Like(p, panel) /\ p.trail = panel.trail /\ p.mode = panel.mode
    BY <1>1, <2>2, PanelNames DEF Panel, Like
  <2> QED
    BY <1>1, <2>1, <2>2, <2>3, SketchIs, RenderIs
<1>3. CASE EnterExplore
  <2>1. PICK p : p = Entered(panel, None)
    OBVIOUS
  <2>2. Panel(p) /\ Like(p, panel) /\ p.trail = panel.trail
    BY <1>1, <2>1, EnteredIs
  <2> QED
    BY <1>1, <1>3, <2>1, <2>2, SketchIs, RenderIs DEF EnterExplore
<1>4. CASE LeaveExplore
  <2>1. PICK p : p = [panel EXCEPT !.mode = "normal"]
    OBVIOUS
  <2>2. Panel(p) /\ Like(p, panel) /\ p.trail = panel.trail
    BY <1>1, <2>1, PanelNames DEF Panel, Like
  <2> QED
    BY <1>1, <1>4, <2>1, <2>2, SketchIs, RenderIs DEF LeaveExplore
<1>5. CASE OpenWorkspace
  <2>1. PICK s \in Sections :
          /\ Rendered(Entered([Opened(panel) EXCEPT !.preview = FALSE], s))
          /\ IF panel.mode = "normal" THEN NextFrame ELSE Idle
    BY <1>5 DEF OpenWorkspace
  <2>2. PICK o : o = Opened(panel)
    OBVIOUS
  <2>3. Panel(o) /\ Like(o, panel) /\ o.trail = panel.trail
    BY <1>1, <2>2, OpenedIs
  <2>4. PICK r : r = [o EXCEPT !.preview = FALSE]
    OBVIOUS
  <2>5. Panel(r) /\ Like(r, panel) /\ r.trail = panel.trail
    BY <2>3, <2>4, PanelNames DEF Panel, Like
  <2>6. PICK p : p = Entered(r, s)
    OBVIOUS
  <2>7. Panel(p) /\ Like(p, r) /\ p.trail = r.trail /\ p.mode = "explore"
    BY <2>5, <2>6, EnteredIs
  <2>8. Like(p, panel) /\ p.trail = panel.trail
    BY <2>5, <2>7 DEF Like
  <2>9. (Idle /\ p.mode = panel.mode) \/ NextFrame
    BY <1>1, <2>1, <2>7, PanelNames DEF Panel
  <2>10. Rendered(p)
    BY <2>1, <2>2, <2>4, <2>6
  <2> QED
    BY <1>1, <2>7, <2>8, <2>9, <2>10, SketchIs, RenderIs
<1>6. CASE OpenSettings
  <2>1. /\ Rendered(Entered([panel EXCEPT !.open = TRUE, !.view = "settings", !.preview = FALSE], panel.section))
        /\ IF panel.mode = "normal" THEN NextFrame ELSE Idle
    BY <1>6 DEF OpenSettings
  <2>2. PICK r : r = [panel EXCEPT !.open = TRUE, !.view = "settings", !.preview = FALSE]
    OBVIOUS
  <2>3. Panel(r) /\ Like(r, panel) /\ r.trail = panel.trail
    BY <1>1, <2>2, PanelNames DEF Panel, Like
  <2>4. panel.section \in Sections
    BY <1>1, PanelNames DEF Panel
  <2>5. PICK p : p = Entered(r, panel.section)
    OBVIOUS
  <2>6. Panel(p) /\ Like(p, r) /\ p.trail = r.trail /\ p.mode = "explore"
    BY <2>3, <2>4, <2>5, EnteredIs
  <2>7. Like(p, panel) /\ p.trail = panel.trail
    BY <2>3, <2>6 DEF Like
  <2>8. (Idle /\ p.mode = panel.mode) \/ NextFrame
    BY <1>1, <2>1, <2>6, PanelNames DEF Panel
  <2>9. Rendered(p)
    BY <2>1, <2>2, <2>5
  <2> QED
    BY <1>1, <2>6, <2>7, <2>8, <2>9, SketchIs, RenderIs
<1>7. CASE OpenActions \/ CloseActions
  <2>1. PICK actions \in BOOLEAN : Rendered([panel EXCEPT !.actions = actions]) /\ Idle
    BY <1>7 DEF OpenActions, CloseActions
  <2>2. PICK p : p = [panel EXCEPT !.actions = actions]
    OBVIOUS
  <2>3. Panel(p) /\ Like(p, panel) /\ p.trail = panel.trail /\ p.mode = panel.mode
    BY <1>1, <2>2, PanelNames DEF Panel, Like
  <2> QED
    BY <1>1, <2>1, <2>2, <2>3, SketchIs, RenderIs
<1> QED
  BY <1>2, <1>3, <1>4, <1>5, <1>6, <1>7

LEMMA UniverseActs ==
  ASSUME PanelCorrect, NodeDetail \/ NodeAsk \/ CanvasGesture \/ SourceChange
  PROVE  PanelCorrect'
<1>1. PanelSound(panel) /\ Panel(panel) /\ Attentive(panel)
  BY DEF PanelCorrect, PanelSound
<1>2. CASE NodeDetail
  <2>1. PICK n \in Nodes :
          /\ panel.mode = "explore"
          /\ Rendered(IF panel.there THEN WithDetail(Previewed(Entered(panel, None)), n)
                      ELSE [Previewed(Entered(panel, None)) EXCEPT !.detailWaits = n])
          /\ Idle
    BY <1>2 DEF NodeDetail
  <2>2. PICK e : e = Entered(panel, None)
    OBVIOUS
  <2>3. Panel(e) /\ Like(e, panel) /\ e.trail = panel.trail /\ e.mode = "explore"
    BY <1>1, <2>2, EnteredIs
  <2>4. PICK o : o = Opened(e)
    OBVIOUS
  <2>5. Panel(o) /\ Like(o, e) /\ o.trail = e.trail /\ o.mode = e.mode
    BY <2>3, <2>4, OpenedIs
  <2>6. PICK preview \in BOOLEAN : preview = (e.context = None)
    OBVIOUS
  <2>7. PICK r : r = [o EXCEPT !.preview = preview]
    OBVIOUS
  <2>8. Panel(r) /\ Like(r, o) /\ r.trail = o.trail /\ r.mode = o.mode
    BY <2>5, <2>7, PanelNames DEF Panel, Like
  <2>9. Like(r, panel) /\ r.trail = panel.trail /\ r.mode = panel.mode
    BY <2>1, <2>3, <2>5, <2>8 DEF Like
  <2>10. r = Previewed(Entered(panel, None))
    BY <2>2, <2>4, <2>6, <2>7 DEF Previewed
  <2>11. CASE panel.there
    <3>1. PICK p : p = WithDetail(r, n)
      OBVIOUS
    <3>2. Panel(p) /\ Like(p, r) /\ p.mode = r.mode
      BY <2>8, <3>1, WithDetailIs
    <3>3. Like(p, panel) /\ p.mode = panel.mode
      BY <2>9, <3>2 DEF Like
    <3>4. Sketch(p)
      BY <1>1, <2>11, <3>2, <3>3, SketchIs
    <3>5. Rendered(p)
      BY <2>1, <2>10, <2>11, <3>1
    <3> QED
      BY <2>1, <3>3, <3>4, <3>5, RenderIs
  <2>12. CASE ~panel.there
    <3>1. PICK p : p = [r EXCEPT !.detailWaits = n]
      OBVIOUS
    <3>2. /\ Panel(p) /\ p.mode = r.mode /\ p.trail = r.trail /\ p.there = r.there /\ p.detail = r.detail
          /\ p.failed = r.failed /\ p.fetches = r.fetches
      BY <2>8, <3>1, PanelNames DEF Panel
    <3>3. Sketch(p)
      BY <1>1, <2>9, <2>12, <3>2 DEF Sketch, Like, Attentive
    <3>4. Rendered(p)
      BY <2>1, <2>10, <2>12, <3>1
    <3> QED
      BY <2>1, <2>9, <3>2, <3>3, <3>4, RenderIs
  <2> QED
    BY <2>11, <2>12
<1>3. CASE NodeAsk
  <2>1. PICK n \in Nodes :
          /\ panel.mode = "explore"
          /\ Rendered(IF panel.there THEN WithAsk([Opened(Entered(panel, "answer")) EXCEPT !.preview = FALSE], n)
                      ELSE [[Opened(Entered(panel, "answer")) EXCEPT !.preview = FALSE] EXCEPT !.askWaits = n])
          /\ Idle
    BY <1>3 DEF NodeAsk
  <2>2. PICK e : e = Entered(panel, "answer")
    OBVIOUS
  <2>3. Panel(e) /\ Like(e, panel) /\ e.trail = panel.trail /\ e.mode = "explore"
    <3>1. PICK s \in Sections : s = "answer"
      BY DEF Sections
    <3> QED
      BY <1>1, <2>2, <3>1, EnteredIs
  <2>4. PICK o : o = Opened(e)
    OBVIOUS
  <2>5. Panel(o) /\ Like(o, e) /\ o.trail = e.trail /\ o.mode = e.mode
    BY <2>3, <2>4, OpenedIs
  <2>6. PICK preview \in BOOLEAN : preview = FALSE
    OBVIOUS
  <2>7. PICK r : r = [o EXCEPT !.preview = preview]
    OBVIOUS
  <2>8. Panel(r) /\ Like(r, o) /\ r.trail = o.trail /\ r.mode = o.mode
    BY <2>5, <2>7, PanelNames DEF Panel, Like
  <2>9. Like(r, panel) /\ r.trail = panel.trail /\ r.mode = panel.mode
    BY <2>1, <2>3, <2>5, <2>8 DEF Like
  <2>10. r = [Opened(Entered(panel, "answer")) EXCEPT !.preview = FALSE]
    BY <2>2, <2>4, <2>6, <2>7
  <2>11. CASE panel.there
    <3>1. PICK p : p = WithAsk(r, n)
      OBVIOUS
    <3>2. Panel(p) /\ Like(p, r) /\ p.mode = "explore"
      BY <2>8, <3>1, WithAskIs
    <3>3. Like(p, panel) /\ p.mode = panel.mode
      BY <2>1, <2>9, <3>2 DEF Like
    <3>4. Sketch(p)
      BY <1>1, <2>11, <3>2, <3>3, SketchIs
    <3>5. Rendered(p)
      BY <2>1, <2>10, <2>11, <3>1
    <3> QED
      BY <2>1, <3>3, <3>4, <3>5, RenderIs
  <2>12. CASE ~panel.there
    <3>1. PICK p : p = [r EXCEPT !.askWaits = n]
      OBVIOUS
    <3>2. /\ Panel(p) /\ p.mode = r.mode /\ p.trail = r.trail /\ p.there = r.there /\ p.detail = r.detail
          /\ p.failed = r.failed /\ p.fetches = r.fetches
      BY <2>8, <3>1, PanelNames DEF Panel
    <3>3. Sketch(p)
      BY <1>1, <2>9, <2>12, <3>2 DEF Sketch, Like, Attentive
    <3>4. Rendered(p)
      BY <2>1, <2>10, <2>12, <3>1
    <3> QED
      BY <2>1, <2>9, <3>2, <3>3, <3>4, RenderIs
  <2> QED
    BY <2>11, <2>12
<1>4. CASE CanvasGesture
  <2>1. PICK p : p = Yielded(panel)
    OBVIOUS
  <2>2. Panel(p) /\ Like(p, panel) /\ p.trail = panel.trail /\ p.mode = panel.mode
    BY <1>1, <2>1, YieldedIs
  <2> QED
    BY <1>1, <1>4, <2>1, <2>2, SketchIs, RenderIs DEF CanvasGesture
<1>5. CASE SourceChange
  <2>1. PICK source \in {None, "a source"} : Rendered([Yielded(panel) EXCEPT !.source = source]) /\ Idle
    BY <1>5 DEF SourceChange
  <2>2. PICK r : r = Yielded(panel)
    OBVIOUS
  <2>3. Panel(r) /\ Like(r, panel) /\ r.trail = panel.trail /\ r.mode = panel.mode
    BY <1>1, <2>2, YieldedIs
  <2>4. PICK p : p = [r EXCEPT !.source = source]
    OBVIOUS
  <2>5. Panel(p) /\ Like(p, panel) /\ p.trail = panel.trail /\ p.mode = panel.mode
    BY <2>3, <2>4, PanelNames DEF Panel, Like
  <2> QED
    BY <1>1, <2>1, <2>2, <2>4, <2>5, SketchIs, RenderIs
<1> QED
  BY <1>2, <1>3, <1>4, <1>5
\* A sketch that leaves its own requests, in the same mode.
LEMMA QuietIs ==
  ASSUME PanelCorrect, NEW p, Panel(p), Like(p, panel), p.mode = panel.mode, panel.there, Rendered(p), Idle
  PROVE  PanelCorrect'
<1>1. Sketch(p)
  BY SketchIs DEF PanelCorrect
<1> QED
  BY <1>1, RenderIs

LEMMA PanelActs ==
  ASSUME PanelCorrect,
         ChangeSection \/ SearchHome \/ StepBack \/ ShowSettings \/ HideSettings \/ ReturnToCanvas \/ PickThread
  PROVE  PanelCorrect'
<1>1. PanelSound(panel) /\ Panel(panel)
  BY DEF PanelCorrect, PanelSound
<1>2. panel.there => panel.mode = "explore"
  BY <1>1 DEF PanelSound, InView
<1>3. <<>> \in Seq(Nodes \cup Papers)
  OBVIOUS
<1>4. CASE ChangeSection
  <2>1. PICK s \in Sections : panel.there /\ Rendered(Entered([panel EXCEPT !.history = FALSE], s)) /\ Idle
    BY <1>4 DEF ChangeSection
  <2>2. PICK r : r = [panel EXCEPT !.history = FALSE]
    OBVIOUS
  <2>3. Panel(r) /\ Like(r, panel)
    BY <1>1, <2>2, PanelNames DEF Panel, Like
  <2>4. PICK p : p = Entered(r, s)
    OBVIOUS
  <2>5. Panel(p) /\ Like(p, r) /\ p.mode = "explore"
    BY <2>3, <2>4, EnteredIs
  <2>6. Like(p, panel) /\ p.mode = panel.mode
    BY <1>2, <2>1, <2>3, <2>5 DEF Like
  <2> QED
    BY <2>1, <2>2, <2>4, <2>5, <2>6, QuietIs
<1>5. CASE SearchHome
  <2>1. PICK s \in Sections : s = "search"
    BY DEF Sections
  <2>2. panel.there /\ Rendered(Entered([panel EXCEPT !.history = FALSE, !.trail = <<>>], s)) /\ Idle
    BY <1>5, <2>1 DEF SearchHome
  <2>3. PICK r : r = [panel EXCEPT !.history = FALSE, !.trail = <<>>]
    OBVIOUS
  <2>4. Panel(r) /\ Like(r, panel)
    BY <1>1, <1>3, <2>3, PanelNames DEF Panel, Like
  <2>5. PICK p : p = Entered(r, s)
    OBVIOUS
  <2>6. Panel(p) /\ Like(p, r) /\ p.mode = "explore"
    BY <2>4, <2>5, EnteredIs
  <2>7. Like(p, panel) /\ p.mode = panel.mode
    BY <1>2, <2>2, <2>4, <2>6 DEF Like
  <2> QED
    BY <2>2, <2>3, <2>5, <2>6, <2>7, QuietIs
<1>6. CASE StepBack
  <2>1. panel.there /\ panel.trail # <<>> /\ Rendered([panel EXCEPT !.trail = Front(panel.trail)]) /\ Idle
    BY <1>6 DEF StepBack
  <2>2. panel.trail \in Seq(Nodes \cup Papers)
    BY <1>1, PanelNames DEF Panel
  <2>3. Front(panel.trail) \in Seq(Nodes \cup Papers)
    BY <2>1, <2>2 DEF Front
  <2>4. PICK trail \in Seq(Nodes \cup Papers) : trail = Front(panel.trail)
    BY <2>3
  <2>5. PICK p : p = [panel EXCEPT !.trail = trail]
    OBVIOUS
  <2>6. Panel(p) /\ Like(p, panel) /\ p.mode = panel.mode
    BY <1>1, <2>5, PanelNames DEF Panel, Like
  <2> QED
    BY <2>1, <2>4, <2>5, <2>6, QuietIs
<1>7. CASE ShowSettings
  <2>1. PICK p : p = [panel EXCEPT !.view = "settings", !.history = FALSE, !.trail = <<>>]
    OBVIOUS
  <2>2. Panel(p) /\ Like(p, panel) /\ p.mode = panel.mode
    BY <1>1, <1>3, <2>1, PanelNames DEF Panel, Like
  <2>3. panel.there /\ Rendered(p) /\ Idle
    BY <1>7, <2>1 DEF ShowSettings
  <2> QED
    BY <2>2, <2>3, QuietIs
<1>8. CASE HideSettings
  <2>1. PICK p : p = [panel EXCEPT !.view = "workspace"]
    OBVIOUS
  <2>2. Panel(p) /\ Like(p, panel) /\ p.mode = panel.mode
    BY <1>1, <2>1, PanelNames DEF Panel, Like
  <2>3. panel.there /\ Rendered(p) /\ Idle
    BY <1>8, <2>1 DEF HideSettings
  <2> QED
    BY <2>2, <2>3, QuietIs
<1>9. CASE ReturnToCanvas
  <2>1. PICK r : r = Yielded(panel)
    OBVIOUS
  <2>2. Panel(r) /\ Like(r, panel) /\ r.mode = panel.mode
    BY <1>1, <2>1, YieldedIs
  <2>3. PICK p : p = [r EXCEPT !.history = FALSE, !.trail = <<>>]
    OBVIOUS
  <2>4. Panel(p) /\ Like(p, panel) /\ p.mode = panel.mode
    BY <1>3, <2>2, <2>3, PanelNames DEF Panel, Like
  <2>5. panel.there /\ Rendered(p) /\ Idle
    BY <1>9, <2>1, <2>3 DEF ReturnToCanvas
  <2> QED
    BY <2>4, <2>5, QuietIs
<1>10. CASE PickThread
  <2>1. PICK t \in Threads : panel.there /\ Rendered([panel EXCEPT !.answer = t, !.front = t, !.history = FALSE]) /\ Idle
    BY <1>10 DEF PickThread
  <2>2. t \in Answers
    BY DEF Answers
  <2>3. PICK p : p = [panel EXCEPT !.answer = t, !.front = t, !.history = FALSE]
    OBVIOUS
  <2>4. Panel(p) /\ Like(p, panel) /\ p.mode = panel.mode
    BY <1>1, <2>2, <2>3, PanelNames DEF Panel, Like
  <2> QED
    BY <2>1, <2>3, <2>4, QuietIs
<1> QED
  BY <1>4, <1>5, <1>6, <1>7, <1>8, <1>9, <1>10

LEMMA OpenActs ==
  ASSUME PanelCorrect, OpenFound \/ OpenRelated
  PROVE  PanelCorrect'
<1>1. PanelSound(panel) /\ Panel(panel)
  BY DEF PanelCorrect, PanelSound
<1>2. CASE OpenFound
  <2>1. PICK t \in Nodes \cup Papers : panel.there /\ Rendered(WithDetail(panel, t)) /\ Idle
    BY <1>2 DEF OpenFound
  <2>2. PICK p : p = WithDetail(panel, t)
    OBVIOUS
  <2>3. Panel(p) /\ Like(p, panel) /\ p.mode = panel.mode
    BY <1>1, <2>2, WithDetailIs
  <2> QED
    BY <2>1, <2>2, <2>3, QuietIs
<1>3. CASE OpenRelated
  <2>1. PICK n \in Nodes : panel.there /\ Rendered(WithFurther(panel, n)) /\ Idle
    BY <1>3 DEF OpenRelated
  <2>2. panel.trail \in Seq(Nodes \cup Papers)
    BY <1>1, PanelNames DEF Panel
  <2>3. PICK trail \in Seq(Nodes \cup Papers) :
          trail = IF panel.trail # <<>> /\ Last(panel.trail) = n THEN panel.trail ELSE Append(panel.trail, n)
    <3>1. n \in Nodes \cup Papers
      OBVIOUS
    <3>2. Append(panel.trail, n) \in Seq(Nodes \cup Papers)
      BY <2>2, <3>1
    <3> QED
      BY <2>2, <3>2
  <2>4. PICK p : p = [panel EXCEPT !.view = "workspace", !.history = FALSE, !.trail = trail]
    OBVIOUS
  <2>5. Panel(p) /\ Like(p, panel) /\ p.mode = panel.mode
    BY <1>1, <2>4, PanelNames DEF Panel, Like
  <2>6. p = WithFurther(panel, n)
    BY <2>3, <2>4 DEF WithFurther
  <2> QED
    BY <2>1, <2>5, <2>6, QuietIs
<1> QED
  BY <1>2, <1>3

(***************************************************************************)
(* The actions that change the panel without an effect of its render.      *)
(***************************************************************************)
LEMMA DirectIs ==
  ASSUME PanelCorrect, Panel(panel'), Loads(panel'), panel'.mode = panel.mode, panel'.open = panel.open,
         panel'.view = panel.view, panel'.section = panel.section, panel'.context = panel.context,
         panel'.there = panel.there, panel'.trail = panel.trail, panel'.detailWaits = panel.detailWaits,
         panel'.askWaits = panel.askWaits, place' = place
  PROVE  PanelCorrect'
<1>1. Attentive(panel) /\ InView(panel) /\ PlaceKept(panel.mode, place)
  BY DEF PanelCorrect, PanelSound
<1>2. Attentive(panel') /\ InView(panel')
  BY <1>1 DEF Attentive, InView
<1> QED
  BY <1>1, <1>2 DEF PanelCorrect, PanelSound

LEMMA SmallActs ==
  ASSUME PanelCorrect, PatchReset \/ ToggleHistory \/ NewAnswer \/ SearchResultChanges
  PROVE  PanelCorrect'
<1>1. Panel(panel) /\ Loads(panel)
  BY DEF PanelCorrect, PanelSound
<1>2. place' = place
  BY DEF PatchReset, ToggleHistory, NewAnswer, SearchResultChanges, Idle
<1>3. CASE SearchResultChanges
  <2>1. panel' = Loading(panel)
    BY <1>3 DEF SearchResultChanges
  <2>2. PICK q : q = Loading(panel)
    OBVIOUS
  <2> QED
    BY <1>1, <1>2, <2>1, <2>2, LoadingIs, DirectIs
<1>4. CASE PatchReset \/ ToggleHistory \/ NewAnswer
  <2>1. \/ panel' = [panel EXCEPT !.patches = <<>>]
        \/ panel' = [panel EXCEPT !.history = ~panel.history]
        \/ panel' = [panel EXCEPT !.answer = Draft, !.front = Draft, !.history = FALSE]
    BY <1>4 DEF PatchReset, ToggleHistory, NewAnswer
  <2>2. <<>> \in Seq(Nodes) /\ Draft \in Answers
    BY DEF Answers
  <2>3. /\ Panel(panel') /\ panel'.mode = panel.mode /\ panel'.open = panel.open
        /\ panel'.view = panel.view /\ panel'.section = panel.section /\ panel'.context = panel.context
        /\ panel'.there = panel.there /\ panel'.trail = panel.trail /\ panel'.detailWaits = panel.detailWaits
        /\ panel'.askWaits = panel.askWaits /\ panel'.detail = panel.detail /\ panel'.failed = panel.failed
        /\ panel'.fetches = panel.fetches
    <3>1. CASE panel' = [panel EXCEPT !.patches = <<>>]
      BY <1>1, <2>2, <3>1, PanelNames DEF Panel
    <3>2. CASE panel' = [panel EXCEPT !.history = ~panel.history]
      BY <1>1, <3>2, PanelNames DEF Panel
    <3>3. CASE panel' = [panel EXCEPT !.answer = Draft, !.front = Draft, !.history = FALSE]
      BY <1>1, <2>2, <3>3, PanelNames DEF Panel
    <3> QED
      BY <2>1, <3>1, <3>2, <3>3
  <2>4. Target(panel') = Target(panel)
    BY <1>1, <2>3, TargetIs
  <2>5. Loads(panel')
    BY <1>1, <2>3, <2>4 DEF Loads
  <2> QED
    BY <1>2, <2>3, <2>5, DirectIs
<1> QED
  BY <1>3, <1>4

LEMMA PatchActs ==
  ASSUME PanelCorrect, GraphPatch
  PROVE  PanelCorrect'
<1>1. Panel(panel) /\ Loads(panel)
  BY DEF PanelCorrect, PanelSound
<1>2. PICK n \in Nodes :
        LET all == IF Contains(panel.patches, n) THEN panel.patches ELSE Append(panel.patches, n)
        IN  panel' = [panel EXCEPT
              !.patches = IF Len(all) > PatchLimit THEN Tail(all) ELSE all,
              !.detail = IF Target(panel) = n THEN [of |-> n, from |-> "patch"] ELSE panel.detail]
  BY DEF GraphPatch
<1>3. place' = place
  BY DEF GraphPatch, Idle
<1>4. panel.patches \in Seq(Nodes) /\ panel.detail \in Details
  BY <1>1, PanelNames DEF Panel
<1>5. PICK all \in Seq(Nodes) :
        all # <<>> /\ all = IF Contains(panel.patches, n) THEN panel.patches ELSE Append(panel.patches, n)
  <2>1. CASE Contains(panel.patches, n)
    BY <1>4, <2>1 DEF Contains
  <2>2. CASE ~Contains(panel.patches, n)
    <3>1. Append(panel.patches, n) \in Seq(Nodes) /\ Append(panel.patches, n) # <<>>
      BY <1>4
    <3> QED
      BY <2>2, <3>1
  <2> QED
    BY <2>1, <2>2
<1>6. Tail(all) \in Seq(Nodes)
  BY <1>5
<1>7. PICK patches \in Seq(Nodes) : patches = IF Len(all) > PatchLimit THEN Tail(all) ELSE all
  BY <1>5, <1>6
<1>8. [of |-> n, from |-> "patch"] \in Details
  BY DEF Details
<1>9. PICK d \in Details : d = IF Target(panel) = n THEN [of |-> n, from |-> "patch"] ELSE panel.detail
  BY <1>4, <1>8
<1>10. panel' = [panel EXCEPT !.patches = patches, !.detail = d]
  BY <1>2, <1>5, <1>7, <1>9
<1>11. d.of = panel.detail.of \/ (d.of = n /\ Target(panel) = n)
  BY <1>9
<1>12. /\ Panel(panel') /\ panel'.mode = panel.mode /\ panel'.open = panel.open
       /\ panel'.view = panel.view /\ panel'.section = panel.section /\ panel'.context = panel.context
       /\ panel'.there = panel.there /\ panel'.trail = panel.trail /\ panel'.detailWaits = panel.detailWaits
       /\ panel'.askWaits = panel.askWaits /\ panel'.detail = d /\ panel'.failed = panel.failed
       /\ panel'.fetches = panel.fetches
  BY <1>1, <1>10, PanelNames DEF Panel
<1>13. Target(panel') = Target(panel)
  BY <1>1, <1>12, TargetIs
<1>14. Loads(panel')
  BY <1>1, <1>11, <1>12, <1>13, PanelAssumption DEF Loads
<1> QED
  BY <1>3, <1>12, <1>14, DirectIs

LEMMA DetailActs ==
  ASSUME PanelCorrect, DetailLoaded \/ DetailFails
  PROVE  PanelCorrect'
<1>1. Panel(panel) /\ Loads(panel)
  BY DEF PanelCorrect, PanelSound
<1>2. place' = place
  BY DEF DetailLoaded, DetailFails
<1>3. panel.fetches \in SUBSET Fetches /\ panel.detail \in Details /\ panel.failed \in BOOLEAN
  BY <1>1, PanelNames DEF Panel
<1>4. PICK f \in panel.fetches, d \in Details, failed \in BOOLEAN :
        /\ panel' = [panel EXCEPT !.fetches = panel.fetches \ {f}, !.detail = d, !.failed = failed]
        /\ f.alive \/ (d = panel.detail /\ failed = panel.failed)
        /\ d.of = panel.detail.of \/ (d.of = f.of /\ f.alive)
        /\ f.alive => d.of = f.of \/ failed
  <2>1. CASE DetailLoaded
    <3>1. PICK f \in panel.fetches :
            panel' = [panel EXCEPT !.fetches = panel.fetches \ {f},
                                   !.detail = IF f.of \notin Answered(f) THEN panel.detail
                                              ELSE [of |-> f.of, from |-> IF Contains(panel.patches, f.of) THEN "patch" ELSE "search"]]
      BY <2>1 DEF DetailLoaded
    <3>2. f.of \in Nodes /\ f.alive \in BOOLEAN
      BY <1>3, <3>1 DEF Fetches
    <3>3. f.of \in Answered(f) <=> f.alive
      BY DEF Answered
    <3>4. PICK from \in {"patch", "search"} : from = IF Contains(panel.patches, f.of) THEN "patch" ELSE "search"
      OBVIOUS
    <3>5. [of |-> f.of, from |-> from] \in Details
      BY <3>2 DEF Details
    <3>6. PICK d \in Details : d = IF f.of \notin Answered(f) THEN panel.detail ELSE [of |-> f.of, from |-> from]
      BY <1>3, <3>5
    <3>7. panel' = [panel EXCEPT !.fetches = panel.fetches \ {f}, !.detail = d]
      BY <3>1, <3>4, <3>6
    <3>8. [panel EXCEPT !.fetches = panel.fetches \ {f}, !.detail = d]
            = [panel EXCEPT !.fetches = panel.fetches \ {f}, !.detail = d, !.failed = panel.failed]
      BY <1>1, PanelNames DEF Panel
    <3>9. f.alive \/ d = panel.detail
      BY <3>3, <3>6
    <3>10. d.of = panel.detail.of \/ (d.of = f.of /\ f.alive)
      BY <3>3, <3>6
    <3>11. f.alive => d.of = f.of
      BY <3>3, <3>6
    <3> QED
      BY <1>3, <3>1, <3>6, <3>7, <3>8, <3>9, <3>10, <3>11, ZenonT(20)
  <2>2. CASE DetailFails
    <3>1. PICK f \in panel.fetches, known \in BOOLEAN :
            panel' = [panel EXCEPT !.fetches = panel.fetches \ {f},
                                   !.detail = IF ~f.alive THEN panel.detail
                                              ELSE IF Contains(panel.patches, f.of) THEN [of |-> f.of, from |-> "patch"]
                                              ELSE IF known THEN [of |-> f.of, from |-> "search"] ELSE panel.detail,
                                   !.failed = panel.failed \/ (f.alive /\ ~Contains(panel.patches, f.of) /\ ~known)]
      BY <2>2 DEF DetailFails
    <3>2. f.of \in Nodes /\ f.alive \in BOOLEAN
      BY <1>3, <3>1 DEF Fetches
    <3>3. [of |-> f.of, from |-> "patch"] \in Details /\ [of |-> f.of, from |-> "search"] \in Details
      BY <3>2 DEF Details
    <3>4. PICK d \in Details :
            d = IF ~f.alive THEN panel.detail
                ELSE IF Contains(panel.patches, f.of) THEN [of |-> f.of, from |-> "patch"]
                ELSE IF known THEN [of |-> f.of, from |-> "search"] ELSE panel.detail
      BY <1>3, <3>3
    <3>5. PICK failed \in BOOLEAN :
            failed = (panel.failed \/ (f.alive /\ ~Contains(panel.patches, f.of) /\ ~known))
      OBVIOUS
    <3>6. panel' = [panel EXCEPT !.fetches = panel.fetches \ {f}, !.detail = d, !.failed = failed]
      BY <3>1, <3>4, <3>5
    <3>7. f.alive \/ (d = panel.detail /\ failed = panel.failed)
      BY <1>3, <3>4, <3>5
    <3>8. d.of = panel.detail.of \/ (d.of = f.of /\ f.alive)
      BY <3>4
    <3>9. f.alive => d.of = f.of \/ failed
      BY <3>4, <3>5
    <3> QED
      BY <3>1, <3>4, <3>5, <3>6, <3>7, <3>8, <3>9
  <2> QED
    BY <2>1, <2>2
<1>5. panel.fetches \ {f} \in SUBSET Fetches
  BY <1>3
<1>6. PICK fetches \in SUBSET Fetches : fetches = panel.fetches \ {f}
  BY <1>5
<1>7. panel' = [panel EXCEPT !.fetches = fetches, !.detail = d, !.failed = failed]
  BY <1>4, <1>6
<1>8. /\ Panel(panel') /\ panel'.mode = panel.mode /\ panel'.open = panel.open
      /\ panel'.view = panel.view /\ panel'.section = panel.section /\ panel'.context = panel.context
      /\ panel'.there = panel.there /\ panel'.trail = panel.trail /\ panel'.detailWaits = panel.detailWaits
      /\ panel'.askWaits = panel.askWaits /\ panel'.detail = d /\ panel'.failed = failed
      /\ panel'.fetches = fetches
  BY <1>1, <1>7, PanelNames DEF Panel
<1>9. Target(panel') = Target(panel)
  BY <1>1, <1>8, TargetIs
<1>10. f.of \in Nodes /\ f.of # None
  BY <1>3, <1>4, PanelAssumption DEF Fetches
<1>11. f.alive => f.of = Target(panel)
  BY <1>1, <1>4 DEF Loads
<1>12. d.of # None => Target(panel') = d.of
  BY <1>1, <1>4, <1>9, <1>11 DEF Loads
<1>13. \A g \in fetches : g.alive => g.of = Target(panel')
  BY <1>1, <1>6, <1>9 DEF Loads
<1>14. (panel.there /\ Target(panel) \in Nodes)
         => d.of # None \/ failed \/ \E g \in fetches : g.alive /\ g.of = Target(panel)
  <2>1. CASE f.alive
    BY <1>4, <1>10, <2>1
  <2>2. CASE ~f.alive
    BY <1>1, <1>4, <1>6, <2>2 DEF Loads
  <2> QED
    BY <2>1, <2>2
<1>15. Loads(panel')
  BY <1>8, <1>9, <1>12, <1>13, <1>14 DEF Loads
<1> QED
  BY <1>2, <1>8, <1>15, DirectIs

LEMMA PlaceActs ==
  ASSUME PanelCorrect, PlaceFrame \/ DragTo \/ ResetPlace
  PROVE  PanelCorrect'
<1>1. PanelSound(panel) /\ panel.mode \in {"normal", "explore"} /\ PlaceKept(panel.mode, place) /\ place \in Places
  BY PanelNames DEF PanelCorrect, PanelSound, Panel, PlaceKept
<1>2. panel' = panel
  BY DEF PlaceFrame, DragTo, ResetPlace
<1>3. place.user \in Spots /\ place.at \in Spots /\ place.free \in Spots \cup {None} /\ place.stored \in Spots \cup {None}
  BY <1>1 DEF Places
<1>4. PlaceKept(panel.mode, place')
  <2>1. CASE PlaceFrame
    <3>1. PICK frame \in BOOLEAN : frame = FALSE
      OBVIOUS
    <3>2. PICK q : q = [place EXCEPT !.frame = frame]
      OBVIOUS
    <3>3. /\ q \in Places /\ q.at = place.at /\ q.free = place.free /\ q.placed = place.placed /\ q.user = place.user
      BY <1>1, <3>2 DEF Places
    <3>4. place' = IF panel.mode = "explore" /\ ~q.placed THEN PlacedIn(q)
                   ELSE IF panel.mode = "normal" /\ q.placed THEN PlacedOut(q) ELSE q
      BY <2>1, <3>1, <3>2 DEF PlaceFrame
    <3>5. CASE panel.mode = "explore" /\ ~q.placed
      <4>1. place' = [q EXCEPT !.placed = TRUE, !.free = q.at, !.at = "corner"]
        BY <3>4, <3>5 DEF PlacedIn
      <4>2. PICK corner \in Spots : corner = "corner"
        BY DEF Spots
      <4>3. place' \in Places /\ place'.placed = TRUE /\ place'.free = q.at /\ place'.user = q.user
        BY <1>3, <3>3, <4>1, <4>2 DEF Places
      <4> QED
        BY <1>1, <3>3, <3>5, <4>3 DEF PlaceKept
    <3>6. CASE panel.mode = "normal" /\ q.placed
      <4>1. q.free = q.user /\ q.free \in Spots /\ q.free # None
        BY <1>1, <1>3, <3>3, <3>6, PanelAssumption DEF PlaceKept, Spots
      <4>2. place' = [q EXCEPT !.placed = FALSE, !.free = None, !.at = q.free]
        BY <3>4, <3>6, <4>1 DEF PlacedOut
      <4>3. place' \in Places /\ place'.placed = FALSE /\ place'.at = q.free /\ place'.user = q.user
        BY <3>3, <4>1, <4>2 DEF Places
      <4> QED
        BY <3>6, <4>1, <4>3 DEF PlaceKept
    <3>7. CASE ~(panel.mode = "explore" /\ ~q.placed) /\ ~(panel.mode = "normal" /\ q.placed)
      <4>1. place' = q
        BY <3>4, <3>7
      <4> QED
        BY <1>1, <3>3, <3>7, <4>1 DEF PlaceKept
    <3> QED
      BY <3>5, <3>6, <3>7
  <2>2. CASE DragTo \/ ResetPlace
    <3>1. PICK spot \in Spots, stored \in Spots \cup {None} :
            place' = [place EXCEPT !.at = spot, !.stored = stored,
                                   !.user = IF panel.mode = "normal" THEN spot ELSE place.user]
      <4>1. CASE DragTo
        <5>1. PICK spot \in {"home", "left", "right"} :
                place' = [place EXCEPT !.at = spot, !.stored = IF panel.mode = "normal" THEN spot ELSE place.stored,
                                       !.user = IF panel.mode = "normal" THEN spot ELSE place.user]
          BY <4>1 DEF DragTo
        <5>2. spot \in Spots
          BY DEF Spots
        <5>3. PICK stored \in Spots \cup {None} : stored = IF panel.mode = "normal" THEN spot ELSE place.stored
          BY <1>3, <5>2
        <5> QED
          BY <5>1, <5>2, <5>3
      <4>2. CASE ResetPlace
        <5>1. PICK spot \in Spots : spot = "reset"
          BY DEF Spots
        <5>2. place' = [place EXCEPT !.at = spot, !.stored = spot,
                                     !.user = IF panel.mode = "normal" THEN spot ELSE place.user]
          BY <4>2, <5>1 DEF ResetPlace
        <5> QED
          BY <5>2
      <4> QED
        BY <2>2, <4>1, <4>2
    <3>2. PICK user \in Spots : user = IF panel.mode = "normal" THEN spot ELSE place.user
      BY <1>3
    <3>3. place' = [place EXCEPT !.at = spot, !.stored = stored, !.user = user]
      BY <3>1, <3>2
    <3>4. /\ place' \in Places /\ place'.at = spot /\ place'.user = user /\ place'.free = place.free
          /\ place'.placed = place.placed /\ place'.frame = place.frame
      BY <1>1, <3>3 DEF Places
    <3>5. ~place.frame
      BY <2>2 DEF DragTo, ResetPlace
    <3>6. CASE panel.mode = "normal"
      BY <1>1, <3>2, <3>4, <3>5, <3>6 DEF PlaceKept
    <3>7. CASE panel.mode = "explore"
      BY <1>1, <3>2, <3>4, <3>5, <3>7 DEF PlaceKept
    <3> QED
      BY <1>1, <3>6, <3>7
  <2> QED
    BY <2>1, <2>2
<1> QED
  BY <1>1, <1>2, <1>4 DEF PanelCorrect

\* The panel shows and loads what the reader asked for last, whatever the order of
\* its requests and renders, and the exploration takes a place and gives it back
\* (pet-panel-host.tsx, detail-panel.tsx).
THEOREM PanelHolds == PetPanelSpec => []PanelConsistent
<1>1. PetPanelInit => PanelCorrect
  BY PanelStarts
<1>2. PanelCorrect /\ [PetPanelNext]_panelVars => PanelCorrect'
  <2> SUFFICES ASSUME PanelCorrect, [PetPanelNext]_panelVars
               PROVE  PanelCorrect'
    OBVIOUS
  <2>1. CASE UNCHANGED panelVars
    BY <2>1 DEF panelVars, PanelCorrect
  <2>2. CASE PetPanelNext
    BY <2>2, ShellActs, UniverseActs, PanelActs, OpenActs, SmallActs, PatchActs, DetailActs, PlaceActs DEF PetPanelNext
  <2> QED
    BY <2>1, <2>2
<1> QED
  BY <1>1, <1>2, PanelIs, PTL DEF PetPanelSpec

(***************************************************************************)
(* What is read (SceneReading).                                            *)
(***************************************************************************)
Layouts   == {"exploration", "accumulation"}
PageTurns == {"idle", "asked", "entering"}

\* The fields of the engine; those whose values a proof needs have a type.
LookFields ==
  {"live", "paused", "strategy", "boundary", "epoch", "turn", "nodes", "ghosts", "moving", "entering", "settling",
   "place", "memory", "locked", "selected", "hovered", "keyed", "clearing", "label", "cards", "withCards"}
LookTyped(l) ==
  /\ DOMAIN l = LookFields /\ l.live \in BOOLEAN /\ l.strategy \in Layouts /\ l.boundary \in BOOLEAN
  /\ l.turn \in PageTurns /\ l.nodes \subseteq ReadNodes /\ l.ghosts \subseteq l.nodes /\ l.moving \subseteq l.nodes
  /\ DOMAIN l.place = l.nodes

\* The evidence graph has no place of the timeline, nor remembers one.
OffAxis(l) ==
  l.strategy = "accumulation" /\ ~l.boundary =>
    /\ \A n \in l.nodes : l.place[n] # Axis
    /\ \A n \in DOMAIN l.memory : l.memory[n] # Axis

LookSound(l) ==
  /\ LookTyped(l) /\ OffAxis(l)
  /\ l.ghosts # {} => l.turn = "entering"
  /\ Cardinality(l.nodes) <= ReadBudget
  /\ ~l.live => l.nodes = {} /\ l.locked = NoNode /\ l.turn = "idle"

\* The node that is locked is drawn to stay and has its card.
Lit(l) == l.locked \in (l.nodes \ l.ghosts) \cap l.cards

\* Only what is drawn to stay has a card.
Dealt(l) == l.cards \subseteq l.nodes \ l.ghosts

\* What every operation keeps but a delivery and a lock.
Keeps(q, l) ==
  /\ q.live = l.live
  /\ q.nodes \ q.ghosts = l.nodes \ l.ghosts /\ q.ghosts \subseteq l.ghosts
  /\ q.locked # NoNode => q.locked = l.locked
  /\ Lit(l) /\ q.locked # NoNode => Lit(q)
  /\ Dealt(l) => Dealt(q)
  /\ q.turn = "asked" => l.turn = "asked"

\* The engine shows the nodes of the controller's scene.
Shows(l, S) ==
  /\ l.nodes \ l.ghosts \subseteq S /\ l.ghosts \cap S = {}
  /\ l.locked \in S => Lit(l)
  /\ Dealt(l)

LEMMA LookNames ==
  /\ "live" \in LookFields /\ "paused" \in LookFields /\ "strategy" \in LookFields /\ "boundary" \in LookFields
  /\ "epoch" \in LookFields /\ "turn" \in LookFields /\ "nodes" \in LookFields /\ "ghosts" \in LookFields
  /\ "moving" \in LookFields /\ "entering" \in LookFields /\ "settling" \in LookFields /\ "place" \in LookFields
  /\ "memory" \in LookFields /\ "locked" \in LookFields /\ "selected" \in LookFields /\ "hovered" \in LookFields
  /\ "keyed" \in LookFields /\ "clearing" \in LookFields /\ "label" \in LookFields /\ "cards" \in LookFields
  /\ "withCards" \in LookFields
BY DEF LookFields

LEMMA LookWords ==
  /\ "exploration" \in Layouts /\ "accumulation" \in Layouts
  /\ "idle" \in PageTurns /\ "asked" \in PageTurns /\ "entering" \in PageTurns
BY DEF Layouts, PageTurns

LEMMA NodesAre ==
  /\ IsFiniteSet(ReadNodes) /\ NoNode \notin ReadNodes /\ ReadBudget \in Nat /\ Cardinality({}) = 0
  /\ \A S \in SUBSET ReadNodes : IsFiniteSet(S) /\ Cardinality(S) \in Nat
  /\ \A S \in SUBSET ReadNodes : \A T \in SUBSET S : Cardinality(T) <= Cardinality(S)
  /\ \A S \in Scenes : S \subseteq ReadNodes /\ Cardinality(S) <= ReadBudget
<1>1. IsFiniteSet(ReadNodes) /\ NoNode \notin ReadNodes /\ ReadBudget \in Nat
  BY ReadAssumption DEF NoNode
<1>2. \A S \in SUBSET ReadNodes : IsFiniteSet(S) /\ Cardinality(S) \in Nat
  BY <1>1, FS_Subset, FS_CardinalityType
<1>3. \A S \in SUBSET ReadNodes : \A T \in SUBSET S : Cardinality(T) <= Cardinality(S)
  BY <1>2, FS_Subset
<1> QED
  BY <1>1, <1>2, <1>3, FS_EmptySet DEF Scenes

(***************************************************************************)
(* Focus and cards.                                                        *)
(***************************************************************************)
LEMMA KeepsSelf ==
  ASSUME NEW l
  PROVE  Keeps(l, l)
BY DEF Keeps

LEMMA KeepsTwice ==
  ASSUME NEW l, NEW q, Keeps(q, l), NEW r, Keeps(r, q)
  PROVE  Keeps(r, l)
BY DEF Keeps

\* The node that is locked is the focus, and the focus has a card.
LEMMA PlanCardsIs ==
  ASSUME NEW l, LookTyped(l), l.locked \in l.nodes \ l.ghosts
  PROVE  l.locked \in PlanCards(l)
<1>1. l.locked # NoNode /\ l.locked \in ReadNodes
  BY NodesAre DEF LookTyped
<1>2. LabelFocus(l) = l.locked
  BY <1>1 DEF LabelFocus, FirstOf4
<1> QED
  BY <1>2 DEF PlanCards

LEMMA PlanCardsWithin ==
  ASSUME NEW l
  PROVE  PlanCards(l) \subseteq l.nodes \ l.ghosts
<1> DEFINE here == l.nodes \ l.ghosts
<1>1. \A S, k : Firsts(S, k) \subseteq S
  BY DEF Firsts
<1> QED
  BY <1>1 DEF PlanCards

LEMMA RebuildLabelsIs ==
  ASSUME NEW l, LookSound(l), NEW q, q = RebuildLabels(l)
  PROVE  /\ LookSound(q) /\ Keeps(q, l)
         /\ q.locked = l.locked /\ q.nodes = l.nodes /\ q.ghosts = l.ghosts /\ q.turn = l.turn
         /\ q.locked \in q.nodes \ q.ghosts => Lit(q)
         /\ Dealt(q)
         /\ q.strategy = l.strategy /\ q.boundary = l.boundary
<1>1. PICK c : c = PlanCards(l)
  OBVIOUS
<1>2. c \subseteq l.nodes \ l.ghosts /\ (l.locked \in l.nodes \ l.ghosts => l.locked \in c)
  BY <1>1, PlanCardsIs, PlanCardsWithin DEF LookSound
<1>3. PICK f : f = LabelFocus(l)
  OBVIOUS
<1>4. q = [l EXCEPT !.label = f, !.cards = c]
  BY <1>1, <1>3 DEF RebuildLabels
<1>5. \A g \in LookFields \ {"label", "cards"} : q[g] = l[g]
  BY <1>4 DEF LookSound, LookTyped
<1>6. q.cards = c /\ DOMAIN q = LookFields
  BY <1>4, LookNames DEF LookSound, LookTyped
<1>7. /\ q.live = l.live /\ q.nodes = l.nodes /\ q.ghosts = l.ghosts /\ q.locked = l.locked /\ q.turn = l.turn
      /\ q.moving = l.moving /\ q.place = l.place /\ q.memory = l.memory /\ q.strategy = l.strategy
      /\ q.boundary = l.boundary
  BY <1>5, LookNames
<1>8. LookSound(q)
  BY <1>6, <1>7 DEF LookSound, LookTyped, OffAxis
<1> QED
  BY <1>2, <1>6, <1>7, <1>8 DEF Keeps, Lit, Dealt

\* What the operators change beside the labels: the hover, the keys, the
\* selection.  They leave every other field alone.
Focusing == {"locked", "selected", "hovered", "keyed", "clearing", "paused", "withCards", "entering", "settling", "epoch"}

LEMMA FocusChange ==
  ASSUME NEW l, LookSound(l), NEW q, DOMAIN q = LookFields, \A f \in LookFields \ Focusing : q[f] = l[f],
         q.locked = l.locked \/ q.locked = NoNode
  PROVE  /\ LookSound(q) /\ Keeps(q, l) /\ q.nodes = l.nodes /\ q.ghosts = l.ghosts /\ q.turn = l.turn
         /\ q.strategy = l.strategy /\ q.boundary = l.boundary
<1>1. /\ q.live = l.live /\ q.nodes = l.nodes /\ q.ghosts = l.ghosts /\ q.turn = l.turn
      /\ q.moving = l.moving /\ q.place = l.place /\ q.memory = l.memory /\ q.strategy = l.strategy
      /\ q.boundary = l.boundary /\ q.cards = l.cards
  BY LookNames DEF Focusing
<1>2. LookSound(q)
  BY <1>1 DEF LookSound, LookTyped, OffAxis
<1> QED
  BY <1>1, <1>2 DEF Keeps, Lit, Dealt

\* A change of focus, then the cards of it.
Refocused(q, l) ==
  /\ LookSound(q) /\ Keeps(q, l) /\ q.nodes = l.nodes /\ q.ghosts = l.ghosts /\ q.turn = l.turn
  /\ q.strategy = l.strategy /\ q.boundary = l.boundary

LEMMA RefocusedTwice ==
  ASSUME NEW l, NEW q, Refocused(q, l), NEW r, Refocused(r, q)
  PROVE  Refocused(r, l)
BY KeepsTwice DEF Refocused

LEMMA RefocusedSelf ==
  ASSUME NEW l, LookSound(l)
  PROVE  Refocused(l, l)
BY KeepsSelf DEF Refocused

LEMMA ApplyHighlightIs ==
  ASSUME NEW l, LookSound(l), NEW q, q = ApplyHighlight(l)
  PROVE  Refocused(q, l)
<1>1. CASE q = l
  BY <1>1, RefocusedSelf
<1>2. CASE q = RebuildLabels(l)
  BY <1>2, RebuildLabelsIs DEF Refocused
<1> QED
  BY <1>1, <1>2 DEF ApplyHighlight

LEMMA ClearKeysIs ==
  ASSUME NEW l, LookSound(l), NEW refresh, NEW q, q = ClearKeys(l, refresh)
  PROVE  Refocused(q, l)
<1>1. PICK c : c = [l EXCEPT !.keyed = NoNode]
  OBVIOUS
<1>2. DOMAIN c = LookFields /\ (\A f \in LookFields \ Focusing : c[f] = l[f]) /\ c.locked = l.locked
  BY <1>1, LookNames DEF LookSound, LookTyped, Focusing
<1>3. Refocused(c, l)
  BY <1>2, FocusChange DEF Refocused
<1>4. q = c \/ q = ApplyHighlight(c)
  BY <1>1 DEF ClearKeys
<1>5. CASE q = ApplyHighlight(c)
  BY <1>3, <1>5, ApplyHighlightIs, RefocusedTwice DEF Refocused
<1> QED
  BY <1>3, <1>4, <1>5

LEMMA HoverNothingIs ==
  ASSUME NEW l, LookSound(l), NEW q, q = HoverNothing(l)
  PROVE  Refocused(q, l)
<1>1. PICK c : c = IF l.hovered = NoNode THEN [l EXCEPT !.clearing = FALSE]
                   ELSE [l EXCEPT !.clearing = FALSE, !.hovered = NoNode]
  OBVIOUS
<1>2. DOMAIN c = LookFields /\ (\A f \in LookFields \ Focusing : c[f] = l[f]) /\ c.locked = l.locked
  BY <1>1, LookNames DEF LookSound, LookTyped, Focusing
<1>3. Refocused(c, l)
  BY <1>2, FocusChange DEF Refocused
<1>4. q = c \/ q = ApplyHighlight(c)
  BY <1>1 DEF HoverNothing
<1>5. CASE q = ApplyHighlight(c)
  BY <1>3, <1>5, ApplyHighlightIs, RefocusedTwice DEF Refocused
<1> QED
  BY <1>3, <1>4, <1>5

LEMMA HoverNodeIs ==
  ASSUME NEW l, LookSound(l), NEW n, NEW q, q = HoverNode(l, n)
  PROVE  Refocused(q, l)
<1>1. PICK k : k = ClearKeys(l, FALSE)
  OBVIOUS
<1>2. Refocused(k, l)
  BY <1>1, ClearKeysIs
<1>3. PICK c : c = [k EXCEPT !.clearing = FALSE, !.hovered = n]
  OBVIOUS
<1>4. DOMAIN c = LookFields /\ (\A f \in LookFields \ Focusing : c[f] = k[f]) /\ c.locked = k.locked
  BY <1>2, <1>3, LookNames DEF Refocused, LookSound, LookTyped, Focusing
<1>5. Refocused(c, k)
  BY <1>2, <1>4, FocusChange DEF Refocused
<1>6. Refocused(c, l)
  BY <1>2, <1>5, RefocusedTwice
<1>7. q = l \/ q = ApplyHighlight(c)
  BY <1>1, <1>3 DEF HoverNode
<1>8. CASE q = ApplyHighlight(c)
  BY <1>6, <1>8, ApplyHighlightIs, RefocusedTwice DEF Refocused
<1> QED
  BY <1>7, <1>8, RefocusedSelf

LEMMA FocusKeyIs ==
  ASSUME NEW l, LookSound(l), NEW n, NEW q, q = FocusKey(l, n)
  PROVE  Refocused(q, l)
<1>1. PICK c : c = [l EXCEPT !.clearing = FALSE, !.hovered = NoNode, !.keyed = n]
  OBVIOUS
<1>2. DOMAIN c = LookFields /\ (\A f \in LookFields \ Focusing : c[f] = l[f]) /\ c.locked = l.locked
  BY <1>1, LookNames DEF LookSound, LookTyped, Focusing
<1>3. Refocused(c, l)
  BY <1>2, FocusChange DEF Refocused
<1>4. q = ApplyHighlight(c)
  BY <1>1 DEF FocusKey
<1> QED
  BY <1>3, <1>4, ApplyHighlightIs, RefocusedTwice DEF Refocused

LEMMA UnlockNodeIs ==
  ASSUME NEW l, LookSound(l), NEW q, q = UnlockNode(l)
  PROVE  Refocused(q, l) /\ q.locked = NoNode
<1>1. CASE ~l.live
  BY <1>1, RefocusedSelf DEF UnlockNode, LookSound
<1>2. CASE l.live
  <2>1. PICK c : c = [l EXCEPT !.locked = NoNode]
    OBVIOUS
  <2>2. DOMAIN c = LookFields /\ (\A f \in LookFields \ Focusing : c[f] = l[f]) /\ c.locked = NoNode
    BY <2>1, LookNames DEF LookSound, LookTyped, Focusing
  <2>3. Refocused(c, l)
    BY <2>2, FocusChange DEF Refocused
  <2>4. q = RebuildLabels(c)
    BY <1>2, <2>1 DEF UnlockNode, ReleaseLock
  <2>5. Refocused(q, c) /\ q.locked = NoNode
    BY <2>2, <2>3, <2>4, RebuildLabelsIs DEF Refocused
  <2> QED
    BY <2>3, <2>5, RefocusedTwice
<1> QED
  BY <1>1, <1>2

LEMMA ClearSelectionIs ==
  ASSUME NEW l, LookSound(l), NEW q, q = ClearSelection(l)
  PROVE  Refocused(q, l)
<1>1. PICK c : c = [l EXCEPT !.locked = NoNode, !.selected = NoNode, !.hovered = NoNode, !.keyed = NoNode,
                             !.clearing = FALSE]
  OBVIOUS
<1>2. DOMAIN c = LookFields /\ (\A f \in LookFields \ Focusing : c[f] = l[f]) /\ c.locked = NoNode
  BY <1>1, LookNames DEF LookSound, LookTyped, Focusing
<1>3. Refocused(c, l)
  BY <1>2, FocusChange DEF Refocused
<1>4. q = l \/ q = RebuildLabels(c)
  BY <1>1 DEF ClearSelection
<1>5. CASE q = RebuildLabels(c)
  <2>1. Refocused(q, c)
    BY <1>3, <1>5, RebuildLabelsIs DEF Refocused
  <2> QED
    BY <1>3, <2>1, RefocusedTwice
<1> QED
  BY <1>4, <1>5, RefocusedSelf

LEMMA SetSelectionIs ==
  ASSUME NEW l, LookSound(l), NEW n, NEW q, q = SetSelection(l, n)
  PROVE  Refocused(q, l) /\ q.locked = l.locked
<1>1. PICK c : c = [l EXCEPT !.selected = IF n \in l.nodes THEN n ELSE NoNode]
  OBVIOUS
<1>2. DOMAIN c = LookFields /\ (\A f \in LookFields \ Focusing : c[f] = l[f]) /\ c.locked = l.locked
  BY <1>1, LookNames DEF LookSound, LookTyped, Focusing
<1>3. Refocused(c, l)
  BY <1>2, FocusChange DEF Refocused
<1>4. q = l \/ q = c \/ q = RebuildLabels(c)
  BY <1>1 DEF SetSelection, ApplyHighlight
<1>5. CASE q = RebuildLabels(c)
  <2>1. Refocused(q, c) /\ q.locked = c.locked
    BY <1>3, <1>5, RebuildLabelsIs DEF Refocused
  <2> QED
    BY <1>2, <1>3, <2>1, RefocusedTwice
<1> QED
  BY <1>2, <1>3, <1>4, <1>5, RefocusedSelf

\* A lock taken on a node that stays is shown.
LEMMA LockNodeIs ==
  ASSUME NEW l, LookSound(l), NEW n, NEW q, q = LockNode(l, n)
  PROVE  /\ LookSound(q) /\ q.live = l.live /\ q.nodes = l.nodes /\ q.ghosts = l.ghosts /\ q.turn = l.turn
         /\ \/ q = l /\ (n \notin l.nodes)
            \/ q.locked = n /\ (n \in l.nodes \ l.ghosts => Lit(q)) /\ Dealt(q)
<1>1. CASE ~l.live \/ n \notin l.nodes
  BY <1>1 DEF LockNode, LookSound
<1>2. CASE l.live /\ n \in l.nodes
  <2>1. PICK e : e = l.entering \ {n}
    OBVIOUS
  <2>2. PICK c : c = [l EXCEPT !.locked = n, !.entering = e]
    OBVIOUS
  <2>3. DOMAIN c = LookFields /\ (\A f \in LookFields \ {"locked", "entering"} : c[f] = l[f]) /\ c.locked = n
    BY <2>2, LookNames DEF LookSound, LookTyped
  <2>4. /\ c.live = l.live /\ c.nodes = l.nodes /\ c.ghosts = l.ghosts /\ c.turn = l.turn
        /\ c.moving = l.moving /\ c.place = l.place /\ c.memory = l.memory /\ c.strategy = l.strategy
        /\ c.boundary = l.boundary
    BY <2>3, LookNames
  <2>5. LookSound(c)
    BY <1>2, <2>3, <2>4 DEF LookSound, LookTyped, OffAxis
  <2>6. q = RebuildLabels(c)
    BY <1>2, <2>1, <2>2 DEF LockNode
  <2>7. /\ LookSound(q) /\ q.locked = n /\ q.nodes = c.nodes /\ q.ghosts = c.ghosts /\ q.turn = c.turn
        /\ q.live = c.live /\ (n \in q.nodes \ q.ghosts => Lit(q)) /\ Dealt(q)
    BY <2>3, <2>5, <2>6, RebuildLabelsIs DEF Keeps
  <2> QED
    BY <2>4, <2>7
<1> QED
  BY <1>1, <1>2

(***************************************************************************)
(* Nodes that come, move and go.                                           *)
(***************************************************************************)
\* The first k of a set are at most k.
LEMMA FirstsIs ==
  ASSUME NEW S \in SUBSET ReadNodes, NEW k \in Nat
  PROVE  Firsts(S, k) \subseteq S /\ Cardinality(Firsts(S, k)) <= k
<1> DEFINE F == Firsts(S, k)
<1> DEFINE Before(n) == {m \in S : m < n}
<1> DEFINE T == 0..(k - 1)
<1> DEFINE rank == [n \in F |-> Cardinality(Before(n))]
<1>1. F \subseteq S /\ F \subseteq ReadNodes /\ \A n \in F : Cardinality(Before(n)) < k
  BY DEF Firsts
<1>2. \A n \in S : Before(n) \in SUBSET ReadNodes /\ IsFiniteSet(Before(n)) /\ Cardinality(Before(n)) \in Nat
  BY NodesAre
<1>3. rank \in [F -> T]
  <2>1. \A n \in F : Cardinality(Before(n)) \in T
    <3> SUFFICES ASSUME NEW n \in F
                 PROVE  Cardinality(Before(n)) \in T
      OBVIOUS
    <3>1. Cardinality(Before(n)) \in Nat /\ Cardinality(Before(n)) < k
      BY <1>1, <1>2
    <3> HIDE DEF Before
    <3> QED
      BY <3>1
  <2> QED
    BY <2>1
<1>4. IsFiniteSet(T) /\ Cardinality(T) = k
  BY FS_Interval
<1>5. IsFiniteSet(F) /\ Cardinality(F) \in Nat
  BY <1>1, NodesAre
<1>6. SUFFICES ASSUME Cardinality(T) < Cardinality(F)
               PROVE  FALSE
  BY <1>1, <1>4, <1>5
<1>7. PICK x \in F, y \in F : x # y /\ rank[x] = rank[y]
  <2> HIDE DEF F, T, rank
  <2> QED
    BY <1>3, <1>4, <1>5, <1>6, FS_PigeonHole
<1>8. x \in Nat /\ y \in Nat
  BY <1>1, ReadAssumption
<1>9. \A a \in F, b \in F : a < b => rank[a] # rank[b]
  <2> SUFFICES ASSUME NEW a \in F, NEW b \in F, a < b, rank[a] = rank[b]
               PROVE  FALSE
    OBVIOUS
  <2>1. a \in Nat /\ b \in Nat /\ a \in S
    BY <1>1, ReadAssumption
  <2>2. Before(a) \subseteq Before(b)
    <3> SUFFICES ASSUME NEW m \in S, m < a
                 PROVE  m < b
      OBVIOUS
    <3>1. m \in Nat
      BY ReadAssumption
    <3> QED
      BY <2>1, <3>1
  <2>3. a \in Before(b) /\ a \notin Before(a)
    BY <2>1
  <2>4. IsFiniteSet(Before(b)) /\ Cardinality(Before(b)) = Cardinality(Before(a))
    BY <1>1, <1>2
  <2>5. Before(a) = Before(b)
    <3> HIDE DEF Before
    <3> QED
      BY <2>2, <2>4, FS_Subset
  <2> QED
    BY <2>3, <2>5
<1> QED
  BY <1>7, <1>8, <1>9

LEMMA PruneRetiringIs ==
  ASSUME NEW l, LookTyped(l), OffAxis(l), Cardinality(l.nodes) <= ReadBudget, l.moving = {},
         ~l.live => l.nodes = {} /\ l.locked = NoNode /\ l.turn = "idle",
         NEW q, q = PruneRetiring(l)
  PROVE  /\ LookSound(q) /\ Keeps(q, l) /\ q.ghosts = {} /\ q.turn = l.turn /\ q.locked = l.locked
         /\ q.strategy = l.strategy /\ q.boundary = l.boundary /\ q.moving = {}
<1>1. CASE l.ghosts = {}
  BY <1>1, KeepsSelf DEF PruneRetiring, LookSound
<1>2. CASE l.ghosts # {}
  <2>1. PICK N : N = l.nodes \ l.ghosts
    OBVIOUS
  <2>2. PICK p : p = [n \in N |-> l.place[n]]
    OBVIOUS
  <2>3. PICK c : c = [l EXCEPT !.nodes = N, !.ghosts = {}, !.place = p]
    OBVIOUS
  <2>4. DOMAIN c = LookFields /\ c.nodes = N /\ c.ghosts = {} /\ c.place = p
    BY <2>3, LookNames DEF LookTyped
  <2>5. \A f \in LookFields \ {"nodes", "ghosts", "place"} : c[f] = l[f]
    BY <2>3 DEF LookTyped
  <2>6. /\ c.live = l.live /\ c.turn = l.turn /\ c.moving = {} /\ c.memory = l.memory /\ c.strategy = l.strategy
        /\ c.boundary = l.boundary /\ c.locked = l.locked /\ c.cards = l.cards
    BY <2>5, LookNames
  <2>7. N \subseteq ReadNodes /\ Cardinality(N) <= ReadBudget
    <3>1. l.nodes \in SUBSET ReadNodes /\ N \in SUBSET l.nodes /\ N \in SUBSET ReadNodes
      BY <2>1 DEF LookTyped
    <3>2. Cardinality(N) <= Cardinality(l.nodes) /\ Cardinality(N) \in Nat /\ Cardinality(l.nodes) \in Nat
      BY <3>1, NodesAre
    <3> QED
      BY <3>1, <3>2, NodesAre
  <2>8. LookTyped(c)
    BY <2>2, <2>4, <2>6, <2>7 DEF LookTyped
  <2>9. OffAxis(c)
    BY <2>1, <2>2, <2>4, <2>6 DEF OffAxis
  <2>10. LookSound(c)
    BY <2>1, <2>4, <2>6, <2>7, <2>8, <2>9 DEF LookSound
  <2>11. Keeps(c, l)
    BY <2>1, <2>4, <2>6 DEF Keeps, Lit, Dealt
  <2>12. q = RebuildLabels(c)
    BY <1>2, <2>1, <2>2, <2>3 DEF PruneRetiring, Restrict
  <2>13. /\ LookSound(q) /\ Keeps(q, c) /\ q.ghosts = c.ghosts /\ q.turn = c.turn /\ q.locked = c.locked
         /\ q.strategy = c.strategy /\ q.boundary = c.boundary /\ q.moving = {}
    <3>1. q.moving = {}
      <4>1. q = [c EXCEPT !.label = LabelFocus(c), !.cards = PlanCards(c)]
        BY <2>12 DEF RebuildLabels
      <4> QED
        BY <2>4, <2>6, <4>1, LookNames
    <3> QED
      BY <2>10, <2>12, <3>1, RebuildLabelsIs
  <2> QED
    BY <2>4, <2>6, <2>11, <2>13, KeepsTwice
<1> QED
  BY <1>1, <1>2

LEMMA FinishTurnIs ==
  ASSUME NEW l, LookSound(l), l.moving = {}, NEW q, q = FinishTurn(l)
  PROVE  /\ LookSound(q) /\ Keeps(q, l) /\ q.ghosts = {} /\ q.locked = l.locked
         /\ q.strategy = l.strategy /\ q.boundary = l.boundary
<1>1. CASE l.turn # "entering"
  BY <1>1, KeepsSelf DEF FinishTurn, LookSound
<1>2. CASE l.turn = "entering"
  <2>1. PICK p : p = PruneRetiring(l)
    OBVIOUS
  <2>2. /\ LookSound(p) /\ Keeps(p, l) /\ p.ghosts = {} /\ p.locked = l.locked
        /\ p.strategy = l.strategy /\ p.boundary = l.boundary
    BY <2>1, PruneRetiringIs DEF LookSound
  <2>3. q = [p EXCEPT !.turn = "idle"]
    BY <1>2, <2>1 DEF FinishTurn
  <2>4. DOMAIN q = LookFields /\ q.turn = "idle" /\ \A f \in LookFields \ {"turn"} : q[f] = p[f]
    BY <2>2, <2>3, LookNames DEF LookSound, LookTyped
  <2>5. /\ q.live = p.live /\ q.nodes = p.nodes /\ q.ghosts = p.ghosts /\ q.locked = p.locked /\ q.cards = p.cards
        /\ q.moving = p.moving /\ q.place = p.place /\ q.memory = p.memory /\ q.strategy = p.strategy
        /\ q.boundary = p.boundary
    BY <2>4, LookNames
  <2>6. LookSound(q)
    BY <2>2, <2>4, <2>5, LookWords DEF LookSound, LookTyped, OffAxis
  <2>7. Keeps(q, p)
    BY <2>4, <2>5 DEF Keeps, Lit, Dealt
  <2> QED
    BY <2>2, <2>5, <2>6, <2>7, KeepsTwice
<1> QED
  BY <1>1, <1>2

LEMMA CancelTurnIs ==
  ASSUME NEW l, LookSound(l), NEW q, q = CancelTurn(l)
  PROVE  /\ LookSound(q) /\ Keeps(q, l) /\ q.ghosts = {} /\ q.turn = "idle" /\ q.locked = l.locked
         /\ q.strategy = l.strategy /\ q.boundary = l.boundary
<1>1. PICK c : c = [l EXCEPT !.moving = {}]
  OBVIOUS
<1>2. DOMAIN c = LookFields /\ c.moving = {} /\ \A f \in LookFields \ {"moving"} : c[f] = l[f]
  BY <1>1, LookNames DEF LookSound, LookTyped
<1>3. /\ c.live = l.live /\ c.nodes = l.nodes /\ c.ghosts = l.ghosts /\ c.locked = l.locked /\ c.cards = l.cards
      /\ c.turn = l.turn /\ c.place = l.place /\ c.memory = l.memory /\ c.strategy = l.strategy
      /\ c.boundary = l.boundary
  BY <1>2, LookNames
<1>4. LookSound(c) /\ Keeps(c, l)
  BY <1>2, <1>3 DEF LookSound, LookTyped, OffAxis, Keeps, Lit, Dealt
<1>5. PICK p : p = PruneRetiring(c)
  OBVIOUS
<1>6. /\ LookSound(p) /\ Keeps(p, c) /\ p.ghosts = {} /\ p.locked = c.locked
      /\ p.strategy = c.strategy /\ p.boundary = c.boundary
  BY <1>2, <1>4, <1>5, PruneRetiringIs DEF LookSound
<1>7. q = [p EXCEPT !.turn = "idle"]
  BY <1>1, <1>5 DEF CancelTurn
<1>8. DOMAIN q = LookFields /\ q.turn = "idle" /\ \A f \in LookFields \ {"turn"} : q[f] = p[f]
  BY <1>6, <1>7, LookNames DEF LookSound, LookTyped
<1>9. /\ q.live = p.live /\ q.nodes = p.nodes /\ q.ghosts = p.ghosts /\ q.locked = p.locked /\ q.cards = p.cards
      /\ q.moving = p.moving /\ q.place = p.place /\ q.memory = p.memory /\ q.strategy = p.strategy
      /\ q.boundary = p.boundary
  BY <1>8, LookNames
<1>10. LookSound(q)
  BY <1>6, <1>8, <1>9, LookWords DEF LookSound, LookTyped, OffAxis
<1>11. Keeps(q, p)
  BY <1>8, <1>9 DEF Keeps, Lit, Dealt
<1> QED
  BY <1>3, <1>4, <1>6, <1>8, <1>9, <1>10, <1>11, KeepsTwice

LEMMA FinishSettleIs ==
  ASSUME NEW l, LookSound(l), NEW q, q = FinishSettle(l)
  PROVE  Refocused(q, l) /\ q.locked = l.locked
<1>1. PICK m : m = [n \in DOMAIN l.memory \cup (l.settling \cap l.nodes) |->
                      IF n \in l.settling \cap l.nodes THEN l.place[n] ELSE l.memory[n]]
  OBVIOUS
<1>2. q = [l EXCEPT !.settling = {}, !.memory = m]
  BY <1>1 DEF FinishSettle
<1>3. DOMAIN q = LookFields /\ q.memory = m /\ \A f \in LookFields \ {"settling", "memory"} : q[f] = l[f]
  BY <1>2, LookNames DEF LookSound, LookTyped
<1>4. /\ q.live = l.live /\ q.nodes = l.nodes /\ q.ghosts = l.ghosts /\ q.locked = l.locked /\ q.cards = l.cards
      /\ q.turn = l.turn /\ q.place = l.place /\ q.moving = l.moving /\ q.strategy = l.strategy
      /\ q.boundary = l.boundary
  BY <1>3, LookNames
<1>5. OffAxis(l) => \A n \in DOMAIN m : l.strategy = "accumulation" /\ ~l.boundary => m[n] # Axis
  BY <1>1 DEF OffAxis
<1>6. LookSound(q)
  BY <1>3, <1>4, <1>5 DEF LookSound, LookTyped, OffAxis
<1> QED
  BY <1>4, <1>6 DEF Refocused, Keeps, Lit, Dealt

LEMMA SetStrategyIs ==
  ASSUME NEW l, LookSound(l), NEW s \in Layouts, NEW q, q = SetStrategy(l, s)
  PROVE  LookSound(q) /\ Keeps(q, l) /\ q.locked = l.locked /\ (l.live => q.strategy = s)
<1>1. CASE ~l.live \/ l.strategy = s
  BY <1>1, KeepsSelf DEF SetStrategy
<1>2. CASE ~(~l.live \/ l.strategy = s)
  <2>1. PICK f : f = FinishSettle(l)
    OBVIOUS
  <2>2. LookSound(f) /\ Keeps(f, l) /\ f.locked = l.locked
    BY <2>1, FinishSettleIs DEF Refocused
  <2>3. PICK t : t = CancelTurn(f)
    OBVIOUS
  <2>4. LookSound(t) /\ Keeps(t, f) /\ t.locked = f.locked
    BY <2>2, <2>3, CancelTurnIs
  <2>5. PICK c : c = [t EXCEPT !.strategy = s, !.boundary = TRUE]
    OBVIOUS
  <2>6. DOMAIN c = LookFields /\ c.strategy = s /\ c.boundary = TRUE
        /\ \A g \in LookFields \ {"strategy", "boundary"} : c[g] = t[g]
    BY <2>4, <2>5, LookNames DEF LookSound, LookTyped
  <2>7. /\ c.live = t.live /\ c.nodes = t.nodes /\ c.ghosts = t.ghosts /\ c.locked = t.locked /\ c.cards = t.cards
        /\ c.turn = t.turn /\ c.place = t.place /\ c.moving = t.moving /\ c.memory = t.memory
    BY <2>6, LookNames
  <2>8. LookSound(c) /\ Keeps(c, t)
    BY <2>4, <2>6, <2>7 DEF LookSound, LookTyped, OffAxis, Keeps, Lit, Dealt
  <2>9. q = RebuildLabels(c)
    BY <1>2, <2>1, <2>3, <2>5 DEF SetStrategy
  <2>10. LookSound(q) /\ Keeps(q, c) /\ q.locked = c.locked /\ q.strategy = c.strategy
    BY <2>8, <2>9, RebuildLabelsIs
  <2>11. Keeps(t, l)
    BY <2>2, <2>4, KeepsTwice
  <2>12. Keeps(c, l)
    BY <2>8, <2>11, KeepsTwice
  <2> QED
    BY <2>2, <2>4, <2>6, <2>7, <2>10, <2>12, KeepsTwice
<1> QED
  BY <1>1, <1>2

LEMMA PauseReadingIs ==
  ASSUME NEW l, LookSound(l), NEW q, q = PauseReading(l)
  PROVE  Refocused(q, l)
<1>1. PICK k : k = ClearKeys(l, FALSE)
  OBVIOUS
<1>2. Refocused(k, l)
  BY <1>1, ClearKeysIs
<1>3. PICK f : f = FinishSettle(k)
  OBVIOUS
<1>4. Refocused(f, k)
  BY <1>2, <1>3, FinishSettleIs DEF Refocused
<1>5. PICK c : c = [f EXCEPT !.paused = TRUE, !.clearing = FALSE, !.hovered = NoNode]
  OBVIOUS
<1>6. DOMAIN c = LookFields /\ (\A g \in LookFields \ Focusing : c[g] = f[g]) /\ c.locked = f.locked
  BY <1>4, <1>5, LookNames DEF Refocused, LookSound, LookTyped, Focusing
<1>7. Refocused(c, f)
  BY <1>4, <1>6, FocusChange DEF Refocused
<1>8. q = l \/ q = c
  BY <1>1, <1>3, <1>5 DEF PauseReading
<1> QED
  BY <1>2, <1>4, <1>7, <1>8, RefocusedTwice, RefocusedSelf

LEMMA AwakeIs ==
  ASSUME NEW l, LookSound(l), NEW q, q = ApplyHighlight([l EXCEPT !.paused = FALSE])
  PROVE  Refocused(q, l)
<1>1. PICK c : c = [l EXCEPT !.paused = FALSE]
  OBVIOUS
<1>2. DOMAIN c = LookFields /\ (\A g \in LookFields \ Focusing : c[g] = l[g]) /\ c.locked = l.locked
  BY <1>1, LookNames DEF LookSound, LookTyped, Focusing
<1>3. Refocused(c, l) /\ LookSound(c)
  BY <1>2, FocusChange DEF Refocused
<1>4. q = ApplyHighlight(c)
  BY <1>1
<1>5. Refocused(q, c)
  BY <1>3, <1>4, ApplyHighlightIs
<1> QED
  BY <1>3, <1>5, RefocusedTwice

LEMMA ResumeReadingIs ==
  ASSUME NEW l, LookSound(l), NEW q, q = ResumeReading(l)
  PROVE  Refocused(q, l)
BY AwakeIs, RefocusedSelf DEF ResumeReading

LEMMA ClearReadingIs ==
  ASSUME NEW l, LookSound(l), NEW q, q = ClearReading(l)
  PROVE  LookSound(q) /\ Keeps(q, l) /\ q.turn = "idle"
<1>1. CASE ~l.live
  BY <1>1, KeepsSelf DEF ClearReading, LookSound
<1>2. CASE l.live
  <2>1. PICK t : t = CancelTurn(l)
    OBVIOUS
  <2>2. LookSound(t) /\ Keeps(t, l) /\ t.turn = "idle"
    BY <2>1, CancelTurnIs
  <2>3. PICK c : c = [t EXCEPT !.locked = NoNode, !.selected = NoNode]
    OBVIOUS
  <2>4. DOMAIN c = LookFields /\ (\A g \in LookFields \ Focusing : c[g] = t[g]) /\ c.locked = NoNode
    BY <2>2, <2>3, LookNames DEF LookSound, LookTyped, Focusing
  <2>5. Refocused(c, t) /\ LookSound(c)
    BY <2>2, <2>4, FocusChange DEF Refocused
  <2>6. PICK k : k = ClearKeys(c, FALSE)
    OBVIOUS
  <2>7. Refocused(k, c)
    BY <2>5, <2>6, ClearKeysIs
  <2>8. PICK h : h = HoverNothing(k)
    OBVIOUS
  <2>9. Refocused(h, k)
    BY <2>7, <2>8, HoverNothingIs DEF Refocused
  <2>10. q = RebuildLabels(h)
    BY <1>2, <2>1, <2>3, <2>6, <2>8 DEF ClearReading
  <2>11. Refocused(q, h)
    BY <2>9, <2>10, RebuildLabelsIs DEF Refocused
  <2>12. Refocused(k, t)
    BY <2>5, <2>7, RefocusedTwice
  <2>13. Refocused(h, t)
    BY <2>9, <2>12, RefocusedTwice
  <2>14. Refocused(q, t)
    BY <2>11, <2>13, RefocusedTwice
  <2> QED
    BY <2>2, <2>14, KeepsTwice DEF Refocused
<1> QED
  BY <1>1, <1>2

(***************************************************************************)
(* A delivery of data.                                                     *)
(***************************************************************************)
LEMMA KeepsShows ==
  ASSUME NEW l, NEW q, Keeps(q, l), NEW S \in Scenes, Shows(l, S)
  PROVE  Shows(q, S)
<1>1. NoNode \notin S
  BY NodesAre
<1>2. q.locked \in S => Lit(q)
  BY <1>1 DEF Keeps, Shows
<1> QED
  BY <1>2 DEF Keeps, Shows

LEMMA NothingShows ==
  ASSUME NEW l, l.nodes = {}, l.ghosts = {}, l.locked = NoNode, Dealt(l), NEW S \in Scenes
  PROVE  Shows(l, S)
BY NodesAre DEF Shows

LEMMA ProjectedIs ==
  ASSUME NEW l, NEW N \in Scenes, NEW S, S = Projected(l, N)
  PROVE  S \subseteq N /\ (l.strategy = "exploration" => S = N) /\ S \in Scenes
<1>1. S \subseteq N /\ (l.strategy = "exploration" => S = N)
  BY DEF Projected
<1>2. N \in SUBSET ReadNodes /\ S \in SUBSET N /\ S \in SUBSET ReadNodes
  BY <1>1, NodesAre
<1>3. Cardinality(S) <= Cardinality(N) /\ Cardinality(N) <= ReadBudget /\ Cardinality(S) \in Nat /\ Cardinality(N) \in Nat
  BY <1>2, NodesAre
<1>4. Cardinality(S) <= ReadBudget
  BY <1>3, NodesAre
<1> QED
  BY <1>1, <1>2, <1>4 DEF Scenes

\* What leaves is drawn beside what comes, within the budget.
Beside(g, old, S) ==
  g \subseteq old \ S /\ S \cup g \subseteq ReadNodes /\ Cardinality(S \cup g) <= ReadBudget

LEMMA NoGhosts ==
  ASSUME NEW old, NEW S \in Scenes
  PROVE  Beside({}, old, S)
<1>1. S \cup {} = S
  OBVIOUS
<1> QED
  BY <1>1, NodesAre DEF Beside

LEMMA GhostsIs ==
  ASSUME NEW old, old \subseteq ReadNodes, NEW S \in Scenes, NEW g, g = Ghosts(old, S)
  PROVE  Beside(g, old, S)
<1>1. S \subseteq ReadNodes /\ Cardinality(S) <= ReadBudget /\ Cardinality(S) \in Nat /\ IsFiniteSet(S) /\ ReadBudget \in Nat
  BY NodesAre
<1>2. PICK k \in Nat : k = ReadBudget - Cardinality(S)
  BY <1>1
<1>3. PICK R \in SUBSET ReadNodes : R = old \ S
  OBVIOUS
<1>4. g = Firsts(R, k)
  BY <1>2, <1>3 DEF Ghosts
<1>5. g \subseteq R /\ Cardinality(g) <= k
  BY <1>4, FirstsIs
<1>6. IsFiniteSet(g) /\ Cardinality(g) \in Nat /\ g \subseteq ReadNodes
  BY <1>5, NodesAre
<1>7. S \cap g = {}
  BY <1>3, <1>5
<1>8. Cardinality(S \cup g) = Cardinality(S) + Cardinality(g) - Cardinality(S \cap g)
  BY <1>1, <1>6, FS_Union
<1>9. Cardinality(S \cap g) = 0
  BY <1>7, NodesAre
<1>10. Cardinality(S \cup g) <= ReadBudget
  BY <1>1, <1>2, <1>5, <1>6, <1>8, <1>9
<1> QED
  BY <1>1, <1>3, <1>5, <1>6, <1>10 DEF Beside

\* Nodes that come are given places of the layout.
LEMMA PlacedIs ==
  ASSUME NEW b, LookSound(b), NEW memory, NEW old, NEW S, NEW animated \in BOOLEAN,
         animated => b.strategy = "exploration",
         b.strategy = "accumulation" =>
           /\ old # {} => ~b.boundary /\ old \subseteq b.nodes
           /\ \A n \in DOMAIN memory : memory[n] # Axis,
         NEW here, here = Placed([b EXCEPT !.memory = memory], old, S, animated)
  PROVE  DOMAIN here = S /\ (b.strategy = "accumulation" => \A n \in S : here[n] # Axis)
<1>1. PICK c : c = [b EXCEPT !.memory = memory]
  OBVIOUS
<1>2. c.memory = memory /\ c.strategy = b.strategy /\ c.place = b.place
  BY <1>1, LookNames DEF LookSound, LookTyped
<1>3. here = [n \in S |-> IF n \in old /\ ~animated THEN c.place[n] ELSE ReadTarget(c, n, animated)]
  BY <1>1 DEF Placed
<1>4. ASSUME b.strategy = "accumulation", NEW n \in S
      PROVE  here[n] # Axis
  <2>1. ~animated /\ c.strategy # "exploration"
    BY <1>2, <1>4
  <2>2. CASE n \in old
    BY <1>2, <1>3, <1>4, <2>1, <2>2 DEF LookSound, OffAxis
  <2>3. CASE n \notin old
    <3>1. here[n] = IF n \in DOMAIN memory THEN memory[n] ELSE FreeCell
      BY <1>2, <1>3, <1>4, <2>1, <2>3 DEF ReadTarget
    <3>2. FreeCell # Axis
      BY DEF FreeCell, Axis
    <3> QED
      BY <1>4, <3>1, <3>2
  <2> QED
    BY <2>2, <2>3
<1> QED
  BY <1>3, <1>4

\* The engine after the data has been taken over.
Taken(b, S, g, moving, spots, memory, entering, locked, turn, epoch) ==
  [b EXCEPT !.boundary = FALSE, !.epoch = epoch, !.nodes = S \cup g, !.ghosts = g, !.moving = moving,
            !.entering = entering, !.place = spots, !.memory = memory, !.locked = locked, !.turn = turn]

Takable(b, S, g, moving, spots, memory, turn) ==
  /\ Beside(g, b.nodes, S) /\ moving \subseteq S \cup g /\ DOMAIN spots = S \cup g
  /\ turn \in {b.turn, "entering"} /\ (g # {} => turn = "entering")
  /\ b.strategy = "accumulation" => /\ \A n \in S \cup g : spots[n] # Axis
                                    /\ \A n \in DOMAIN memory : memory[n] # Axis
Holds(r, S, g, moving, turn) ==
  /\ LookSound(r) /\ r.live /\ r.nodes = S \cup g /\ r.ghosts = g /\ r.moving = moving /\ r.turn = turn

LEMMA TakenIs ==
  ASSUME NEW b, LookSound(b), b.live, NEW S, NEW g, NEW moving, NEW spots, NEW memory, NEW entering, NEW locked,
         NEW turn, NEW epoch, Takable(b, S, g, moving, spots, memory, turn),
         NEW r, r = Taken(b, S, g, moving, spots, memory, entering, locked, turn, epoch)
  PROVE  Holds(r, S, g, moving, turn)
<1>1. /\ DOMAIN r = LookFields /\ r.boundary = FALSE /\ r.nodes = S \cup g /\ r.ghosts = g /\ r.moving = moving
      /\ r.place = spots /\ r.memory = memory /\ r.locked = locked /\ r.turn = turn
  BY LookNames DEF LookSound, LookTyped, Taken
<1>2. r.live = b.live /\ r.strategy = b.strategy
  BY LookNames DEF LookSound, LookTyped, Taken
<1>3. LookTyped(r)
  <2>1. r.live \in BOOLEAN /\ r.strategy \in Layouts /\ r.boundary \in BOOLEAN
    BY <1>1, <1>2 DEF LookSound, LookTyped
  <2>2. turn \in PageTurns
    BY LookWords DEF LookSound, LookTyped, Takable
  <2>3. PICK N : N = S \cup g
    OBVIOUS
  <2>4. N \subseteq ReadNodes /\ g \subseteq N /\ moving \subseteq N /\ DOMAIN spots = N
    BY <2>3 DEF Takable, Beside
  <2> QED
    BY <1>1, <2>1, <2>2, <2>3, <2>4 DEF LookTyped
<1>4. OffAxis(r)
  BY <1>1, <1>2 DEF Takable, OffAxis
<1>5. (r.ghosts # {} => r.turn = "entering") /\ Cardinality(r.nodes) <= ReadBudget
  BY <1>1 DEF Takable, Beside
<1> QED
  BY <1>1, <1>2, <1>3, <1>4, <1>5 DEF LookSound, Holds

LEMMA DropFocusIs ==
  ASSUME NEW l, LookSound(l), NEW q, q = DropFocus(l)
  PROVE  Refocused(q, l) /\ (q.locked = NoNode \/ q.locked \in q.nodes)
<1>1. PICK a : a = Forget(l, l.locked)
  OBVIOUS
<1>2. PICK s : s = Forget(l, l.selected)
  OBVIOUS
<1>3. PICK k : k = Forget(l, l.keyed)
  OBVIOUS
<1>4. PICK h : h = Forget(l, l.hovered)
  OBVIOUS
<1>5. PICK c : c = (l.clearing /\ l.hovered \in l.nodes)
  OBVIOUS
<1>6. q = [l EXCEPT !.locked = a, !.selected = s, !.keyed = k, !.clearing = c, !.hovered = h]
  BY <1>1, <1>2, <1>3, <1>4, <1>5 DEF DropFocus
<1>7. DOMAIN q = LookFields /\ (\A f \in LookFields \ Focusing : q[f] = l[f]) /\ q.locked = a
  BY <1>6, LookNames DEF LookSound, LookTyped, Focusing
<1>8. (a = NoNode \/ a \in l.nodes) /\ (a = l.locked \/ a = NoNode)
  BY <1>1 DEF Forget
<1>9. Refocused(q, l)
  BY <1>7, <1>8, FocusChange DEF Refocused
<1> QED
  BY <1>7, <1>8, <1>9 DEF Refocused

\* The engine at rest takes the nodes over.
LEMMA TakeOverIs ==
  ASSUME NEW l, LookSound(l), NEW base, LookSound(base), base.live, base.strategy = l.strategy,
         base.boundary = l.boundary, NEW d, d.nodes \in Scenes, d.moved \in BOOLEAN, NEW next, next = TakeOver(l, d, base)
  PROVE  /\ LookSound(next) /\ next.live /\ next.nodes \ next.ghosts \subseteq d.nodes /\ next.ghosts \cap d.nodes = {}
         /\ next.turn = "asked" => base.turn = "asked"
<1> DEFINE animated == Animated(l, d)
<1> DEFINE old == IF l.boundary THEN {} ELSE base.nodes
<1> DEFINE S == Projected(base, d.nodes)
<1> DEFINE memory == Remembered(base, l.boundary \/ NewEpoch(l, d))
<1> DEFINE here == Placed([base EXCEPT !.memory = memory], old, S, animated)
<1> DEFINE g == IF animated /\ ~desk.trip.still THEN Ghosts(old, S) ELSE {}
<1> DEFINE moving == IF animated /\ ~desk.trip.still THEN S \cup g ELSE {}
<1> DEFINE came == IF animated \/ Stable(l, d) \/ desk.trip.still THEN {} ELSE S \ old
<1> DEFINE entering == IF animated THEN {} ELSE (base.entering \cap old \cap S) \cup came
<1> DEFINE spots == [n \in S \cup g |-> IF n \in S THEN here[n] ELSE base.place[n]]
<1> DEFINE kept == [n \in DOMAIN memory \cup S |-> IF n \in S THEN here[n] ELSE memory[n]]
<1> DEFINE locked == IF NewEpoch(l, d) THEN NoNode ELSE base.locked
<1> DEFINE turn == IF animated THEN "entering" ELSE base.turn
<1> DEFINE epoch == d.epoch
<1>1. next = Taken(base, S, g, moving, spots, kept, entering, locked, turn, epoch)
  BY DEF TakeOver, Taken
<1> HIDE DEF animated, old, S, memory, here, g, moving, came, entering, spots, kept, locked, turn, epoch
<1>2. animated \in BOOLEAN /\ (animated => l.strategy = "exploration")
  BY DEF animated, Animated, Moves, NewEpoch, Stable
<1>3. S \subseteq d.nodes /\ (l.strategy = "exploration" => S = d.nodes) /\ S \in Scenes
  BY ProjectedIs DEF S
<1>4. base.strategy = "accumulation" =>
        /\ old # {} => ~base.boundary /\ old \subseteq base.nodes
        /\ \A n \in DOMAIN memory : memory[n] # Axis
  BY DEF old, memory, Remembered, LookSound, OffAxis
<1>5. DOMAIN here = S /\ (base.strategy = "accumulation" => \A n \in S : here[n] # Axis)
  BY <1>2, <1>4, PlacedIs DEF here
<1>6. Beside(g, base.nodes, S) /\ (g # {} => animated)
  <2>1. old \subseteq ReadNodes /\ old \subseteq base.nodes
    BY DEF old, LookSound, LookTyped
  <2>2. CASE g = {}
    BY <1>3, <2>2, NoGhosts
  <2>3. CASE g = Ghosts(old, S) /\ animated
    <3>1. Beside(g, old, S)
      BY <1>3, <2>1, <2>3, GhostsIs
    <3> QED
      BY <2>1, <2>3, <3>1 DEF Beside
  <2> QED
    BY <2>2, <2>3 DEF g
<1>7. moving \subseteq S \cup g
  BY DEF moving
<1>8. turn \in {base.turn, "entering"} /\ (g # {} => turn = "entering")
  BY <1>6 DEF turn
<1>9. base.strategy = "accumulation" => /\ \A n \in S \cup g : spots[n] # Axis
                                        /\ \A n \in DOMAIN kept : kept[n] # Axis
  <2>1. base.strategy = "accumulation" => g = {}
    BY <1>2, <1>6
  <2> QED
    BY <1>4, <1>5, <2>1 DEF spots, kept
<1>10. DOMAIN spots = S \cup g
  BY DEF spots
<1>11. Takable(base, S, g, moving, spots, kept, turn)
  BY <1>6, <1>7, <1>8, <1>9, <1>10 DEF Takable
<1>12. Holds(next, S, g, moving, turn)
  BY <1>1, <1>11, TakenIs
<1>13. (S \cup g) \ g \subseteq d.nodes /\ g \cap d.nodes = {}
  BY <1>2, <1>3, <1>6 DEF Beside
<1> QED
  BY <1>8, <1>12, <1>13 DEF Holds

LEMMA ReadDataIs ==
  ASSUME NEW l, LookSound(l), l.live, NEW d, d.nodes \in Scenes, d.moved \in BOOLEAN, NEW q, q = ReadData(l, d)
  PROVE  LookSound(q) /\ q.live /\ Shows(q, d.nodes) /\ (q.turn = "asked" => l.turn = "asked")
<1>1. PICK rest : rest = FinishSettle(l)
  OBVIOUS
<1>2. Refocused(rest, l)
  BY <1>1, FinishSettleIs
<1>3. PICK base : base = IF CutShort(l, d) THEN CancelTurn(rest) ELSE rest
  OBVIOUS
<1>4. /\ LookSound(base) /\ base.live /\ base.strategy = l.strategy /\ base.boundary = l.boundary
      /\ base.turn = "asked" => l.turn = "asked"
  <2>1. CASE base = rest
    BY <1>2, <2>1 DEF Refocused, Keeps
  <2>2. CASE base = CancelTurn(rest)
    BY <1>2, <2>2, CancelTurnIs DEF Refocused, Keeps
  <2> QED
    BY <1>3, <2>1, <2>2
<1>5. PICK next : next = TakeOver(l, d, base)
  OBVIOUS
<1>6. /\ LookSound(next) /\ next.live /\ next.nodes \ next.ghosts \subseteq d.nodes /\ next.ghosts \cap d.nodes = {}
      /\ next.turn = "asked" => base.turn = "asked"
  BY <1>4, <1>5, TakeOverIs
<1>7. PICK free : free = DropFocus(next)
  OBVIOUS
<1>8. Refocused(free, next) /\ (free.locked = NoNode \/ free.locked \in free.nodes)
  BY <1>6, <1>7, DropFocusIs
<1>9. PICK shown : shown = RebuildLabels(free)
  OBVIOUS
<1>10. /\ LookSound(shown) /\ shown.live /\ shown.nodes = next.nodes /\ shown.ghosts = next.ghosts
       /\ shown.turn = next.turn
       /\ shown.locked = NoNode \/ shown.locked \in shown.nodes
       /\ shown.locked \in shown.nodes \ shown.ghosts => Lit(shown)
       /\ Dealt(shown)
  BY <1>6, <1>8, <1>9, RebuildLabelsIs DEF Refocused, Keeps
<1>11. Shows(shown, d.nodes)
  <2>1. NoNode \notin d.nodes
    BY NodesAre
  <2> QED
    BY <1>6, <1>10, <2>1 DEF Shows
<1>12. q = IF shown.moving = {} THEN FinishTurn(shown) ELSE shown
  BY <1>1, <1>3, <1>5, <1>7, <1>9 DEF ReadData
<1>13. CASE shown.moving # {}
  BY <1>4, <1>6, <1>10, <1>11, <1>12, <1>13
<1>14. CASE shown.moving = {}
  <2>1. LookSound(q) /\ Keeps(q, shown)
    BY <1>10, <1>12, <1>14, FinishTurnIs
  <2> QED
    BY <1>4, <1>6, <1>10, <1>11, <2>1, KeepsShows DEF Keeps
<1> QED
  BY <1>13, <1>14

\* A commit shows the scene the controller has, or leaves what was shown.
LEMMA DeliverIs ==
  ASSUME NEW l, LookSound(l), Dealt(l), NEW c, NEW d, d.nodes = c.scene, c.scene \in Scenes, d.moved \in BOOLEAN,
         c.strategy \in Layouts, c.interactive \/ Shows(l, c.scene), NEW q, q = Deliver(l, c, d)
  PROVE  LookSound(q) /\ Shows(q, c.scene) /\ q.live = l.live /\ (q.turn = "asked" => l.turn = "asked")
<1>1. PICK s : s = SetStrategy(l, c.strategy)
  OBVIOUS
<1>2. LookSound(s) /\ Keeps(s, l)
  BY <1>1, SetStrategyIs
<1>3. CASE ~c.interactive
  <2>1. q = s
    BY <1>1, <1>3 DEF Deliver
  <2> QED
    BY <1>2, <1>3, <2>1, KeepsShows DEF Keeps
<1>4. CASE c.interactive
  <2>1. PICK r : r = ReadData(s, d)
    OBVIOUS
  <2>2. LookSound(r) /\ Shows(r, c.scene) /\ r.live = s.live /\ (r.turn = "asked" => s.turn = "asked")
    <3>1. CASE ~s.live
      <4>1. r = s
        BY <2>1, <3>1 DEF ReadData
      <4>2. s.nodes = {} /\ s.ghosts = {} /\ s.locked = NoNode /\ Dealt(s)
        BY <1>2, <3>1 DEF LookSound, LookTyped, Keeps
      <4> QED
        BY <1>2, <4>1, <4>2, NothingShows
    <3>2. CASE s.live
      <4>1. s.live = TRUE
        BY <1>2, <3>2 DEF LookSound, LookTyped
      <4>2. LookSound(r) /\ r.live /\ Shows(r, d.nodes) /\ (r.turn = "asked" => s.turn = "asked")
        BY <1>2, <2>1, <3>2, ReadDataIs
      <4>3. r.live = TRUE
        BY <4>2 DEF LookSound, LookTyped
      <4> QED
        BY <4>1, <4>2, <4>3
    <3> QED
      BY <3>1, <3>2
  <2>3. PICK t : t = SetSelection(r, c.selected)
    OBVIOUS
  <2>4. Refocused(t, r)
    BY <2>2, <2>3, SetSelectionIs
  <2>5. q = ResumeReading(t)
    BY <1>1, <1>4, <2>1, <2>3 DEF Deliver
  <2>6. Refocused(q, t)
    BY <2>4, <2>5, ResumeReadingIs DEF Refocused
  <2>7. Refocused(q, r)
    BY <2>4, <2>6, RefocusedTwice
  <2>8. Shows(q, c.scene)
    BY <2>2, <2>7, KeepsShows DEF Refocused
  <2> QED
    BY <1>2, <2>2, <2>7, <2>8 DEF Refocused, Keeps
<1> QED
  BY <1>3, <1>4

(***************************************************************************)
(* The controller.                                                         *)
(***************************************************************************)
DeskFields ==
  {"trip", "left", "scene", "strategy", "epoch", "interactive", "hidden", "locked", "selected", "kept", "lockNext",
   "homeNext"}
KeptSound(k) ==
  /\ k.is \in BOOLEAN
  /\ k.is => k.scene \in Scenes /\ (k.locked # NoNode => k.locked \in k.scene)
DeskSound(c) ==
  /\ DOMAIN c = DeskFields /\ c.trip \in ReadTrips /\ c.left \in 0..c.trip.left /\ c.scene \in Scenes
  /\ c.strategy \in Layouts /\ c.interactive \in BOOLEAN
  /\ c.locked # NoNode => c.locked \in c.scene
  /\ KeptSound(c.kept)

\* The inductive invariant.
ReadingSound ==
  /\ LookSound(look) /\ Shows(look, desk.scene) /\ DeskSound(desk)
  /\ look.turn = "asked" => desk.interactive

\* The same scene, with another focus perhaps.
SameScene(e, c) ==
  DeskSound(e) /\ e.scene = c.scene /\ e.interactive = c.interactive /\ e.strategy = c.strategy /\ e.trip = c.trip

\* What a change of focus leaves alone.
SameRest(e, c) ==
  /\ e.trip = c.trip /\ e.scene = c.scene /\ e.strategy = c.strategy /\ e.interactive = c.interactive
  /\ e.kept = c.kept

LEMMA DeskNames ==
  /\ "trip" \in DeskFields /\ "left" \in DeskFields /\ "scene" \in DeskFields /\ "strategy" \in DeskFields
  /\ "epoch" \in DeskFields /\ "interactive" \in DeskFields /\ "hidden" \in DeskFields /\ "locked" \in DeskFields
  /\ "selected" \in DeskFields /\ "kept" \in DeskFields /\ "lockNext" \in DeskFields /\ "homeNext" \in DeskFields
BY DEF DeskFields

LEMMA DeskChange ==
  ASSUME NEW c, DeskSound(c), NEW e, DOMAIN e = DeskFields, SameRest(e, c),
         e.left = c.left \/ (c.left > 0 /\ e.left = c.left - 1),
         e.locked = c.locked \/ e.locked = NoNode \/ e.locked \in c.scene
  PROVE  SameScene(e, c)
<1>1. /\ e.trip = c.trip /\ e.scene = c.scene /\ e.strategy = c.strategy /\ e.interactive = c.interactive
      /\ e.kept = c.kept
  BY DEF SameRest
<1>2. e.left \in 0..c.trip.left
  <2>1. c.trip.left \in Nat /\ c.left \in 0..c.trip.left
    BY ReadAssumption DEF DeskSound
  <2>2. PICK k \in Nat : k = c.trip.left
    BY <2>1
  <2>3. c.left \in 0..k /\ (e.left = c.left \/ (c.left > 0 /\ e.left = c.left - 1))
    BY <2>1, <2>2
  <2>4. e.left \in 0..k
    BY <2>3
  <2> QED
    BY <2>2, <2>4
<1>3. DeskSound(e)
  BY <1>1, <1>2 DEF DeskSound
<1> QED
  BY <1>1, <1>3 DEF SameScene

LEMMA SameSceneTwice ==
  ASSUME NEW c, NEW e, SameScene(e, c), NEW f, SameScene(f, e)
  PROVE  SameScene(f, c)
BY DEF SameScene

LEMMA SameSceneSelf ==
  ASSUME NEW c, DeskSound(c)
  PROVE  SameScene(c, c)
BY DEF SameScene

LEMMA PaidIs ==
  ASSUME NEW c, DeskSound(c), c.left > 0, NEW e, e = Paid(c)
  PROVE  SameScene(e, c) /\ e.locked = c.locked /\ e.kept = c.kept
<1>1. PICK k : k = c.left - 1
  OBVIOUS
<1>2. e = [c EXCEPT !.left = k]
  BY <1>1 DEF Paid
<1>3. DOMAIN e = DeskFields /\ e.left = k /\ \A f \in DeskFields \ {"left"} : e[f] = c[f]
  BY <1>2, DeskNames DEF DeskSound
<1>4. e.locked = c.locked /\ e.kept = c.kept /\ SameRest(e, c)
  BY <1>3, DeskNames DEF SameRest
<1> QED
  BY <1>1, <1>3, <1>4, DeskChange

\* Another lock, or none.
Relocked(c, n, s) == [c EXCEPT !.locked = n, !.selected = s]

LEMMA RelockedIs ==
  ASSUME NEW c, DeskSound(c), NEW n, n = NoNode \/ n \in c.scene, NEW s,
         NEW e, e = Relocked(c, n, s)
  PROVE  SameScene(e, c) /\ e.locked = n /\ e.left = c.left /\ e.kept = c.kept
<1>1. /\ DOMAIN e = DeskFields /\ e.locked = n
      /\ \A f \in DeskFields \ {"locked", "selected"} : e[f] = c[f]
  BY DeskNames DEF DeskSound, Relocked
<1>2. e.left = c.left /\ e.kept = c.kept /\ SameRest(e, c)
  BY <1>1, DeskNames DEF SameRest
<1> QED
  BY <1>1, <1>2, DeskChange

LEMMA UnfocusedIs ==
  ASSUME NEW c, DeskSound(c), NEW e, e = Unfocused(c)
  PROVE  SameScene(e, c) /\ e.locked = NoNode /\ e.left = c.left /\ e.kept = c.kept
<1>1. PICK n : n = NoNode
  OBVIOUS
<1>2. e = Relocked(c, n, n)
  BY <1>1 DEF Unfocused, Relocked
<1> QED
  BY <1>1, <1>2, RelockedIs

LEMMA CancelFrameIs ==
  ASSUME NEW c, DeskSound(c), NEW e, e = CancelFrame(c)
  PROVE  SameScene(e, c) /\ e.locked = c.locked /\ e.left = c.left /\ e.kept = c.kept
<1>1. DOMAIN e = DeskFields /\ \A f \in DeskFields \ {"lockNext", "homeNext"} : e[f] = c[f]
  BY DeskNames DEF DeskSound, CancelFrame
<1>2. e.left = c.left /\ e.kept = c.kept /\ e.locked = c.locked /\ SameRest(e, c)
  BY <1>1, DeskNames DEF SameRest
<1> QED
  BY <1>1, <1>2, DeskChange

\* An operation that keeps what the engine shows keeps the invariant.
LEMMA StepKeeps ==
  ASSUME ReadingSound, LookSound(look'), Keeps(look', look), SameScene(desk', desk)
  PROVE  ReadingSound'
<1>1. desk.scene \in Scenes /\ desk'.scene = desk.scene
  BY DEF ReadingSound, DeskSound, SameScene
<1>2. Shows(look', desk.scene)
  BY <1>1, KeepsShows DEF ReadingSound
<1> QED
  BY <1>1, <1>2 DEF ReadingSound, SameScene, Keeps

LEMMA StepRefocused ==
  ASSUME ReadingSound, Refocused(look', look), SameScene(desk', desk)
  PROVE  ReadingSound'
BY StepKeeps DEF Refocused

LEMMA LetGoKeeps ==
  ASSUME ReadingSound, desk.left > 0, NEW l, Refocused(l, look), LetGo(l)
  PROVE  ReadingSound'
<1>1. Refocused(look', l)
  BY ClearSelectionIs DEF LetGo, Refocused
<1>2. PICK u : u = Unfocused(desk)
  OBVIOUS
<1>3. SameScene(u, desk) /\ u.left = desk.left
  BY <1>2, UnfocusedIs DEF ReadingSound
<1>4. SameScene(desk', u)
  BY <1>2, <1>3, PaidIs DEF LetGo, SameScene
<1> QED
  BY <1>1, <1>3, <1>4, RefocusedTwice, SameSceneTwice, StepRefocused

LEMMA HoverOverKeeps ==
  ASSUME ReadingSound, HoverOver
  PROVE  ReadingSound'
<1>1. Refocused(look', look)
  BY HoverNodeIs DEF HoverOver, ReadingSound
<1>2. SameScene(desk', desk)
  BY PaidIs DEF HoverOver, Doing, ReadingSound
<1> QED
  BY <1>1, <1>2, StepRefocused

LEMMA HoverOffKeeps ==
  ASSUME ReadingSound, HoverOff
  PROVE  ReadingSound'
<1>1. Refocused(look', look)
  <2>1. CASE look' = [look EXCEPT !.clearing = TRUE]
    <3>1. PICK q : q = [look EXCEPT !.clearing = TRUE]
      OBVIOUS
    <3>2. /\ DOMAIN q = LookFields /\ q.locked = look.locked
          /\ \A f \in LookFields \ Focusing : q[f] = look[f]
      BY <3>1, LookNames DEF ReadingSound, LookSound, LookTyped, Focusing
    <3>3. Refocused(q, look)
      BY <3>2, FocusChange DEF ReadingSound, Refocused
    <3> QED
      BY <2>1, <3>1, <3>3
  <2>2. CASE look' = HoverNothing(look)
    BY <2>2, HoverNothingIs DEF ReadingSound
  <2> QED
    BY <2>1, <2>2 DEF HoverOff
<1>2. SameScene(desk', desk)
  BY SameSceneSelf DEF HoverOff, ReadingSound
<1> QED
  BY <1>1, <1>2, StepRefocused

LEMMA HoverTimerKeeps ==
  ASSUME ReadingSound, HoverTimer
  PROVE  ReadingSound'
<1>1. Refocused(look', look) /\ SameScene(desk', desk)
  BY HoverNothingIs, SameSceneSelf DEF HoverTimer, ReadingSound
<1> QED
  BY <1>1, StepRefocused

LEMMA ArrowKeeps ==
  ASSUME ReadingSound, Arrow
  PROVE  ReadingSound'
<1>1. PICK n : look' = IF n = NoNode THEN ClearKeys(look, TRUE) ELSE FocusKey(look, n)
  BY DEF Arrow
<1>2. Refocused(look', look)
  BY <1>1, ClearKeysIs, FocusKeyIs DEF ReadingSound
<1>3. SameScene(desk', desk)
  BY PaidIs DEF Arrow, Doing, ReadingSound
<1> QED
  BY <1>2, <1>3, StepRefocused

LEMMA BlurKeeps ==
  ASSUME ReadingSound, Blur
  PROVE  ReadingSound'
<1>1. Refocused(look', look) /\ SameScene(desk', desk)
  BY ClearKeysIs, SameSceneSelf DEF Blur, ReadingSound
<1> QED
  BY <1>1, StepRefocused

LEMMA EscapeKeeps ==
  ASSUME ReadingSound, Escape
  PROVE  ReadingSound'
<1>1. PICK k : k = ClearKeys(look, TRUE)
  OBVIOUS
<1>2. Refocused(k, look)
  BY <1>1, ClearKeysIs DEF ReadingSound
<1>3. PICK p : p = HoverNothing(k)
  OBVIOUS
<1>4. Refocused(p, look)
  BY <1>2, <1>3, HoverNothingIs, RefocusedTwice DEF Refocused
<1>5. desk.left > 0 /\ (LetGo(p) \/ (look' = p /\ desk' = Paid(desk)))
  BY <1>1, <1>3 DEF Escape, Doing
<1>6. CASE LetGo(p)
  BY <1>4, <1>5, <1>6, LetGoKeeps
<1>7. CASE look' = p /\ desk' = Paid(desk)
  <2>1. SameScene(desk', desk)
    BY <1>5, <1>7, PaidIs DEF ReadingSound
  <2> QED
    BY <1>4, <1>7, <2>1, StepRefocused
<1> QED
  BY <1>5, <1>6, <1>7

\* Nothing leaves while no page turns, so what is locked is drawn to stay.
LEMMA LockForReadingKeeps ==
  ASSUME ReadingSound, desk.left > 0, ~DeskBusy(look), NEW n \in look.nodes, NEW l, Refocused(l, look),
         LockForReading(l, n)
  PROVE  ReadingSound'
<1>1. look.ghosts = {} /\ n \in desk.scene /\ n \in l.nodes \ l.ghosts
  BY DEF ReadingSound, LookSound, Shows, DeskBusy, Refocused
<1>2. PICK k : k = LockNode(l, n)
  OBVIOUS
<1>3. LookSound(k) /\ k.nodes = l.nodes /\ k.ghosts = l.ghosts /\ k.turn = l.turn /\ Lit(k) /\ Dealt(k)
  BY <1>1, <1>2, LockNodeIs DEF Refocused
<1>4. Refocused(look', k) /\ look'.locked = k.locked
  BY <1>2, <1>3, SetSelectionIs DEF LockForReading
<1>5. Shows(k, desk.scene)
  BY <1>1, <1>3 DEF ReadingSound, Shows, Refocused
<1>6. PICK e : e = Relocked(desk, n, n)
  OBVIOUS
<1>7. SameScene(e, desk) /\ e.left = desk.left
  BY <1>1, <1>6, RelockedIs DEF ReadingSound
<1>8. SameScene(desk', e)
  BY <1>6, <1>7, PaidIs DEF LockForReading, SameScene, Relocked
<1>9. SameScene(desk', desk)
  BY <1>7, <1>8, SameSceneTwice
<1>10. Shows(look', desk.scene) /\ LookSound(look') /\ look'.turn = look.turn
  BY <1>3, <1>4, <1>5, KeepsShows DEF ReadingSound, DeskSound, Refocused
<1> QED
  BY <1>9, <1>10 DEF ReadingSound, SameScene

LEMMA ClickNodeKeeps ==
  ASSUME ReadingSound, ClickNode
  PROVE  ReadingSound'
<1>1. PICK n \in look.nodes : Click(n)
  BY DEF ClickNode
<1>2. PICK k : k = ClearKeys(look, TRUE)
  OBVIOUS
<1>3. Refocused(k, look)
  BY <1>2, ClearKeysIs DEF ReadingSound
<1>4. desk.left > 0 /\ ~DeskBusy(look) /\ (LetGo(k) \/ LockForReading(k, n))
  BY <1>1, <1>2 DEF Click, Doing
<1> QED
  BY <1>3, <1>4, LetGoKeeps, LockForReadingKeeps

LEMMA DismissKeeps ==
  ASSUME ReadingSound, Dismiss
  PROVE  ReadingSound'
<1>1. desk.left > 0 /\ LetGo(look) /\ Refocused(look, look)
  BY RefocusedSelf DEF Dismiss, Doing, ReadingSound
<1> QED
  BY <1>1, LetGoKeeps

LEMMA ViewDetailsKeeps ==
  ASSUME ReadingSound, ViewDetails
  PROVE  ReadingSound'
<1>1. PICK k : k = ClearKeys(look, TRUE)
  OBVIOUS
<1>2. Refocused(k, look)
  BY <1>1, ClearKeysIs DEF ReadingSound
<1>3. PICK n : n = look.label
  OBVIOUS
<1>4. desk.left > 0 /\ ~DeskBusy(look) /\ LockForReading(k, n)
  BY <1>1, <1>3 DEF ViewDetails, Doing
<1>5. n \in look.nodes
  BY <1>3 DEF ViewDetails, ReadingSound, Shows, Dealt
<1> QED
  BY <1>2, <1>4, <1>5, LockForReadingKeeps

LEMMA AskPageKeeps ==
  ASSUME ReadingSound, AskPage
  PROVE  ReadingSound'
<1>1. PICK k : k = ClearKeys(look, FALSE)
  OBVIOUS
<1>2. Refocused(k, look)
  BY <1>1, ClearKeysIs DEF ReadingSound
<1>3. k.live /\ k.ghosts = {} /\ desk.left > 0 /\ desk.interactive
  BY <1>2 DEF AskPage, AtScene, Doing, DeskBusy, ReadingSound, LookSound, Refocused, Keeps
<1>4. PICK a : a = [k EXCEPT !.turn = "asked"]
  OBVIOUS
<1>5. DOMAIN a = LookFields /\ a.turn = "asked" /\ \A f \in LookFields \ {"turn"} : a[f] = k[f]
  BY <1>2, <1>4, LookNames DEF Refocused, LookSound, LookTyped
<1>6. /\ a.live = k.live /\ a.nodes = k.nodes /\ a.ghosts = k.ghosts /\ a.locked = k.locked /\ a.cards = k.cards
      /\ a.moving = k.moving /\ a.place = k.place /\ a.memory = k.memory /\ a.strategy = k.strategy
      /\ a.boundary = k.boundary
  BY <1>5, LookNames
<1>7. LookSound(a)
  BY <1>2, <1>3, <1>5, <1>6, LookWords DEF Refocused, LookSound, LookTyped, OffAxis
<1>8. desk.scene \in Scenes /\ Shows(k, desk.scene)
  BY <1>2, KeepsShows DEF ReadingSound, DeskSound, Refocused
<1>9. Shows(a, desk.scene)
  BY <1>6, <1>8 DEF Shows, Lit, Dealt
<1>10. Refocused(look', a)
  BY <1>1, <1>4, <1>7, HoverNothingIs DEF AskPage
<1>11. LookSound(look') /\ Shows(look', desk.scene)
  BY <1>8, <1>9, <1>10, KeepsShows DEF Refocused
<1>12. SameScene(desk', desk)
  BY <1>3, PaidIs DEF AskPage, ReadingSound
<1> QED
  BY <1>3, <1>11, <1>12 DEF ReadingSound, SameScene

LEMMA HiddenIs ==
  ASSUME NEW c, DeskSound(c), NEW h, NEW e, e = [c EXCEPT !.hidden = h]
  PROVE  SameScene(e, c) /\ e.left = c.left
<1>1. DOMAIN e = DeskFields /\ \A f \in DeskFields \ {"hidden"} : e[f] = c[f]
  BY DeskNames DEF DeskSound
<1>2. e.left = c.left /\ e.locked = c.locked /\ SameRest(e, c)
  BY <1>1, DeskNames DEF SameRest
<1> QED
  BY <1>1, <1>2, DeskChange

LEMMA HideTabKeeps ==
  ASSUME ReadingSound, HideTab
  PROVE  ReadingSound'
<1>1. Refocused(look', look)
  BY PauseReadingIs DEF HideTab, ReadingSound
<1>2. PICK e : e = [desk EXCEPT !.hidden = TRUE]
  OBVIOUS
<1>3. SameScene(e, desk) /\ e.left = desk.left
  BY <1>2, HiddenIs DEF ReadingSound
<1>4. SameScene(desk', e)
  BY <1>2, <1>3, PaidIs DEF HideTab, Doing, SameScene
<1> QED
  BY <1>1, <1>3, <1>4, SameSceneTwice, StepRefocused

LEMMA ShowTabKeeps ==
  ASSUME ReadingSound, ShowTab
  PROVE  ReadingSound'
<1>1. Refocused(look', look)
  <2>1. CASE look' = look
    BY <2>1, RefocusedSelf DEF ReadingSound
  <2>2. CASE look' = ApplyHighlight([look EXCEPT !.paused = FALSE])
    BY <2>2, AwakeIs DEF ReadingSound
  <2> QED
    BY <2>1, <2>2 DEF ShowTab
<1>2. SameScene(desk', desk)
  BY HiddenIs DEF ShowTab, ReadingSound
<1> QED
  BY <1>1, <1>2, StepRefocused

LEMMA InteractiveIs ==
  ASSUME NEW c, DeskSound(c), NEW b \in BOOLEAN, NEW e, e = [c EXCEPT !.interactive = b]
  PROVE  /\ DeskSound(e) /\ e.scene = c.scene /\ e.left = c.left /\ e.strategy = c.strategy
         /\ e.interactive = b
<1>1. DOMAIN e = DeskFields /\ e.interactive = b /\ \A f \in DeskFields \ {"interactive"} : e[f] = c[f]
  BY DeskNames DEF DeskSound
<1>2. /\ e.trip = c.trip /\ e.left = c.left /\ e.scene = c.scene /\ e.strategy = c.strategy /\ e.locked = c.locked
      /\ e.kept = c.kept
  BY <1>1, DeskNames
<1> QED
  BY <1>1, <1>2 DEF DeskSound

LEMMA CoverKeeps ==
  ASSUME ReadingSound, Cover
  PROVE  ReadingSound'
<1>1. PICK r : r = ClearReading(look)
  OBVIOUS
<1>2. LookSound(r) /\ Keeps(r, look) /\ r.turn = "idle"
  BY <1>1, ClearReadingIs DEF ReadingSound
<1>3. Refocused(look', r)
  BY <1>1, <1>2, PauseReadingIs DEF Cover
<1>4. LookSound(look') /\ Keeps(look', look) /\ look'.turn = "idle"
  BY <1>2, <1>3, KeepsTwice DEF Refocused
<1>5. PICK u : u = Unfocused(desk)
  OBVIOUS
<1>6. SameScene(u, desk) /\ u.left = desk.left
  BY <1>5, UnfocusedIs DEF ReadingSound
<1>7. PICK f : f = CancelFrame(u)
  OBVIOUS
<1>8. SameScene(f, u) /\ f.left = u.left
  BY <1>6, <1>7, CancelFrameIs DEF SameScene
<1>9. PICK e : e = [f EXCEPT !.interactive = FALSE]
  OBVIOUS
<1>10. DeskSound(e) /\ e.scene = f.scene /\ e.left = f.left
  BY <1>8, <1>9, InteractiveIs DEF SameScene
<1>11. SameScene(desk', e)
  BY <1>5, <1>6, <1>7, <1>8, <1>9, <1>10, PaidIs DEF Cover, Doing
<1>12. DeskSound(desk') /\ desk'.scene = desk.scene /\ desk.scene \in Scenes
  BY <1>6, <1>8, <1>10, <1>11 DEF SameScene, ReadingSound, DeskSound
<1>13. Shows(look', desk.scene)
  BY <1>4, <1>12, KeepsShows DEF ReadingSound
<1> QED
  BY <1>4, <1>12, <1>13 DEF ReadingSound

\* A commit of the controller.
LEMMA CommitKeeps ==
  ASSUME NEW l, LookSound(l), Dealt(l), NEW c, DeskSound(c), c.interactive, NEW d, d.nodes = c.scene,
         d.moved \in BOOLEAN, look' = Deliver(l, c, d), desk' = c
  PROVE  ReadingSound'
<1>1. c.scene \in Scenes /\ c.strategy \in Layouts
  BY DEF DeskSound
<1>2. LookSound(look') /\ Shows(look', c.scene)
  BY <1>1, DeliverIs
<1> QED
  BY <1>2 DEF ReadingSound

LEMMA DeliveryIs ==
  ASSUME NEW c, NEW moved \in BOOLEAN, NEW cause, NEW d, d = Delivery(c, moved, cause)
  PROVE  d.nodes = c.scene /\ d.moved \in BOOLEAN
BY DEF Delivery

LEMMA CommitsKeeps ==
  ASSUME ReadingSound, NEW c, DeskSound(c), c.interactive, NEW moved \in BOOLEAN, NEW cause,
         Commits(c, moved, cause)
  PROVE  ReadingSound'
<1>1. PICK d : d = Delivery(c, moved, cause)
  OBVIOUS
<1>2. d.nodes = c.scene /\ d.moved \in BOOLEAN
  BY <1>1, DeliveryIs
<1>3. look' = Deliver(look, c, d) /\ desk' = c /\ Dealt(look) /\ LookSound(look)
  BY <1>1 DEF Commits, ReadingSound, Shows
<1> QED
  BY <1>2, <1>3, CommitKeeps

LEMMA UncoverKeeps ==
  ASSUME ReadingSound, Uncover
  PROVE  ReadingSound'
<1>1. PICK c : c = [desk EXCEPT !.interactive = TRUE]
  OBVIOUS
<1>2. DeskSound(c) /\ c.interactive
  BY <1>1, InteractiveIs DEF ReadingSound
<1>3. Commits(c, FALSE, "synchronization")
  BY <1>1 DEF Uncover
<1> QED
  BY <1>2, <1>3, CommitsKeeps

LEMMA ActivateKeeps ==
  ASSUME ReadingSound, Activate
  PROVE  ReadingSound'
<1>1. PICK c : c = CancelFrame(desk)
  OBVIOUS
<1>2. SameScene(c, desk) /\ c.left = desk.left /\ desk.left > 0 /\ DeskSound(c)
  BY <1>1, CancelFrameIs DEF Activate, Doing, ReadingSound, SameScene
<1>3. PICK n \in ReadNodes, lock \in BOOLEAN :
        IF n \notin desk.scene THEN UNCHANGED look /\ desk' = Paid(c)
        ELSE /\ look' = SetSelection(IF lock THEN LockNode(look, n) ELSE UnlockNode(look), n)
             /\ desk' = Paid([c EXCEPT !.locked = IF lock THEN n ELSE NoNode, !.selected = n])
  BY <1>1 DEF Activate
<1>4. CASE n \notin desk.scene
  <2>1. SameScene(desk', c)
    BY <1>2, <1>3, <1>4, PaidIs
  <2>2. Refocused(look', look)
    BY <1>3, <1>4, RefocusedSelf DEF ReadingSound
  <2> QED
    BY <1>2, <2>1, <2>2, SameSceneTwice, StepRefocused
<1>5. CASE n \in desk.scene
  <2>1. PICK m : m = IF lock THEN n ELSE NoNode
    OBVIOUS
  <2>2. PICK e : e = Relocked(c, m, n)
    OBVIOUS
  <2>3. SameScene(e, c) /\ e.left = c.left
    <3>1. m = NoNode \/ m \in c.scene
      BY <1>2, <1>5, <2>1 DEF SameScene
    <3> QED
      BY <1>2, <2>2, <3>1, RelockedIs
  <2>4. SameScene(desk', e)
    <3>1. desk' = Paid(e)
      BY <1>3, <1>5, <2>1, <2>2 DEF Relocked
    <3>2. DeskSound(e) /\ e.left > 0
      BY <1>2, <2>3 DEF SameScene
    <3> QED
      BY <3>1, <3>2, PaidIs
  <2>5. SameScene(desk', desk)
    BY <1>2, <2>3, <2>4, SameSceneTwice
  <2>6. PICK k : k = IF lock THEN LockNode(look, n) ELSE UnlockNode(look)
    OBVIOUS
  <2>7. LookSound(k) /\ Shows(k, desk.scene) /\ k.turn = look.turn
    <3>1. CASE lock
      <4>1. /\ LookSound(k) /\ k.nodes = look.nodes /\ k.ghosts = look.ghosts /\ k.turn = look.turn
            /\ k = look \/ (k.locked = n /\ (n \in look.nodes \ look.ghosts => Lit(k)) /\ Dealt(k))
        BY <2>6, <3>1, LockNodeIs DEF ReadingSound
      <4>2. CASE k = look
        BY <4>2 DEF ReadingSound
      <4>3. CASE k # look
        <5>1. LockNode(look, n) # look
          BY <2>6, <3>1, <4>3
        <5>2. n \in look.nodes \ look.ghosts
          BY <1>5, <5>1 DEF LockNode, ReadingSound, Shows
        <5> QED
          BY <4>1, <4>3, <5>2 DEF ReadingSound, Shows
      <4> QED
        BY <4>2, <4>3
    <3>2. CASE ~lock
      <4>1. Refocused(k, look)
        BY <2>6, <3>2, UnlockNodeIs DEF ReadingSound
      <4> QED
        BY <4>1, KeepsShows DEF ReadingSound, DeskSound, Refocused
    <3> QED
      BY <3>1, <3>2
  <2>8. Refocused(look', k)
    BY <1>3, <1>5, <2>6, <2>7, SetSelectionIs
  <2>9. LookSound(look') /\ Shows(look', desk.scene) /\ look'.turn = look.turn
    BY <2>7, <2>8, KeepsShows DEF ReadingSound, DeskSound, Refocused
  <2> QED
    BY <2>5, <2>9 DEF ReadingSound, SameScene
<1> QED
  BY <1>4, <1>5

LEMMA PageBlockedKeeps ==
  ASSUME ReadingSound, PageBlocked
  PROVE  ReadingSound'
<1>1. look.turn = "asked" /\ look' = [look EXCEPT !.turn = "idle"] /\ desk' = desk
  BY DEF PageBlocked
<1>2. DOMAIN look' = LookFields /\ look'.turn = "idle" /\ \A f \in LookFields \ {"turn"} : look'[f] = look[f]
  BY <1>1, LookNames DEF ReadingSound, LookSound, LookTyped
<1>3. /\ look'.live = look.live /\ look'.nodes = look.nodes /\ look'.ghosts = look.ghosts
      /\ look'.locked = look.locked /\ look'.cards = look.cards /\ look'.moving = look.moving
      /\ look'.place = look.place /\ look'.memory = look.memory /\ look'.strategy = look.strategy
      /\ look'.boundary = look.boundary
  BY <1>2, LookNames
<1>4. LookSound(look')
  BY <1>1, <1>2, <1>3, LookWords DEF ReadingSound, LookSound, LookTyped, OffAxis
<1>5. Keeps(look', look)
  BY <1>2, <1>3 DEF Keeps, Lit, Dealt
<1>6. SameScene(desk', desk)
  BY <1>1, SameSceneSelf DEF ReadingSound
<1> QED
  BY <1>4, <1>5, <1>6, StepKeeps

\* Another scene, with what is locked in it.
LEMMA SceneIs ==
  ASSUME NEW c, DeskSound(c), NEW S \in Scenes, c.locked = NoNode \/ c.locked \in S,
         NEW e, e = [c EXCEPT !.scene = S]
  PROVE  DeskSound(e) /\ e.scene = S /\ e.left = c.left /\ e.interactive = c.interactive
<1>1. DOMAIN e = DeskFields /\ e.scene = S /\ \A f \in DeskFields \ {"scene"} : e[f] = c[f]
  BY DeskNames DEF DeskSound
<1>2. /\ e.trip = c.trip /\ e.left = c.left /\ e.interactive = c.interactive /\ e.strategy = c.strategy
      /\ e.locked = c.locked /\ e.kept = c.kept
  BY <1>1, DeskNames
<1> QED
  BY <1>1, <1>2 DEF DeskSound

LEMMA PageComesKeeps ==
  ASSUME ReadingSound, PageComes
  PROVE  ReadingSound'
<1>1. PICK S \in Scenes : Commits([desk EXCEPT !.scene = S], TRUE, "journey")
  BY DEF PageComes
<1>2. PICK c : c = [desk EXCEPT !.scene = S]
  OBVIOUS
<1>3. DeskSound(c) /\ c.interactive
  BY <1>2, SceneIs DEF PageComes, ReadingSound
<1>4. Commits(c, TRUE, "journey")
  BY <1>1, <1>2
<1> QED
  BY <1>3, <1>4, CommitsKeeps

LEMMA SynchroniseKeeps ==
  ASSUME ReadingSound, Synchronise
  PROVE  ReadingSound'
<1>1. PICK S \in Scenes, moved \in BOOLEAN :
        /\ desk.locked = NoNode \/ desk.locked \in S
        /\ Commits(Paid([desk EXCEPT !.scene = S]), moved, "synchronization")
  BY DEF Synchronise
<1>2. PICK e : e = [desk EXCEPT !.scene = S]
  OBVIOUS
<1>3. DeskSound(e) /\ e.interactive /\ e.left > 0
  BY <1>1, <1>2, SceneIs DEF Synchronise, Doing, ReadingSound
<1>4. PICK c : c = Paid(e)
  OBVIOUS
<1>5. DeskSound(c) /\ c.interactive
  BY <1>3, <1>4, PaidIs DEF SameScene
<1>6. Commits(c, moved, "synchronization")
  BY <1>1, <1>2, <1>4
<1> QED
  BY <1>5, <1>6, CommitsKeeps

LEMMA MoreNodesKeeps ==
  ASSUME ReadingSound, MoreNodes
  PROVE  ReadingSound'
<1>1. PICK S \in Scenes : desk.scene \subseteq S /\ Commits(Paid([desk EXCEPT !.scene = S]), FALSE, "synchronization")
  BY DEF MoreNodes
<1>2. PICK e : e = [desk EXCEPT !.scene = S]
  OBVIOUS
<1>3. desk.locked = NoNode \/ desk.locked \in S
  BY <1>1 DEF ReadingSound, DeskSound
<1>4. DeskSound(e) /\ e.interactive /\ e.left > 0
  BY <1>2, <1>3, SceneIs DEF MoreNodes, Doing, ReadingSound
<1>5. PICK c : c = Paid(e)
  OBVIOUS
<1>6. DeskSound(c) /\ c.interactive
  BY <1>4, <1>5, PaidIs DEF SameScene
<1>7. Commits(c, FALSE, "synchronization")
  BY <1>1, <1>2, <1>5
<1> QED
  BY <1>6, <1>7, CommitsKeeps

\* The lock and the selection go, of the engine and of the controller.
LEMMA UnlockedIs ==
  ASSUME ReadingSound, NEW l, l = SetSelection(UnlockNode(look), NoNode)
  PROVE  Refocused(l, look)
<1>1. PICK u : u = UnlockNode(look)
  OBVIOUS
<1>2. Refocused(u, look)
  BY <1>1, UnlockNodeIs DEF ReadingSound
<1>3. Refocused(l, u)
  BY <1>1, <1>2, SetSelectionIs DEF Refocused
<1> QED
  BY <1>2, <1>3, RefocusedTwice

LEMMA ReleaseForCapacityKeeps ==
  ASSUME ReadingSound, ReleaseForCapacity
  PROVE  ReadingSound'
<1>1. Refocused(look', look)
  BY UnlockedIs DEF ReleaseForCapacity
<1>2. PICK u : u = Unfocused(desk)
  OBVIOUS
<1>3. SameScene(u, desk) /\ u.left = desk.left
  BY <1>2, UnfocusedIs DEF ReadingSound
<1>4. SameScene(desk', u)
  BY <1>2, <1>3, PaidIs DEF ReleaseForCapacity, Doing, SameScene
<1> QED
  BY <1>1, <1>3, <1>4, SameSceneTwice, StepRefocused

LEMMA WithCardsKeeps ==
  ASSUME ReadingSound, WithCards
  PROVE  ReadingSound'
<1>1. PICK w : w = [look EXCEPT !.withCards = ~@]
  OBVIOUS
<1>2. DOMAIN w = LookFields /\ (\A f \in LookFields \ Focusing : w[f] = look[f]) /\ w.locked = look.locked
  BY <1>1, LookNames DEF ReadingSound, LookSound, LookTyped, Focusing
<1>3. Refocused(w, look)
  BY <1>2, FocusChange DEF ReadingSound, Refocused
<1>4. Refocused(look', w)
  BY <1>1, <1>3, RebuildLabelsIs DEF WithCards, Refocused
<1>5. SameScene(desk', desk)
  BY PaidIs DEF WithCards, Doing, ReadingSound
<1> QED
  BY <1>3, <1>4, <1>5, RefocusedTwice, StepRefocused

(***************************************************************************)
(* Another epoch.                                                          *)
(***************************************************************************)
LEMMA NextEpochIs ==
  ASSUME NEW c, DeskSound(c), NEW S \in Scenes, NEW s \in Layouts, NEW e, e = NextEpoch(c, S, s)
  PROVE  /\ DeskSound(e) /\ e.scene = S /\ e.left = c.left /\ e.interactive = c.interactive
         /\ e.locked = NoNode
<1>1. PICK u : u = Unfocused(c)
  OBVIOUS
<1>2. SameScene(u, c) /\ u.locked = NoNode /\ u.left = c.left
  BY <1>1, UnfocusedIs
<1>3. PICK f : f = CancelFrame(u)
  OBVIOUS
<1>4. SameScene(f, u) /\ f.locked = NoNode /\ f.left = u.left
  BY <1>2, <1>3, CancelFrameIs DEF SameScene
<1>5. PICK n : n = f.epoch + 1
  OBVIOUS
<1>6. e = [f EXCEPT !.scene = S, !.strategy = s, !.epoch = n]
  BY <1>1, <1>3, <1>5 DEF NextEpoch
<1>7. /\ DOMAIN e = DeskFields /\ e.scene = S /\ e.strategy = s
      /\ \A g \in DeskFields \ {"scene", "strategy", "epoch"} : e[g] = f[g]
  BY <1>4, <1>6, DeskNames DEF SameScene, DeskSound
<1>8. /\ e.trip = f.trip /\ e.left = f.left /\ e.interactive = f.interactive /\ e.locked = f.locked /\ e.kept = f.kept
  BY <1>7, DeskNames
<1>9. DeskSound(e)
  BY <1>4, <1>7, <1>8 DEF SameScene, DeskSound
<1> QED
  BY <1>2, <1>4, <1>7, <1>8, <1>9 DEF SameScene

\* What is kept for the return, and the frame that is to come.
Elsewhere(e, c) ==
  /\ DOMAIN e = DeskFields /\ e.trip = c.trip /\ e.left = c.left /\ e.scene = c.scene /\ e.strategy = c.strategy
  /\ e.interactive = c.interactive

LEMMA KeptIs ==
  ASSUME NEW c, DeskSound(c), NEW e, Elsewhere(e, c), KeptSound(e.kept), e.locked = NoNode \/ e.locked \in c.scene
  PROVE  DeskSound(e) /\ e.scene = c.scene /\ e.left = c.left /\ e.interactive = c.interactive
BY DEF DeskSound, Elsewhere

LEMMA UnlockedEngine ==
  ASSUME ReadingSound, NEW u, u = UnlockNode(look)
  PROVE  LookSound(u) /\ Dealt(u)
<1>1. Refocused(u, look)
  BY UnlockNodeIs DEF ReadingSound
<1> QED
  BY <1>1 DEF Refocused, Keeps, ReadingSound, Shows

LEMMA GatherEvidenceKeeps ==
  ASSUME ReadingSound, GatherEvidence
  PROVE  ReadingSound'
<1> DEFINE keeping(asked) == [is |-> TRUE, scene |-> desk.scene, locked |-> IF asked THEN NoNode ELSE desk.locked,
                              selected |-> IF asked THEN NoNode ELSE desk.selected]
<1>1. PICK S \in Scenes, asked \in BOOLEAN :
        LET c == Paid([NextEpoch(desk, S, "accumulation") EXCEPT !.kept = keeping(asked)]) IN
        look' = Deliver(UnlockNode(look), c, Delivery(c, TRUE, "synchronization")) /\ desk' = c
  BY DEF GatherEvidence
<1>2. PICK k : k = keeping(asked)
  OBVIOUS
<1>3. PICK e : e = NextEpoch(desk, S, "accumulation")
  OBVIOUS
<1>4. DeskSound(e) /\ e.left = desk.left /\ e.interactive /\ e.locked = NoNode /\ desk.left > 0
  BY <1>3, NextEpochIs, LookWords DEF ReadingSound, GatherEvidence, Doing
<1>5. PICK f : f = [e EXCEPT !.kept = k]
  OBVIOUS
<1>6. DOMAIN f = DeskFields /\ f.kept = k /\ f.locked = NoNode /\ \A g \in DeskFields \ {"kept"} : f[g] = e[g]
  BY <1>4, <1>5, DeskNames DEF DeskSound
<1>14. Elsewhere(f, e)
  BY <1>6, DeskNames DEF Elsewhere
<1>7. KeptSound(f.kept)
  <2>1. k.is = TRUE /\ k.scene = desk.scene /\ (k.locked = NoNode \/ k.locked = desk.locked)
    BY <1>2
  <2> QED
    BY <1>6, <2>1 DEF ReadingSound, DeskSound, KeptSound
<1>8. DeskSound(f) /\ f.left = desk.left /\ f.interactive
  BY <1>4, <1>6, <1>7, <1>14, KeptIs
<1>9. PICK c : c = Paid(f)
  OBVIOUS
<1>10. DeskSound(c) /\ c.interactive
  BY <1>4, <1>8, <1>9, PaidIs DEF SameScene
<1>11. PICK u : u = UnlockNode(look)
  OBVIOUS
<1>12. PICK d : d = Delivery(c, TRUE, "synchronization")
  OBVIOUS
<1>13. look' = Deliver(u, c, d) /\ desk' = c
  BY <1>1, <1>2, <1>3, <1>5, <1>9, <1>11, <1>12
<1> QED
  BY <1>10, <1>11, <1>12, <1>13, UnlockedEngine, DeliveryIs, CommitKeeps

LEMMA ReturnToExplorationKeeps ==
  ASSUME ReadingSound, ReturnToExploration
  PROVE  ReadingSound'
<1>1. PICK k : k = desk.kept
  OBVIOUS
<1>2. k.is /\ k.scene \in Scenes /\ (k.locked # NoNode => k.locked \in k.scene) /\ desk.left > 0 /\ desk.interactive
  BY <1>1 DEF ReadingSound, DeskSound, KeptSound, ReturnToExploration, Doing
<1>3. PICK e : e = NextEpoch(desk, k.scene, "exploration")
  OBVIOUS
<1>4. DeskSound(e) /\ e.left = desk.left /\ e.interactive /\ e.scene = k.scene
  BY <1>2, <1>3, NextEpochIs, LookWords DEF ReadingSound
<1>5. PICK b : b = [is |-> FALSE]
  OBVIOUS
<1>6. b.is = FALSE
  BY <1>5
<1>7. PICK n : n = k.locked
  OBVIOUS
<1>8. PICK s : s = k.selected
  OBVIOUS
<1>9. PICK f : f = [e EXCEPT !.locked = n, !.selected = s, !.lockNext = n, !.kept = b]
  OBVIOUS
<1>10. /\ DOMAIN f = DeskFields /\ f.kept = b /\ f.locked = n
       /\ \A g \in DeskFields \ {"kept", "locked", "selected", "lockNext"} : f[g] = e[g]
  BY <1>4, <1>9, DeskNames DEF DeskSound
<1>18. Elsewhere(f, e)
  BY <1>10, DeskNames DEF Elsewhere
<1>19. KeptSound(f.kept) /\ (f.locked = NoNode \/ f.locked \in e.scene)
  BY <1>2, <1>4, <1>6, <1>7, <1>10 DEF KeptSound
<1>11. DeskSound(f) /\ f.left = desk.left /\ f.interactive
  BY <1>4, <1>10, <1>18, <1>19, KeptIs
<1>12. PICK c : c = Paid(f)
  OBVIOUS
<1>13. DeskSound(c) /\ c.interactive
  BY <1>2, <1>11, <1>12, PaidIs DEF SameScene
<1>14. PICK u : u = UnlockNode(look)
  OBVIOUS
<1>15. PICK d : d = [Delivery(c, TRUE, "synchronization") EXCEPT !.restoring = TRUE]
  OBVIOUS
<1>16. look' = Deliver(u, c, d) /\ desk' = c
  BY <1>1, <1>3, <1>5, <1>7, <1>8, <1>9, <1>12, <1>14, <1>15 DEF ReturnToExploration
<1>17. d.nodes = c.scene /\ d.moved \in BOOLEAN
  BY <1>15 DEF Delivery
<1> QED
  BY <1>13, <1>14, <1>16, <1>17, UnlockedEngine, CommitKeeps

LEMMA ToOverviewKeeps ==
  ASSUME ReadingSound, ToOverview
  PROVE  ReadingSound'
<1>1. PICK S \in Scenes :
        LET c == Paid([NextEpoch(desk, S, "exploration") EXCEPT !.kept = [is |-> FALSE], !.homeNext = TRUE]) IN
        look' = Deliver(UnlockNode(look), c, Delivery(c, TRUE, "synchronization")) /\ desk' = c
  BY DEF ToOverview
<1>2. PICK e : e = NextEpoch(desk, S, "exploration")
  OBVIOUS
<1>3. DeskSound(e) /\ e.left = desk.left /\ e.interactive /\ e.locked = NoNode /\ desk.left > 0
  BY <1>2, NextEpochIs, LookWords DEF ReadingSound, ToOverview, Doing
<1>4. PICK b : b = [is |-> FALSE]
  OBVIOUS
<1>5. b.is = FALSE
  BY <1>4
<1>6. PICK f : f = [e EXCEPT !.kept = b, !.homeNext = TRUE]
  OBVIOUS
<1>7. /\ DOMAIN f = DeskFields /\ f.kept = b /\ f.locked = NoNode
      /\ \A g \in DeskFields \ {"kept", "homeNext"} : f[g] = e[g]
  BY <1>3, <1>6, DeskNames DEF DeskSound
<1>14. Elsewhere(f, e)
  BY <1>7, DeskNames DEF Elsewhere
<1>15. KeptSound(f.kept)
  BY <1>5, <1>7 DEF KeptSound
<1>8. DeskSound(f) /\ f.left = desk.left /\ f.interactive
  BY <1>3, <1>7, <1>14, <1>15, KeptIs
<1>9. PICK c : c = Paid(f)
  OBVIOUS
<1>10. DeskSound(c) /\ c.interactive
  BY <1>3, <1>8, <1>9, PaidIs DEF SameScene
<1>11. PICK u : u = UnlockNode(look)
  OBVIOUS
<1>12. PICK d : d = Delivery(c, TRUE, "synchronization")
  OBVIOUS
<1>13. look' = Deliver(u, c, d) /\ desk' = c
  BY <1>1, <1>2, <1>4, <1>6, <1>9, <1>11, <1>12
<1> QED
  BY <1>10, <1>11, <1>12, <1>13, UnlockedEngine, DeliveryIs, CommitKeeps

\* The frame may lock a node that has left the scene, and then shows nothing.
LEMMA RestoredFrameKeeps ==
  ASSUME ReadingSound, RestoredFrame
  PROVE  ReadingSound'
<1>1. PICK n : n = desk.lockNext
  OBVIOUS
<1>2. look' = LockNode(look, n) /\ desk' = [desk EXCEPT !.lockNext = NoNode]
  BY <1>1 DEF RestoredFrame
<1>3. /\ LookSound(look') /\ look'.nodes = look.nodes /\ look'.ghosts = look.ghosts /\ look'.turn = look.turn
      /\ look' = look \/ (look'.locked = n /\ (n \in look.nodes \ look.ghosts => Lit(look')) /\ Dealt(look'))
  BY <1>2, LockNodeIs DEF ReadingSound
<1>4. Shows(look', desk.scene)
  <2>1. CASE look' = look
    BY <2>1 DEF ReadingSound
  <2>2. CASE look' # look
    <3>1. n \in look.nodes
      BY <1>2, <2>2 DEF LockNode
    <3> QED
      BY <1>3, <2>2, <3>1 DEF ReadingSound, Shows
  <2> QED
    BY <2>1, <2>2
<1>5. DOMAIN desk' = DeskFields /\ \A f \in DeskFields \ {"lockNext"} : desk'[f] = desk[f]
  BY <1>2, DeskNames DEF ReadingSound, DeskSound
<1>6. desk'.left = desk.left /\ desk'.locked = desk.locked /\ SameRest(desk', desk)
  BY <1>5, DeskNames DEF SameRest
<1>7. SameScene(desk', desk)
  BY <1>5, <1>6, DeskChange DEF ReadingSound
<1> QED
  BY <1>3, <1>4, <1>7 DEF ReadingSound, SameScene

LEMMA FocusOverviewKeeps ==
  ASSUME ReadingSound, NEW c, SameScene(c, desk), FocusOverview(c)
  PROVE  ReadingSound'
<1>1. Refocused(look', look)
  BY UnlockedIs DEF FocusOverview
<1>2. SameScene(desk', c)
  BY UnfocusedIs DEF FocusOverview, SameScene
<1> QED
  BY <1>1, <1>2, SameSceneTwice, StepRefocused

LEMMA HomeFrameKeeps ==
  ASSUME ReadingSound, HomeFrame
  PROVE  ReadingSound'
<1>1. PICK c : c = [desk EXCEPT !.homeNext = FALSE]
  OBVIOUS
<1>2. DOMAIN c = DeskFields /\ \A f \in DeskFields \ {"homeNext"} : c[f] = desk[f]
  BY <1>1, DeskNames DEF ReadingSound, DeskSound
<1>3. c.left = desk.left /\ c.locked = desk.locked /\ SameRest(c, desk)
  BY <1>2, DeskNames DEF SameRest
<1>4. SameScene(c, desk)
  BY <1>2, <1>3, DeskChange DEF ReadingSound
<1>5. FocusOverview(c)
  BY <1>1 DEF HomeFrame
<1> QED
  BY <1>4, <1>5, FocusOverviewKeeps

LEMMA OverviewAgainKeeps ==
  ASSUME ReadingSound, OverviewAgain
  PROVE  ReadingSound'
<1>1. PICK c : c = Paid(desk)
  OBVIOUS
<1>2. SameScene(c, desk) /\ FocusOverview(c)
  BY <1>1, PaidIs DEF OverviewAgain, Doing, ReadingSound
<1> QED
  BY <1>2, FocusOverviewKeeps

(***************************************************************************)
(* The renderer and the frames it draws.                                   *)
(***************************************************************************)
LEMMA NewEngineIs ==
  /\ LookSound(NewEngine) /\ NewEngine.nodes = {} /\ NewEngine.ghosts = {} /\ NewEngine.moving = {}
  /\ NewEngine.locked = NoNode /\ NewEngine.turn = "idle" /\ NewEngine.cards = {} /\ NewEngine.live = TRUE
  /\ NewEngine.strategy = "exploration" /\ NewEngine.boundary = FALSE
  /\ DOMAIN NewEngine.place = {} /\ DOMAIN NewEngine.memory = {}
<1>1. /\ NewEngine.nodes = {} /\ NewEngine.ghosts = {} /\ NewEngine.moving = {}
      /\ NewEngine.locked = NoNode /\ NewEngine.turn = "idle" /\ NewEngine.cards = {} /\ NewEngine.live = TRUE
      /\ NewEngine.strategy = "exploration" /\ NewEngine.boundary = FALSE
      /\ NewEngine.place = << >> /\ NewEngine.memory = << >>
  BY DEF NewEngine
<1>2. DOMAIN NewEngine.place = {} /\ DOMAIN NewEngine.memory = {}
  BY <1>1
<1>3. DOMAIN NewEngine = LookFields
  BY DEF NewEngine, LookFields
<1>4. Cardinality(NewEngine.nodes) <= ReadBudget
  BY <1>1, NodesAre
<1> QED
  BY <1>1, <1>2, <1>3, <1>4, LookWords DEF LookSound, LookTyped, OffAxis

LEMMA RendererFailsKeeps ==
  ASSUME ReadingSound, RendererFails
  PROVE  ReadingSound'
<1>1. PICK b : b = NewEngine
  OBVIOUS
<1>2. /\ LookSound(b) /\ b.nodes = {} /\ b.ghosts = {} /\ b.moving = {} /\ b.locked = NoNode /\ b.turn = "idle"
      /\ b.cards = {} /\ b.boundary = FALSE /\ b.strategy = "exploration"
      /\ DOMAIN b.place = {} /\ DOMAIN b.memory = {}
  BY <1>1, NewEngineIs
<1>3. look' = [b EXCEPT !.live = FALSE]
  BY <1>1 DEF RendererFails
<1>4. DOMAIN look' = LookFields /\ look'.live = FALSE /\ \A f \in LookFields \ {"live"} : look'[f] = b[f]
  BY <1>2, <1>3, LookNames DEF LookSound, LookTyped
<1>5. /\ look'.nodes = {} /\ look'.ghosts = {} /\ look'.moving = {} /\ look'.locked = NoNode /\ look'.turn = "idle"
      /\ look'.cards = {} /\ look'.boundary = FALSE /\ look'.strategy = b.strategy /\ look'.place = b.place
      /\ look'.memory = b.memory
  BY <1>2, <1>4, LookNames
<1>6. LookSound(look')
  BY <1>2, <1>4, <1>5 DEF LookSound, LookTyped, OffAxis
<1>7. desk.scene \in Scenes /\ Shows(look', desk.scene)
  BY <1>5, NothingShows DEF ReadingSound, DeskSound, Dealt
<1>8. SameScene(desk', desk)
  BY PaidIs DEF RendererFails, Doing, ReadingSound
<1> QED
  BY <1>5, <1>6, <1>7, <1>8 DEF ReadingSound, SameScene

LEMMA RetrySceneKeeps ==
  ASSUME ReadingSound, RetryScene
  PROVE  ReadingSound'
<1>1. PICK b : b = NewEngine
  OBVIOUS
<1>2. /\ LookSound(b) /\ b.nodes = {} /\ b.ghosts = {} /\ b.moving = {} /\ b.locked = NoNode /\ b.turn = "idle"
      /\ b.cards = {} /\ b.live = TRUE /\ DOMAIN b.place = {} /\ DOMAIN b.memory = {}
  BY <1>1, NewEngineIs
<1>3. PICK y \in BOOLEAN : y = (desk.strategy # "exploration")
  OBVIOUS
<1>4. PICK h : h = desk.hidden
  OBVIOUS
<1>5. PICK x : x = desk.epoch
  OBVIOUS
<1>6. PICK s \in Layouts : s = desk.strategy
  BY DEF ReadingSound, DeskSound
<1>7. PICK new : new = [b EXCEPT !.paused = h, !.epoch = x, !.boundary = y, !.strategy = s]
  OBVIOUS
<1>8. /\ DOMAIN new = LookFields /\ new.boundary = y /\ new.strategy = s
      /\ \A f \in LookFields \ {"paused", "epoch", "boundary", "strategy"} : new[f] = b[f]
  BY <1>2, <1>7, LookNames DEF LookSound, LookTyped
<1>9. /\ new.nodes = {} /\ new.ghosts = {} /\ new.moving = {} /\ new.locked = NoNode /\ new.turn = "idle"
      /\ new.cards = {} /\ new.live = TRUE /\ new.place = b.place /\ new.memory = b.memory
  BY <1>2, <1>8, LookNames
<1>10. LookSound(new) /\ Dealt(new)
  BY <1>2, <1>8, <1>9 DEF LookSound, LookTyped, OffAxis, Dealt
<1>11. desk.scene \in Scenes /\ desk.strategy \in Layouts /\ Shows(new, desk.scene)
  BY <1>9, <1>10, NothingShows DEF ReadingSound, DeskSound
<1>12. PICK d : d = Delivery(desk, FALSE, "synchronization")
  OBVIOUS
<1>13. d.nodes = desk.scene /\ d.moved \in BOOLEAN
  BY <1>12, DeliveryIs
<1>14. look' = Deliver(new, desk, d) /\ desk' = desk
  BY <1>1, <1>3, <1>4, <1>5, <1>6, <1>7, <1>12 DEF RetryScene
<1>15. LookSound(look') /\ Shows(look', desk.scene) /\ (look'.turn = "asked" => new.turn = "asked")
  BY <1>10, <1>11, <1>13, <1>14, DeliverIs
<1> QED
  BY <1>9, <1>14, <1>15 DEF ReadingSound

LEMMA MotionsEndKeeps ==
  ASSUME ReadingSound, MotionsEnd
  PROVE  ReadingSound'
<1>1. PICK c : c = [look EXCEPT !.moving = {}]
  OBVIOUS
<1>2. DOMAIN c = LookFields /\ c.moving = {} /\ \A f \in LookFields \ {"moving"} : c[f] = look[f]
  BY <1>1, LookNames DEF ReadingSound, LookSound, LookTyped
<1>3. /\ c.live = look.live /\ c.nodes = look.nodes /\ c.ghosts = look.ghosts /\ c.locked = look.locked
      /\ c.cards = look.cards /\ c.turn = look.turn /\ c.place = look.place /\ c.memory = look.memory
      /\ c.strategy = look.strategy /\ c.boundary = look.boundary
  BY <1>2, LookNames
<1>4. LookSound(c) /\ Keeps(c, look)
  BY <1>2, <1>3 DEF ReadingSound, LookSound, LookTyped, OffAxis, Keeps, Lit, Dealt
<1>5. LookSound(look') /\ Keeps(look', c)
  BY <1>1, <1>2, <1>4, FinishTurnIs DEF MotionsEnd
<1>6. SameScene(desk', desk)
  BY SameSceneSelf DEF MotionsEnd, ReadingSound
<1> QED
  BY <1>4, <1>5, <1>6, KeepsTwice, StepKeeps

LEMMA EntriesEndKeeps ==
  ASSUME ReadingSound, EntriesEnd
  PROVE  ReadingSound'
<1>1. PICK s : s = IF look.strategy = "exploration" THEN look.settling ELSE look.settling \cup look.entering
  OBVIOUS
<1>2. look' = [look EXCEPT !.entering = {}, !.settling = s]
  BY <1>1 DEF EntriesEnd
<1>3. /\ DOMAIN look' = LookFields /\ look'.locked = look.locked
      /\ \A f \in LookFields \ Focusing : look'[f] = look[f]
  BY <1>2, LookNames DEF ReadingSound, LookSound, LookTyped, Focusing
<1>4. Refocused(look', look)
  BY <1>3, FocusChange DEF ReadingSound, Refocused
<1>5. SameScene(desk', desk)
  BY SameSceneSelf DEF EntriesEnd, ReadingSound
<1> QED
  BY <1>4, <1>5, StepRefocused

LEMMA SettleTimerKeeps ==
  ASSUME ReadingSound, SettleTimer
  PROVE  ReadingSound'
<1>1. Refocused(look', look) /\ SameScene(desk', desk)
  BY FinishSettleIs, SameSceneSelf DEF SettleTimer, ReadingSound
<1> QED
  BY <1>1, StepRefocused

LEMMA DropMissingKeeps ==
  ASSUME ReadingSound, DropMissing
  PROVE  ReadingSound'
<1>1. Refocused(look', look) /\ SameScene(desk', desk)
  BY ClearSelectionIs, UnfocusedIs DEF DropMissing, ReadingSound
<1> QED
  BY <1>1, StepRefocused

(***************************************************************************)
(* What is read, what is shown and what leaves stay consistent.            *)
(***************************************************************************)
LEMMA ReadingStarts ==
  ASSUME ReadInit
  PROVE  ReadingSound
<1>1. PICK t \in ReadTrips, S \in Scenes :
        /\ desk = [trip |-> t, left |-> t.left, scene |-> S, strategy |-> "exploration",
                   epoch |-> 1, interactive |-> TRUE, hidden |-> FALSE, locked |-> NoNode,
                   selected |-> NoNode, kept |-> [is |-> FALSE], lockNext |-> NoNode, homeNext |-> FALSE]
        /\ look = RebuildLabels([NewEngine EXCEPT !.epoch = 1, !.nodes = S,
                                   !.place = [n \in S |-> Axis], !.memory = [n \in S |-> Axis]])
  BY DEF ReadInit
<1>2. DeskSound(desk)
  <2>1. t.left \in Nat
    BY ReadAssumption
  <2>2. DOMAIN desk = DeskFields
    BY <1>1 DEF DeskFields
  <2>3. /\ desk.trip = t /\ desk.left = t.left /\ desk.scene = S /\ desk.strategy = "exploration"
        /\ desk.interactive = TRUE /\ desk.locked = NoNode /\ desk.kept = [is |-> FALSE]
    BY <1>1
  <2>4. t.left \in 0..t.left
    <3>1. PICK k \in Nat : k = t.left
      BY <2>1
    <3>2. k \in 0..k
      OBVIOUS
    <3> QED
      BY <3>1, <3>2
  <2>5. desk.kept.is = FALSE
    BY <2>3
  <2> QED
    BY <2>2, <2>3, <2>4, <2>5, LookWords DEF DeskSound, KeptSound
<1>3. desk.scene = S /\ desk.interactive = TRUE
  BY <1>1
<1>4. PICK b : b = NewEngine
  OBVIOUS
<1>5. /\ LookSound(b) /\ b.ghosts = {} /\ b.moving = {} /\ b.locked = NoNode /\ b.turn = "idle" /\ b.live = TRUE
      /\ b.strategy = "exploration" /\ b.boundary = FALSE
  BY <1>4, NewEngineIs
<1>6. PICK p : p = [n \in S |-> Axis]
  OBVIOUS
<1>7. PICK c : c = [b EXCEPT !.epoch = 1, !.nodes = S, !.place = p, !.memory = p]
  OBVIOUS
<1>8. /\ DOMAIN c = LookFields /\ c.nodes = S /\ c.place = p
      /\ \A f \in LookFields \ {"epoch", "nodes", "place", "memory"} : c[f] = b[f]
  BY <1>5, <1>7, LookNames DEF LookSound, LookTyped
<1>9. /\ c.ghosts = {} /\ c.moving = {} /\ c.locked = NoNode /\ c.turn = "idle" /\ c.live = TRUE
      /\ c.strategy = "exploration" /\ c.boundary = FALSE
  BY <1>5, <1>8, LookNames
<1>10. S \subseteq ReadNodes /\ Cardinality(S) <= ReadBudget /\ NoNode \notin S
  BY NodesAre
<1>11. LookSound(c)
  BY <1>6, <1>8, <1>9, <1>10, LookWords DEF LookSound, LookTyped, OffAxis
<1>12. look = RebuildLabels(c)
  BY <1>1, <1>4, <1>6, <1>7
<1>13. /\ LookSound(look) /\ look.locked = NoNode /\ look.nodes = S /\ look.ghosts = {} /\ look.turn = "idle"
       /\ Dealt(look)
  BY <1>8, <1>9, <1>11, <1>12, RebuildLabelsIs
<1>14. Shows(look, S)
  BY <1>10, <1>13 DEF Shows
<1> QED
  BY <1>2, <1>3, <1>13, <1>14 DEF ReadingSound

LEMMA ReadingKeeps ==
  ASSUME ReadingSound, [ReadNext]_readVars
  PROVE  ReadingSound'
<1>1. CASE UNCHANGED readVars
  BY <1>1 DEF readVars, ReadingSound, LookSound, LookTyped, OffAxis, Shows, Lit, Dealt, DeskSound, KeptSound
<1>2. CASE ReadReader
  BY <1>2, HoverOverKeeps, HoverOffKeeps, HoverTimerKeeps, ArrowKeeps, BlurKeeps, EscapeKeeps, ClickNodeKeeps,
     ViewDetailsKeeps, DismissKeeps, AskPageKeeps, HideTabKeeps, ShowTabKeeps, CoverKeeps, UncoverKeeps
     DEF ReadReader
<1>3. CASE ReadController
  BY <1>3, ActivateKeeps, PageBlockedKeeps, PageComesKeeps, SynchroniseKeeps, MoreNodesKeeps,
     ReleaseForCapacityKeeps, WithCardsKeeps, GatherEvidenceKeeps, ReturnToExplorationKeeps, RestoredFrameKeeps,
     ToOverviewKeeps, HomeFrameKeeps, OverviewAgainKeeps, RendererFailsKeeps, RetrySceneKeeps, DropMissingKeeps
     DEF ReadController
<1>4. CASE ReadFrames
  BY <1>4, MotionsEndKeeps, EntriesEndKeeps, SettleTimerKeeps DEF ReadFrames
<1> QED
  BY <1>1, <1>2, <1>3, <1>4 DEF ReadNext

LEMMA ReadingFollows ==
  ASSUME ReadingSound
  PROVE  ReadingConsistent
<1>1. ReadTypeOK
  BY DEF ReadingSound, LookSound, LookTyped, DeskSound, PageTurns, ReadTypeOK
<1>2. GhostsLeave /\ TurnWithinBudget /\ PlacesDoNotLeak
  BY DEF ReadingSound, LookSound, OffAxis, GhostsLeave, TurnWithinBudget, PlacesDoNotLeak
<1>3. LockIsShown
  BY DEF ReadingSound, Shows, Lit, DeskSound, LockIsShown
<1> QED
  BY <1>1, <1>2, <1>3 DEF ReadingConsistent

\* In every universe, whatever the reader, the controller and the renderer do: what is read and locked is in the
\* scene and has its card, what leaves with a page is gone when the turn ends, a turn draws within the budget, and
\* no place of the timeline reaches the evidence graph (setData, lockNode, updateTimelineMotions of the scene engine).
THEOREM ReadingHolds == ReadSpec => []ReadingConsistent
<1>1. ReadInit => ReadingSound
  BY ReadingStarts
<1>2. ReadingSound /\ [ReadNext]_readVars => ReadingSound'
  BY ReadingKeeps
<1>3. ReadingSound => ReadingConsistent
  BY ReadingFollows
<1> QED
  BY <1>1, <1>2, <1>3, PTL DEF ReadSpec
=============================================================================
