-------------------------- MODULE UniverseTimeline --------------------------
(***************************************************************************)
(* Browsing one knowledge source along time: the controller of the         *)
(* knowledge universe (components/features/knowledge-universe.tsx), the    *)
(* pager of its scene engine (universe-scene-engine.ts) and the server     *)
(* that answers with pages, which is external.                             *)
(*                                                                         *)
(* u is what lives in the page: the browse session, its one request, the   *)
(* page turn that waits for it, the scene's part in that turn, the timers  *)
(* and the effects React still has to run.  world is the bound chosen at   *)
(* the start, the server's version of the timeline and what is left of the *)
(* budget for disturbances.                                                *)
(*                                                                         *)
(* A handler runs to its end in one step, with the microtasks it leaves:   *)
(* an aborted request runs its finally block, and a page turn that waited  *)
(* for it goes on, before anything else happens.  Input and timers of the  *)
(* scene come when React has run its effects.                              *)
(***************************************************************************)
EXTENDS TimelineWindow

CONSTANT Scenarios      \* bounds, one of which is chosen at the start

(* events: events of the timeline's first version; ghost: the last row is  *)
(* one the server skips; settings: the view preferences the reader goes    *)
(* through, in order; acts: what may disturb; budget: how often.           *)
Disturbances == {"config", "filter", "lock", "context", "suspend", "snapshot", "manifest",
                 "error", "capacity", "origin", "home", "activate", "play"}
Preferences  == [visible : Nat \ {0}, page : Nat \ {0}, pages : 0..3, capacity : Nat]
ASSUME TimelineAssumption ==
    \A b \in Scenarios :
        /\ b.events \in Nat /\ b.ghost \in BOOLEAN /\ b.budget \in Nat
        /\ b.acts \subseteq Disturbances
        /\ b.settings \in Seq(Preferences) /\ b.settings # <<>>
        /\ \A i, j \in DOMAIN b.settings : LET c == b.settings[i] IN
               /\ c.capacity >= c.visible + 2 * c.page * c.pages
               /\ c.capacity >= c.visible + b.settings[j].page

VARIABLES u, world
vars == <<u, world>>

----------------------------------------------------------------------------
(* Values.                                                                 *)

NoSession == [open |-> FALSE]

EmptySession(cfg) ==
    [open |-> TRUE, loaded |-> FALSE, deque |-> <<>>, snap |-> 0, page |-> 0,
     prefer |-> "older", loading |-> FALSE, paused |-> FALSE,
     win |-> EmptyWindow(cfg.visible, cfg.capacity), shown |-> {}]

NoRequest == [cause |-> "none"]
NoReply   == [kind |-> "none"]
NoTurn    == [dir |-> "none"]
NothingKept == [is |-> FALSE, ses |-> NoSession]

Config(v)  == world.bound.settings[v.cfg]
QueryPage(v) == IF v.ses.page # 0 THEN v.ses.page ELSE Config(v).page
EdgeOpen(v, dir) == IF dir = "older" THEN HasOlder(v.ses.deque) ELSE HasNewer(v.ses.deque)
ShownNow(v)  == IF v.ses.open THEN Visible(v.ses.win) ELSE <<>>
JourneyEnabled(v) == v.interactive /\ v.mode = "exploration" /\ v.ses.open /\ v.ses.win.cache # <<>>
HasNext(v)     == v.ses.win.active < Len(v.ses.win.cache) \/ HasOlder(v.ses.deque)
HasPrevious(v) == v.ses.win.active > RewindFloor(v.ses.win) \/ HasNewer(v.ses.deque)

----------------------------------------------------------------------------
(* What the handlers are made of, on a value v of u.                       *)

(* commitTimelineWindow with a new revision: what waits for the old one no *)
(* longer matches, and React has to render.                                *)
Commit(v, w) ==
    [v EXCEPT !.ses.win = w, !.ses.shown = @ \cup Range(Visible(w)),
              !.due = @ \cup {"window"},
              !.timer = IF @ = "live" THEN "stale" ELSE @, !.marker = "none"]

CommitSettled(v) ==
    LET w == Settle(v.ses.win) IN IF w = v.ses.win THEN v ELSE Commit(v, w)

(* The phase "loading" is committed without a new revision.                *)
CommitLoading(v) ==
    [v EXCEPT !.ses.win.phase = "loading", !.due = @ \cup {"window"}]

(* cancelTimelineTransition: the scene forgets the turn, the controller    *)
(* does not hear of it.                                                    *)
CancelTransition(v) ==
    [v EXCEPT !.scene = "idle", !.turn = IF @ = NoTurn THEN @ ELSE [@ EXCEPT !.live = FALSE]]

(* loadSourceTimelinePage past its guards, up to its await.                *)
MayLoad(v, cause, dir) ==
    /\ v.interactive /\ v.req = NoRequest
    /\ v.ses.open /\ ~v.ses.loading /\ ~v.ses.paused
    /\ v.locked => cause = "source-entry"
    /\ IF v.ses.loaded THEN EdgeOpen(v, dir) ELSE dir = "older"

BeginLoad(v, cause, dir) ==
    LET sent == [v EXCEPT
            !.ses.loading = TRUE,
            !.req = [cause  |-> cause, dir |-> dir, snap |-> v.ses.snap, limit |-> QueryPage(v),
                     root   |-> ~v.ses.loaded,
                     cursor |-> CASE ~v.ses.loaded -> 0
                                  [] v.ses.loaded /\ dir = "older" -> v.ses.deque[Len(v.ses.deque)].ord
                                  [] v.ses.loaded /\ dir = "newer" -> v.ses.deque[1].ord,
                     reply  |-> NoReply]]
    IN  IF cause = "prefetch" THEN sent ELSE CommitLoading(sent)

\* Mutant: the finally block does not settle the window.
EndRequestUnsettled(v) == [v EXCEPT !.req = NoRequest, !.ses.loading = FALSE]

(* The finally blocks of a request.                                        *)
EndRequest(v) ==
    CommitSettled([v EXCEPT !.req = NoRequest, !.ses.loading = FALSE])

(* moveTimeline takes what handleTimelineIntent returned.                  *)
EndTurn(v, result) ==
    LET over == [v EXCEPT !.turn = NoTurn,
                          !.playing = @ /\ ~(v.turn.by = "playback" /\ ~(v.turn.live /\ result = "advanced"))]
    IN  IF ~v.turn.live THEN over
        ELSE [over EXCEPT !.scene = IF result = "advanced" THEN "awaiting-data" ELSE "idle"]

Stride(v) == Least(QueryPage(v), v.ses.win.visible)

(* handleTimelineIntent after its loop.                                    *)
ConcludeTurn(v) ==
    LET t        == v.turn
        w        == v.ses.win
        runway   == Runway(w, t.dir)
        terminal == runway > 0 /\ ~EdgeOpen(v, t.dir)
        next     == Advance(w, t.dir, t.stride)
        marked   == MarkExhausted(w)
        moved    == Commit(v, next)
    IN  IF runway < t.stride /\ ~terminal THEN EndTurn(v, "blocked")
        ELSE IF next # w
        THEN EndTurn([moved EXCEPT
                         !.marker = "live",
                         !.timer = IF next.phase = "transitioning" THEN "live" ELSE "off"],
                     "advanced")
        ELSE IF t.dir = "older" /\ ~HasOlder(v.ses.deque)
        THEN EndTurn(IF marked = w THEN v ELSE Commit(v, marked), "complete")
        ELSE EndTurn(v, "blocked")

(* The loop of handleTimelineIntent from where it is: it asks for a page   *)
(* at most twice, and waits for a page of its direction that is under way. *)
NeedsPage(v) ==
    /\ v.turn.tries < 2
    /\ Runway(v.ses.win, v.turn.dir) < v.turn.stride
    /\ EdgeOpen(v, v.turn.dir)

GoOn(v) ==
    LET asked == [v EXCEPT !.turn.tries = @ + 1] IN
    CASE v.turn = NoTurn -> v
      [] v.turn # NoTurn /\ NeedsPage(v) /\ v.req # NoRequest -> asked
      [] v.turn # NoTurn /\ NeedsPage(v) /\ v.req = NoRequest /\ MayLoad(v, "journey", v.turn.dir) ->
             BeginLoad(asked, "journey", v.turn.dir)
      [] OTHER -> ConcludeTurn(v)

(* controller.abort(), the finally block and the turn that waited.         *)
Abort(v) == IF v.req = NoRequest THEN v ELSE GoOn(EndRequest(v))

(* Aborting while the session is put aside: its finally block changes only *)
(* the session, and a turn that waited finds another one and gives up.     *)
AbortWithSession(v) ==
    LET gone == [v EXCEPT !.req = NoRequest, !.ses = NoSession] IN
    IF v.turn = NoTurn THEN gone ELSE EndTurn(gone, "blocked")

(* resetScene, and what activateSource, prepareContextScene and            *)
(* invalidateSourceSnapshot have in common with it.                        *)
LeaveSession(v) ==
    [AbortWithSession(v) EXCEPT
        !.timer = "off", !.marker = "none", !.reload = "off", !.reloads = 0,
        !.locked = FALSE, !.due = @ \cup {"window", "prefetch"}]

ResetScene(v) ==
    [LeaveSession(v) EXCEPT !.kept = NothingKept, !.mode = "home", !.nav = "origin"]

----------------------------------------------------------------------------
(* React: one render and the effects it leaves.                            *)

(* setOptions and setData: the scene takes the rendered window.            *)
Deliver(v) ==
    LET off     == IF v.shown.enabled /\ ~JourneyEnabled(v) THEN CancelTransition(v) ELSE v
        changed == ShownNow(v) # v.shown.bundles \/ "filter" \in v.due
        cut     == IF /\ v.marker # "live"
                      /\ off.scene = "entering" \/ (changed /\ off.scene # "idle")
                   THEN CancelTransition(off) ELSE off
        taken   == [cut EXCEPT !.shown = [bundles |-> ShownNow(v), enabled |-> JourneyEnabled(v)],
                               !.scene = IF JourneyEnabled(v) /\ ~v.restoring THEN "entering" ELSE @,
                               !.restoring = FALSE]
    IN  CASE ~v.interactive -> off
          [] v.interactive /\ changed ->
                 [taken EXCEPT !.marker = "none"]
          [] OTHER -> [off EXCEPT !.shown.enabled = JourneyEnabled(v), !.restoring = FALSE]

(* The effect that brings the session to the configured limits.            *)
Resized(v) ==
    LET cfg   == Config(v)
        w     == v.ses.win
        small == Resize(v.ses.deque, cfg.capacity, w.active, cfg.visible, QueryPage(v))
        sync  == [SyncWindow([w EXCEPT !.visible = cfg.visible, !.limit = cfg.capacity], FALSE,
                             [deque |-> small.deque, evictedNewer |-> small.evictedNewer, prepended |-> 0])
                    EXCEPT !.phase = IF ~HasOlder(small.deque)
                                          /\ PlaceOf(w.cache[w.active], Ords(small.deque)) = Len(small.deque)
                                     THEN "complete" ELSE "idle"]
    IN  IF w.active = 0
        THEN [win |-> Reconfigure(w, cfg.visible, cfg.capacity), deque |-> v.ses.deque]
        ELSE [win |-> sync, deque |-> small.deque]

ReconfigureEffect(v) ==
    LET to == Resized(v)
        in == [v EXCEPT !.ses.deque = to.deque, !.ses.paused = FALSE]
    IN  IF ~v.ses.open \/ v.ses.loading \/ v.ses.win.phase = "transitioning" THEN v
        ELSE IF to.win = v.ses.win THEN in ELSE Commit(in, to.win)

(* The prefetch effect; phase is the one that was rendered.                *)
PrefetchEffect(v, phase) ==
    LET dir == PlanPrefetch(v.ses.win, v.ses.deque, QueryPage(v), Config(v).pages, v.ses.prefer)
    IN  IF /\ v.interactive /\ v.mode = "exploration" /\ v.ses.open
           /\ ~v.ses.loading /\ ~v.ses.paused /\ ~v.locked /\ phase = "idle" /\ v.ses.loaded
           /\ v.req = NoRequest /\ dir # "none"
           /\ MayLoad(v, "prefetch", dir)
        THEN BeginLoad(v, "prefetch", dir) ELSE v

(* The effect of the playback plan that stops it where it cannot go on.    *)
PlaybackStops(v) ==
    v.playing /\ v.ses.open /\ (v.locked \/ (IF v.order = "reverse" THEN ~HasNext(v) ELSE ~HasPrevious(v)))

Render ==
    /\ u.due # {}
    /\ LET d == [Deliver(u) EXCEPT !.due = {}, !.playing = @ /\ ~PlaybackStops(u)]
           r == IF "window" \in u.due THEN ReconfigureEffect(d) ELSE d
       IN  u' = IF u.ses.open THEN PrefetchEffect(r, u.ses.win.phase) ELSE r
    /\ UNCHANGED world

----------------------------------------------------------------------------
(* The server.                                                             *)

Events == world.bound.events - Monus(world.version, 1)    \* events of this version
Rows   == Events + (IF world.bound.ghost THEN 1 ELSE 0)

PageFor(r) ==
    LET old   == r.root \/ r.dir = "older"
        from  == CASE r.root -> 0
                   [] ~r.root /\ old -> r.cursor + 1
                   [] OTHER -> Monus(r.cursor, r.limit)
        to    == IF old THEN Least(Rows, from + r.limit) ELSE r.cursor
        last  == Least(to, Events)
    IN  [i \in 1..Monus(last, from) |->
            Bundle(from + i - 1, from + i > 1, from + i < last \/ to < Rows)]

ServerReplies ==
    /\ u.req # NoRequest /\ u.req.reply = NoReply
    /\ u' = [u EXCEPT !.req.reply =
                 IF u.req.snap \notin {0, world.version} THEN [kind |-> "changed"]
                 ELSE [kind |-> "page", rows |-> PageFor(u.req), snap |-> world.version]]
    /\ UNCHANGED world

Spend(act) ==
    /\ act \in world.bound.acts /\ world.left > 0
    /\ world' = [world EXCEPT !.left = @ - 1]

(* The request fails on its way.                                           *)
RequestFails ==
    /\ u.req # NoRequest /\ Spend("error")
    /\ u' = GoOn(EndRequest(u))

(* The timeline is rebuilt on the server.                                  *)
TimelineChanges ==
    /\ "snapshot" \in world.bound.acts /\ world.left > 0
    /\ world' = [world EXCEPT !.left = @ - 1, !.version = @ + 1]
    /\ UNCHANGED u

----------------------------------------------------------------------------
(* A page arrives.                                                         *)

Admitted(v) == Admit(v.ses.loaded, v.ses.deque, v.req.reply.rows, v.req.dir, v.ses.win.limit)
Synced(v)   == SyncWindow(v.ses.win, ~v.ses.loaded, Admitted(v))

PageIsAdmitted(v) ==
    LET admitted == [v EXCEPT !.ses.deque = Admitted(v).deque, !.ses.loaded = TRUE,
                              !.ses.snap = v.req.reply.snap, !.ses.page = QueryPage(v),
                              !.ses.paused = FALSE,
                              !.reloads = IF v.req.cause = "reload" THEN 0 ELSE @]
    IN  GoOn(EndRequest(Commit(admitted, Synced(v))))

(* The working set has no room, or the page would evict the focus.         *)
PageIsRefused(v) == GoOn(EndRequest([v EXCEPT !.ses.paused = TRUE]))

PageArrives ==
    /\ u.req # NoRequest /\ u.req.reply.kind = "page"
    /\ IF LosesFocus(Synced(u))
       THEN u' = PageIsRefused(u) /\ UNCHANGED world
       ELSE \/ u' = PageIsAdmitted(u) /\ UNCHANGED world
            \/ u' = PageIsRefused(u) /\ Spend("capacity")

(* invalidateSourceSnapshot: a new session, and one attempt to fill it.    *)
SnapshotChanged ==
    /\ u.req # NoRequest /\ u.req.reply.kind = "changed"
    /\ u' = [LeaveSession(u) EXCEPT
                !.ses = EmptySession(Config(u)),
                !.reloads = u.reloads + 1,
                !.reload = IF u.reloads = 0 THEN "on" ELSE "off"]
    /\ UNCHANGED world

ReloadTimer ==
    /\ u.reload = "on"
    /\ u' = LET fired == [u EXCEPT !.reload = "off"] IN
            IF MayLoad(fired, "source-entry", "older") /\ ~u.ses.loaded
            THEN BeginLoad(fired, "reload", "older") ELSE fired
    /\ UNCHANGED world

----------------------------------------------------------------------------
(* The reader, the timers and the scene.                                   *)

Quiet == u.due = {}
Entry(r) == r.cause \in {"none", "source-entry", "reload"}

ActivateSource ==
    /\ Quiet /\ u.interactive
    /\ IF u.mode = "home" THEN UNCHANGED world ELSE Spend("activate")
    /\ u' = LET fresh == [LeaveSession(u) EXCEPT !.kept = NothingKept, !.mode = "exploration",
                                                 !.nav = "origin", !.ses = EmptySession(Config(u))]
            IN  BeginLoad(fresh, "source-entry", "older")

(* The camera leaves the source's origin.                                  *)
Dive ==
    /\ Quiet /\ JourneyEnabled(u) /\ u.nav = "origin"
    /\ u' = [u EXCEPT !.nav = "away"]
    /\ UNCHANGED world

SceneIsBusy(v) == v.scene # "idle" \/ v.turn # NoTurn \/ v.ses.win.phase \in {"loading", "transitioning"}

(* moveTimeline up to the await of the intent, then handleTimelineIntent   *)
(* up to its first await: a prefetch of the other direction gives way.     *)
Turned(v, dir, by) ==
    LET t == [v EXCEPT !.nav = "away", !.scene = "awaiting-result", !.ses.prefer = dir,
                       !.turn = [dir |-> dir, stride |-> Stride(v), tries |-> 0, live |-> TRUE, by |-> by]]
    IN  IF NeedsPage(t) /\ t.req # NoRequest /\ t.req.dir # dir
        THEN GoOn(EndRequest(t)) ELSE GoOn(t)

MayMove(v, dir) ==
    /\ JourneyEnabled(v) /\ ~v.locked /\ ~SceneIsBusy(v)
    /\ IF dir = "older" THEN v.ses.win.phase # "complete" /\ HasNext(v) ELSE HasPrevious(v)

MoveTimeline(dir) ==
    /\ Quiet /\ MayMove(u, dir)
    /\ u' = Turned([u EXCEPT !.playing = FALSE], dir, "reader")
    /\ UNCHANGED world

PlaybackFires ==
    /\ Quiet /\ u.playing
    /\ JourneyEnabled(u) /\ u.ses.win.phase \notin {"loading", "transitioning"}
    /\ LET dir == IF u.order = "reverse" THEN "older" ELSE "newer" IN
       u' = IF MayMove(u, dir) THEN Turned(u, dir, "playback") ELSE [u EXCEPT !.playing = FALSE]
    /\ UNCHANGED world

TogglePlayback ==
    /\ Quiet /\ JourneyEnabled(u) /\ Spend("play")
    /\ u.playing \/ (IF u.order = "reverse" THEN HasNext(u) ELSE HasPrevious(u))
    /\ u' = [u EXCEPT !.playing = ~@, !.locked = @ /\ u.playing]

ToggleOrder ==
    /\ Quiet /\ JourneyEnabled(u) /\ Spend("play")
    /\ u' = [u EXCEPT !.playing = FALSE, !.order = IF @ = "reverse" THEN "chronological" ELSE "reverse"]

(* The entrance is over: the scene tells the controller.                   *)
SceneFinishes ==
    /\ Quiet /\ u.scene = "entering" /\ u.interactive
    /\ LET idle == [u EXCEPT !.scene = "idle"] IN
       u' = IF u.ses.open /\ u.ses.win.phase = "transitioning"
            THEN CommitSettled([idle EXCEPT !.timer = "off"]) ELSE idle
    /\ UNCHANGED world

(* The fallback, should the scene not finish; late, it changes nothing.    *)
SettleTimer ==
    /\ u.timer # "off"
    /\ LET fired == [u EXCEPT !.timer = "off"] IN
       u' = IF u.timer = "live" /\ u.ses.open THEN CommitSettled(fired) ELSE fired
    /\ UNCHANGED world

(* Reading an event holds the timeline; a page under way is given up, but  *)
(* not the first one.                                                      *)
Lock ==
    /\ Quiet /\ JourneyEnabled(u) /\ ~u.locked /\ Spend("lock")
    /\ LET held == [u EXCEPT !.locked = TRUE, !.playing = FALSE, !.due = @ \cup {"prefetch"}]
       IN  u' = IF Entry(u.req) THEN held ELSE Abort(held)

Unlock ==
    /\ u.locked /\ u.interactive
    /\ u' = [u EXCEPT !.locked = FALSE, !.due = @ \cup {"prefetch"}]
    /\ UNCHANGED world

(* returnToTimelineOrigin: the page turn is cut short where it is.         *)
ReturnToOrigin ==
    /\ Quiet /\ u.interactive /\ u.ses.open /\ Spend("origin")
    /\ LET held == [u EXCEPT !.playing = FALSE, !.locked = FALSE, !.due = @ \cup {"prefetch"}]
           free == IF Entry(u.req) THEN held ELSE Abort(held)
           off  == [free EXCEPT !.timer = "off", !.cuts = TRUE]
       IN  u' = IF u.nav = "origin" \/ u.shown.bundles = <<>> THEN off
                ELSE [CancelTransition(off) EXCEPT !.nav = "origin"]

(* resetScene by the reader, and when the manifest names a new version.    *)
Home ==
    /\ Quiet /\ u.mode # "home" /\ (Spend("home") \/ Spend("manifest"))
    /\ u' = CancelTransition(ResetScene([u EXCEPT !.playing = FALSE]))

ChangeSettings ==
    /\ u.cfg < Len(world.bound.settings) /\ Spend("config")
    /\ u' = [u EXCEPT !.cfg = @ + 1, !.due = @ \cup {"window", "prefetch"}]

(* The projection of the visible window changes, not the window.           *)
ChangeFilter ==
    /\ u.ses.open /\ Spend("filter")
    /\ u' = [u EXCEPT !.due = @ \cup {"filter", "prefetch"}]

(* An answer or a search takes the scene: the session is put aside.        *)
EnterContext ==
    /\ u.mode # "context" /\ Spend("context")
    /\ LET aside == IF u.ses.open THEN [u.ses EXCEPT !.loading = FALSE, !.win = Settle(@)] ELSE NoSession
           left  == LeaveSession([u EXCEPT !.playing = FALSE])
       IN  u' = [CancelTransition(left) EXCEPT
                    !.kept = [is |-> TRUE, ses |-> aside], !.mode = "context", !.nav = "origin"]

ResumeExploration ==
    /\ u.mode = "context"
    /\ u' = [u EXCEPT !.ses = u.kept.ses, !.kept = NothingKept,
                      !.mode = IF u.kept.ses.open THEN "exploration" ELSE "home",
                      !.restoring = TRUE, !.nav = "away",
                      !.due = @ \cup {"window", "prefetch"}]
    /\ UNCHANGED world

(* The universe is covered by another view: the window is settled first.   *)
Suspend ==
    /\ u.interactive /\ Spend("suspend")
    /\ LET settled == IF u.ses.open THEN CommitSettled(u) ELSE u
           reset   == CancelTransition([settled EXCEPT
                          !.interactive = FALSE, !.timer = "off", !.marker = "none", !.locked = FALSE,
                          !.playing = FALSE, !.reload = "off", !.nav = "origin"])
       IN  u' = Abort(reset)

WakeUp ==
    /\ ~u.interactive
    /\ u' = [u EXCEPT !.interactive = TRUE, !.due = @ \cup {"filter", "prefetch"}]
    /\ UNCHANGED world

----------------------------------------------------------------------------
Init ==
    /\ \E b \in Scenarios : world = [bound |-> b, version |-> 1, left |-> b.budget]
    /\ u = [mode |-> "home", ses |-> NoSession, kept |-> NothingKept,
            req |-> NoRequest, turn |-> NoTurn,
            timer |-> "off",           \* timelineSettleTimer: off, live, stale
            marker |-> "none",         \* timelineJourneyCommit: none, live
            reload |-> "off", reloads |-> 0,
            locked |-> FALSE, interactive |-> TRUE,
            playing |-> FALSE, order |-> "reverse", cfg |-> 1,
            due |-> {},                \* effects React has to run
            scene |-> "idle",          \* timelineMotionPhase
            nav |-> "origin", restoring |-> FALSE,
            shown |-> [bundles |-> <<>>, enabled |-> FALSE],
            cuts |-> FALSE]            \* history: the reader returned to the origin

Next ==
    \/ Render \/ ServerReplies \/ RequestFails \/ TimelineChanges
    \/ PageArrives \/ SnapshotChanged \/ ReloadTimer
    \/ ActivateSource \/ Dive \/ PlaybackFires \/ TogglePlayback \/ ToggleOrder
    \/ \E dir \in {"older", "newer"} : MoveTimeline(dir)
    \/ SceneFinishes \/ SettleTimer
    \/ Lock \/ Unlock \/ ReturnToOrigin \/ Home
    \/ ChangeSettings \/ ChangeFilter
    \/ EnterContext \/ ResumeExploration \/ Suspend \/ WakeUp

Spec == Init /\ [][Next]_vars

(* React runs its effects, the server and the network answer, timers fire. *)
(* Nothing is said of the scene: WebGL may be gone.  Each line is weak     *)
(* fairness, written with the action's guard in place of ENABLED, which    *)
(* TLC evaluates without sharing subexpressions.                           *)
Fairness ==
    /\ <>[](u.due # {})          => []<><<Render>>_vars
    /\ <>[](u.req # NoRequest)   => []<><<ServerReplies \/ PageArrives \/ SnapshotChanged>>_vars
    /\ <>[](u.reload = "on")     => []<><<ReloadTimer>>_vars
    /\ <>[](u.timer # "off")     => []<><<SettleTimer>>_vars
FairSpec == Spec /\ Fairness

----------------------------------------------------------------------------
(* Properties.                                                             *)

TypeOK ==
    /\ u.mode \in {"home", "exploration", "context"}
    /\ u.ses.open <=> u.mode = "exploration"
    /\ u.timer \in {"off", "live", "stale"} /\ u.marker \in {"none", "live"}
    /\ u.scene \in {"idle", "awaiting-result", "awaiting-data", "entering"}
    /\ u.due \subseteq {"window", "prefetch", "filter"}
    /\ u.ses.open => /\ u.ses.win.phase \in Phases
                     /\ u.ses.loading <=> u.req # NoRequest
    /\ u.kept.ses.open => ~u.kept.ses.loading /\ u.kept.ses.win.phase \in {"idle", "complete"}

(* The cache is a slice of the timeline with nothing missing, the window's *)
(* offsets say where it lies, an edge is closed only where the timeline    *)
(* ends, and the window and the deque hold the same bundles: of the open   *)
(* session and of the one put aside.                                       *)
SliceOf(s) ==
    LET w == s.win
        n == Len(s.deque)
        total == world.bound.events - Monus(s.snap, 1)
    IN  s.loaded =>
          /\ w.cache = Ords(s.deque)
          /\ \A i \in 1..n : w.cache[i] = w.start + i - 1 /\ w.cache[i] < total
          /\ n > 0 => /\ w.active \in 1..n
                      /\ s.deque[1].before <=> w.start > 0
                      /\ ~HasOlder(s.deque) => w.start + n = total
          /\ w.exhausted <=> ~HasOlder(s.deque)

CacheMatchesTimeline ==
    /\ u.ses.open => SliceOf(u.ses)
    /\ u.kept.ses.open => SliceOf(u.kept.ses)

(* Every event the reader has gone past has been on the screen: a page     *)
(* turn is never wider than the window.                                    *)
NoEventSkipped ==
    u.ses.open => 0..(u.ses.win.visited - 1) \subseteq u.ses.shown

(* The session, its cache and its window tell one story, through page      *)
(* turns, loads, new settings and everything that interrupts them.         *)
TimelineConsistent == TypeOK /\ CacheMatchesTimeline /\ NoEventSkipped

(* The focused event changes by a page turn only: pages that arrive, new   *)
(* limits and effects leave it where it is.                                *)
Focus(v) == IF v.ses.open /\ v.ses.win.active # 0 THEN <<v.ses.win.cache[v.ses.win.active]>> ELSE <<>>
FocusStays ==
    [][\/ Focus(u') \in {Focus(u), <<>>} \/ Focus(u) = <<>>
       \/ u.marker = "none" /\ u'.marker = "live"]_vars

(* The pager comes back: whatever happens to a page turn or a load, its    *)
(* buttons are enabled again, also when the scene never answers; unless    *)
(* the reader returned to the origin during the turn.                      *)
PagerBusy == u.ses.open /\ u.ses.win.phase \in {"loading", "transitioning"}
PagerComesBack == []<>(~PagerBusy \/ u.cuts)
=============================================================================
