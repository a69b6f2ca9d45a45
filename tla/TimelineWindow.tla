--------------------------- MODULE TimelineWindow ---------------------------
(***************************************************************************)
(* The two pure data structures of the universe's timeline: the deque of   *)
(* bundles the cache holds (apps/web/lib/universe-timeline-deque.ts) and   *)
(* the window that moves over it (apps/web/lib/universe-timeline-window.ts)*)
(* with the prefetch planner (universe-prefetch-controller.ts).            *)
(*                                                                         *)
(* A bundle is [ord, before, after]: its place in the timeline, 0 for the  *)
(* latest event, and whether it has a cursor to a newer and to an older    *)
(* row.  A cursor is the place of the bundle that holds it.  The deque and *)
(* the window's cache run from newer to older.  active is the place of the *)
(* focused bundle in the cache, 0 when the cache is empty.                 *)
(***************************************************************************)
EXTENDS Naturals, Sequences, FiniteSets, SequencesExt

Monus(a, b) == IF a > b THEN a - b ELSE 0
Least(a, b) == IF a < b THEN a ELSE b
Most(a, b)  == IF a > b THEN a ELSE b

Bundle(ord, before, after) == [ord |-> ord, before |-> before, after |-> after]
Ords(deque)     == [i \in DOMAIN deque |-> deque[i].ord]
HasNewer(deque) == deque # <<>> /\ deque[1].before
HasOlder(deque) == deque # <<>> /\ deque[Len(deque)].after
PlaceOf(ord, cache) == SelectInSeq(cache, LAMBDA o : o = ord)

----------------------------------------------------------------------------
(* The deque.                                                              *)

(* An empty terminal page closes the edge it was asked for.                *)
CloseEdge(deque, dir) ==
    IF deque = <<>> THEN deque
    ELSE IF dir = "older" THEN [deque EXCEPT ![Len(deque)].after = FALSE]
    ELSE [deque EXCEPT ![1].before = FALSE]

(* What a page makes of the deque: an older page is appended and retires   *)
(* the newest edge, a newer page is prepended and retires the oldest; the  *)
(* first page keeps its newest rows.                                       *)
Admit(loaded, deque, rows, dir, limit) ==
    LET merged   == IF loaded /\ rows = <<>> THEN CloseEdge(deque, dir)
                    ELSE IF dir = "older" THEN deque \o rows ELSE rows \o deque
        overflow == Monus(Len(merged), limit)
        fromNew  == loaded /\ dir = "older"
        kept     == IF fromNew THEN SubSeq(merged, overflow + 1, Len(merged))
                    ELSE SubSeq(merged, 1, Len(merged) - overflow)
    IN  [deque        |-> kept,
         evictedNewer |-> IF fromNew THEN overflow ELSE 0,
         prepended    |-> IF dir = "newer" THEN Least(Len(rows), Len(kept)) ELSE 0]

(* The limit shrinks: the active bundle stays, with its visible window and *)
(* a reserve of newer bundles before it.                                   *)
Resize(deque, limit, active, visible, reserve) ==
    LET start == Least(Monus(Len(deque), limit), Monus(active - 1, visible - 1 + reserve))
    IN  IF Len(deque) <= limit THEN [deque |-> deque, evictedNewer |-> 0]
        ELSE [deque |-> SubSeq(deque, start + 1, start + limit), evictedNewer |-> start]

----------------------------------------------------------------------------
(* The window.                                                             *)

Phases == {"idle", "loading", "transitioning", "complete"}

EmptyWindow(visible, limit) ==
    [cache |-> <<>>, active |-> 0, visited |-> 0, exhausted |-> FALSE, phase |-> "idle",
     visible |-> visible, limit |-> Most(visible, limit), start |-> 0, rewind |-> 0]

StartActive(length, visible) == Least(length, visible)

(* The newest place the focus may go back to: where the first page put it. *)
RewindFloor(w) ==
    IF w.cache = <<>> THEN 0
    ELSE Least(Len(w.cache), Monus(w.rewind, w.start) + 1)

(* The bundles the scene shows: the focused one and those just newer.      *)
Visible(w) ==
    IF w.active = 0 THEN <<>>
    ELSE SubSeq(w.cache, Most(1, w.active - w.visible + 1), w.active)

ResolvedPhase(w, otherwise) ==
    IF w.exhausted /\ w.active = Len(w.cache) THEN "complete"
    ELSE IF w.cache = <<>> THEN "idle" ELSE otherwise

Settle(w) == [w EXCEPT !.phase = ResolvedPhase(w, "idle")]

MarkExhausted(w) ==
    IF w.exhausted THEN w ELSE Settle([w EXCEPT !.exhausted = TRUE])

(* New limits while nothing is cached.                                     *)
Reconfigure(w, visible, limit) ==
    [w EXCEPT !.visible = visible, !.limit = Most(visible, limit),
              !.phase = IF w.exhausted THEN "complete"
                        ELSE IF @ = "loading" THEN @ ELSE "idle"]

\* Mutant: the window keeps its numerical place instead of its bundle.
SyncWindowByPlace(w, first, admitted) ==
    LET d      == admitted.deque
        active == IF w.active = 0 THEN StartActive(Len(d), w.visible)
                  ELSE Least(w.active, Len(d))
        start  == IF first THEN 0
                  ELSE Monus(w.start + admitted.evictedNewer, admitted.prepended)
    IN  [w EXCEPT !.cache = Ords(d), !.active = active, !.start = start,
                  !.rewind = IF first THEN Monus(active, 1) ELSE @,
                  !.visited = Most(@, start + active),
                  !.exhausted = ~HasOlder(d),
                  !.phase = IF ~HasOlder(d) /\ active = Len(d) THEN "complete" ELSE @]

\* Mutant: what a newer page puts before the cache is not counted.
SyncWindowNoPrepend(w, first, admitted) ==
    LET d      == admitted.deque
        active == IF w.active = 0 THEN StartActive(Len(d), w.visible)
                  ELSE PlaceOf(w.cache[w.active], Ords(d))
        start  == IF first THEN 0 ELSE w.start + admitted.evictedNewer
    IN  [w EXCEPT !.cache = Ords(d), !.active = active, !.start = start,
                  !.rewind = IF first THEN Monus(active, 1) ELSE @,
                  !.visited = Most(@, start + active),
                  !.exhausted = ~HasOlder(d),
                  !.phase = IF ~HasOlder(d) /\ active = Len(d) THEN "complete" ELSE @]

(* The window follows the deque without moving its focus: the identity of  *)
(* the active bundle decides, not its place.  active 0 with a cache that   *)
(* is not empty says that the active bundle was evicted.                   *)
SyncWindow(w, first, admitted) ==
    LET d      == admitted.deque
        active == IF w.active = 0 THEN StartActive(Len(d), w.visible)
                  ELSE PlaceOf(w.cache[w.active], Ords(d))
        start  == IF first THEN 0
                  ELSE Monus(w.start + admitted.evictedNewer, admitted.prepended)
    IN  [w EXCEPT !.cache = Ords(d), !.active = active, !.start = start,
                  !.rewind = IF first THEN Monus(active, 1) ELSE @,
                  !.visited = Most(@, start + active),
                  !.exhausted = ~HasOlder(d),
                  !.phase = IF ~HasOlder(d) /\ active = Len(d) THEN "complete" ELSE @]

LosesFocus(w) == w.active = 0 /\ w.cache # <<>>

(* The cached bundles the focus can still move over.                       *)
Runway(w, dir) ==
    IF dir = "older" THEN Len(w.cache) - w.active ELSE Monus(w.active, RewindFloor(w))

(* One page of the pager.  A last page that was cut short is undone by its *)
(* own length, so that going back returns to the pages gone through.       *)
Advance(w, dir, stride) ==
    LET progress == Monus(w.start + w.active - 1, w.rewind)
        short    == IF w.exhausted /\ w.active = Len(w.cache) THEN progress % stride ELSE 0
        back     == IF short > 0 THEN short ELSE stride
        target   == IF dir = "older" THEN Least(Len(w.cache), w.active + stride)
                    ELSE Most(RewindFloor(w), Monus(w.active, back))
        moved    == [w EXCEPT !.active = target, !.visited = Most(@, w.start + target)]
    IN  IF \/ w.active = 0
           \/ dir = "newer" /\ w.active <= RewindFloor(w)
           \/ target = w.active
        THEN w
        ELSE [moved EXCEPT !.phase = ResolvedPhase(moved, "transitioning")]

----------------------------------------------------------------------------
(* The prefetch planner: the direction of the next page, "none" when both  *)
(* runways are long enough; the preferred direction goes first.            *)

PlanPrefetch(w, deque, page, pages, prefer) ==
    LET target       == page * Least(3, pages)
        newerDeficit == HasNewer(deque) /\ Monus(w.active, w.visible) < target
        olderDeficit == HasOlder(deque) /\ Len(w.cache) - w.active < target
    IN  CASE newerDeficit /\ (prefer = "newer" \/ ~olderDeficit) -> "newer"
          [] olderDeficit /\ (prefer = "older" \/ ~newerDeficit) -> "older"
          [] OTHER                                               -> "none"
=============================================================================
