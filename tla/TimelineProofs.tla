--------------------------- MODULE TimelineProofs ---------------------------
(* The timeline of a knowledge source (UniverseTimeline), for every length of   *)
(* the timeline, every page size, window and cache limit, and any number of     *)
(* disturbances: the window and the cache are one gapless slice of the          *)
(* timeline, no event is skipped, and the focus moves with page turns only.     *)
(*                                                                              *)
(* The two data structures come first, with what each operation makes of a      *)
(* slice; then the handlers, as operations on a value of the page's state; then *)
(* the steps.                                                                   *)
EXTENDS UniverseTimeline, SequenceTheorems, TLAPS

Dirs      == {"older", "newer"}
Cells     == [ord : Nat, before : BOOLEAN, after : BOOLEAN]
WinFields == {"cache", "active", "visited", "exhausted", "phase", "visible", "limit", "start", "rewind"}
SesFields == {"open", "loaded", "deque", "snap", "page", "prefer", "loading", "paused", "win", "shown"}
ReqFields == {"cause", "dir", "snap", "limit", "root", "cursor", "reply"}
TurnFields == {"dir", "stride", "tries", "live", "by"}
Fields    == {"mode", "ses", "kept", "req", "turn", "timer", "marker", "reload", "reloads", "locked",
              "interactive", "playing", "order", "cfg", "due", "scene", "nav", "restoring", "shown", "cuts"}

(***************************************************************************)
(* The invariant.                                                          *)
(***************************************************************************)
WinTyped(w) ==
  /\ DOMAIN w = WinFields
  /\ w.cache \in Seq(Nat) /\ w.active \in Nat /\ w.visited \in Nat /\ w.exhausted \in BOOLEAN
  /\ w.phase \in Phases /\ w.visible \in Nat \ {0} /\ w.limit \in Nat /\ w.limit >= w.visible
  /\ w.start \in Nat /\ w.rewind \in Nat

\* A deque without gaps, in a timeline of T events.
Slice(d, T) ==
  /\ d \in Seq(Cells)
  /\ \A i \in 1..Len(d) :
        /\ d[i].ord = d[1].ord + i - 1 /\ d[i].ord < T
        /\ d[i].before <=> d[i].ord > 0
        /\ ~d[i].after => d[i].ord = T - 1

\* The window lies on the deque, and the reader has seen what lies behind.
Lies(w, d) ==
  /\ w.cache = Ords(d)
  /\ d # <<>> => d[1].ord = w.start /\ w.active \in 1..Len(d)
  /\ d = <<>> => w.active = 0
Seen(w, shown) ==
  /\ w.visited >= w.start + w.active
  /\ 0..(w.visited - 1) \subseteq shown

Total(b, snap) == b.events - Monus(snap, 1)
PageSizes(b)   == {b.settings[i].page : i \in DOMAIN b.settings}

SesTyped(s) ==
  /\ DOMAIN s = SesFields
  /\ s.open = TRUE /\ s.loaded \in BOOLEAN /\ s.deque \in Seq(Cells) /\ s.snap \in Nat
  /\ s.prefer \in Dirs /\ s.loading \in BOOLEAN /\ s.paused \in BOOLEAN /\ WinTyped(s.win)
  /\ s.shown \subseteq Nat

Filled(b, s) ==
  /\ s.snap > 0
  /\ Slice(s.deque, Total(b, s.snap)) /\ Lies(s.win, s.deque) /\ Seen(s.win, s.shown)
  /\ s.win.exhausted <=> ~HasOlder(s.deque)
Blank(s) ==
  /\ s.snap = 0 /\ s.deque = <<>> /\ s.win.cache = <<>> /\ s.win.active = 0
  /\ s.win.visited = 0 /\ s.win.start = 0 /\ ~s.win.exhausted

SesSound(b, s) ==
  /\ SesTyped(s)
  /\ s.page \in {0} \cup PageSizes(b)
  /\ IF s.loaded THEN Filled(b, s) ELSE Blank(s)

\* The rows of a page: they lie next to the edge they were asked for.
RowsFit(r, rows, T) ==
  /\ Slice(rows, T)
  /\ r.root /\ rows # <<>> => rows[1].ord = 0
  /\ ~r.root /\ r.dir = "older" /\ rows # <<>> => rows[1].ord = r.cursor + 1
  /\ ~r.root /\ r.dir = "older" /\ rows = <<>> => r.cursor + 1 = T
  /\ ~r.root /\ r.dir = "newer" => rows # <<>> /\ rows[Len(rows)].ord = r.cursor - 1

ReplyFits(b, r) ==
  \/ r.reply = NoReply
  \/ r.reply = [kind |-> "changed"]
  \/ /\ DOMAIN r.reply = {"kind", "rows", "snap"} /\ r.reply.kind = "page"
     /\ r.reply.snap \in Nat \ {0} /\ r.snap \in {0, r.reply.snap}
     /\ RowsFit(r, r.reply.rows, Total(b, r.reply.snap))

\* A request asks at an edge of the deque as it is.
Asked(b, s, r) ==
  /\ DOMAIN r = ReqFields
  /\ r.dir \in Dirs /\ r.limit \in Nat \ {0} /\ r.snap = s.snap /\ r.root = ~s.loaded
  /\ r.root => r.dir = "older" /\ r.cursor = 0
  /\ ~r.root /\ r.dir = "older" => HasOlder(s.deque) /\ r.cursor = s.deque[Len(s.deque)].ord
  /\ ~r.root /\ r.dir = "newer" => HasNewer(s.deque) /\ r.cursor = s.deque[1].ord
  /\ ReplyFits(b, r)

Typed(b, v) ==
  /\ DOMAIN v = Fields
  /\ v.mode \in {"home", "exploration", "context"} /\ v.timer \in {"off", "live", "stale"}
  /\ v.marker \in {"none", "live"} /\ v.locked \in BOOLEAN /\ v.interactive \in BOOLEAN
  /\ v.playing \in BOOLEAN /\ v.cfg \in DOMAIN b.settings /\ v.due \subseteq {"window", "prefetch", "filter"}
  /\ v.scene \in {"idle", "awaiting-result", "awaiting-data", "entering"}
  /\ DOMAIN v.shown = {"bundles", "enabled"} /\ v.shown.bundles \in Seq(Nat)

KeptSound(b, k) ==
  /\ DOMAIN k = {"is", "ses"}
  /\ \/ k.ses = NoSession
     \/ SesSound(b, k.ses) /\ ~k.ses.loading /\ k.ses.win.phase \in {"idle", "complete"}

\* What every operation of a handler keeps.
Sound(b, v) ==
  /\ Typed(b, v)
  /\ v.ses = NoSession \/ SesSound(b, v.ses)
  /\ KeptSound(b, v.kept)
  /\ v.req # NoRequest => v.ses # NoSession /\ Asked(b, v.ses, v.req)
  /\ v.ses # NoSession => (v.ses.loading <=> v.req # NoRequest)

\* A page turn was begun with the focus on the screen.
TurnSound(v) ==
  v.turn # NoTurn =>
    /\ DOMAIN v.turn = TurnFields
    /\ v.turn.dir \in Dirs /\ v.turn.stride \in Nat \ {0} /\ v.turn.tries \in Nat /\ v.turn.live \in BOOLEAN
    /\ v.ses # NoSession /\ v.ses.loaded /\ v.ses.deque # <<>> /\ v.turn.stride <= v.ses.win.visible
    /\ v.marker = "none"
    /\ v.shown.bundles # <<>>
    /\ v.shown.bundles[Len(v.shown.bundles)] = v.ses.win.cache[v.ses.win.active]

\* It could not be done with what is cached.
Short(v) ==
  v.turn # NoTurn =>
    /\ Runway(v.ses.win, v.turn.dir) < v.turn.stride /\ EdgeOpen(v, v.turn.dir)
Waiting(v) == v.turn # NoTurn => v.req # NoRequest /\ v.interactive

\* A turn that was done and not yet rendered.
MarkSound(v) ==
  v.marker = "live" =>
    /\ "window" \in v.due /\ v.turn = NoTurn /\ v.interactive
    /\ v.ses # NoSession /\ Visible(v.ses.win) # v.shown.bundles

\* When React has run, the scene shows the window.
ShownSound(v) ==
  v.due = {} /\ v.interactive /\ v.ses # NoSession => v.shown.bundles = Visible(v.ses.win)

PageSound(b, v) ==
  /\ Sound(b, v) /\ TurnSound(v) /\ Short(v) /\ Waiting(v) /\ MarkSound(v) /\ ShownSound(v)
  /\ v.ses # NoSession <=> v.mode = "exploration"

WorldSound(x) ==
  DOMAIN x = {"bound", "version", "left"} /\ x.bound \in Scenarios /\ x.version \in Nat \ {0}

TimelineInv == WorldSound(world) /\ PageSound(world.bound, u)

(***************************************************************************)
(* Slices of the timeline.                                                 *)
(***************************************************************************)
LEMMA CellFields ==
  ASSUME NEW c \in Cells
  PROVE  c.ord \in Nat /\ c.before \in BOOLEAN /\ c.after \in BOOLEAN
BY DEF Cells

\* What is known of a cell of a deque.
LEMMA CellOf ==
  ASSUME NEW d \in Seq(Cells), NEW i \in 1..Len(d)
  PROVE  d[i] \in Cells /\ d[i].ord \in Nat /\ d[i].before \in BOOLEAN /\ d[i].after \in BOOLEAN
BY ElementOfSeq, CellFields

LEMMA OrdsOf ==
  ASSUME NEW d \in Seq(Cells)
  PROVE  /\ Ords(d) \in Seq(Nat) /\ Len(Ords(d)) = Len(d)
         /\ \A i \in 1..Len(d) : Ords(d)[i] = d[i].ord
<1>1. DOMAIN d = 1..Len(d) /\ Len(d) \in Nat
  BY LenProperties
<1>2. \A i \in 1..Len(d) : d[i].ord \in Nat
  BY CellOf
<1>3. Ords(d) = [i \in 1..Len(d) |-> d[i].ord]
  BY <1>1 DEF Ords
<1> QED
  BY <1>1, <1>2, <1>3

LEMMA NotEmpty ==
  ASSUME NEW S, NEW s \in Seq(S)
  PROVE  /\ Len(s) \in Nat
         /\ s # <<>> <=> Len(s) > 0
         /\ Len(s) = 0 <=> s = <<>>
BY EmptySeq, LenProperties

LEMMA EdgesOf ==
  ASSUME NEW d \in Seq(Cells)
  PROVE  /\ HasOlder(d) <=> Len(d) > 0 /\ d[Len(d)].after
         /\ HasNewer(d) <=> Len(d) > 0 /\ d[1].before
BY NotEmpty DEF HasOlder, HasNewer

LEMMA EmptySlice ==
  ASSUME NEW T \in Int
  PROVE  Slice(<<>>, T)
BY DEF Slice

LEMMA SliceOfSlice ==
  ASSUME NEW T \in Int, NEW d, Slice(d, T), NEW m \in Int, NEW n \in Int, 1 <= m, n <= Len(d), m <= n + 1
  PROVE  /\ Slice(SubSeq(d, m, n), T)
         /\ Len(SubSeq(d, m, n)) = n - m + 1
         /\ \A i \in 1..(n - m + 1) : SubSeq(d, m, n)[i] = d[m + i - 1]
<1> DEFINE e == SubSeq(d, m, n)
<1>1. d \in Seq(Cells) /\ Len(d) \in Nat
  BY LenProperties DEF Slice
<1>2. \A i \in m..n : d[i] \in Cells
  BY <1>1, CellOf
<1>3. /\ e \in Seq(Cells)
      /\ Len(e) = n - m + 1
      /\ \A i \in 1..(n - m + 1) : e[i] = d[m + i - 1]
  <2>1. Len(e) = IF m <= n THEN n - m + 1 ELSE 0
    BY <1>2, SubSeqProperties
  <2>2. e \in Seq(Cells) /\ \A i \in 1..(n - m + 1) : e[i] = d[m + i - 1]
    BY <1>2, SubSeqProperties
  <2> QED
    BY <2>1, <2>2
<1>4. ASSUME NEW i \in 1..Len(e)
      PROVE  /\ e[i].ord = e[1].ord + i - 1 /\ e[i].ord < T
             /\ e[i].before <=> e[i].ord > 0
             /\ ~e[i].after => e[i].ord = T - 1
  <2>1. m + i - 1 \in 1..Len(d) /\ m \in 1..Len(d) /\ e[i] = d[m + i - 1] /\ e[1] = d[m]
    BY <1>1, <1>3
  <2>2. /\ d[m + i - 1].ord = d[1].ord + (m + i - 1) - 1 /\ d[m].ord = d[1].ord + m - 1
        /\ d[m + i - 1].ord < T
        /\ d[m + i - 1].before <=> d[m + i - 1].ord > 0
        /\ ~d[m + i - 1].after => d[m + i - 1].ord = T - 1
    BY <2>1 DEF Slice
  <2>3. PICK x \in Nat : x = d[1].ord
    BY <2>1, <1>1, CellOf
  <2>4. PICK y : y = d[m + i - 1].ord
    OBVIOUS
  <2>5. i \in Int /\ y = x + (m + i - 1) - 1 /\ d[m].ord = x + m - 1
    BY <1>3, <2>2, <2>3, <2>4
  <2>6. y = (x + m - 1) + i - 1
    BY <2>5
  <2> HIDE DEF e
  <2> QED
    BY <2>1, <2>2, <2>4, <2>5, <2>6
<1> QED
  BY <1>3, <1>4 DEF Slice

LEMMA SliceJoins ==
  ASSUME NEW T \in Int, NEW d, Slice(d, T), NEW e, Slice(e, T),
         d # <<>> /\ e # <<>> => e[1].ord = d[Len(d)].ord + 1
  PROVE  /\ Slice(d \o e, T)
         /\ Len(d \o e) = Len(d) + Len(e)
         /\ \A i \in 1..(Len(d) + Len(e)) : (d \o e)[i] = IF i <= Len(d) THEN d[i] ELSE e[i - Len(d)]
<1>j. PICK j : j = d \o e
  OBVIOUS
<1>1. d \in Seq(Cells) /\ Len(d) \in Nat /\ e \in Seq(Cells) /\ Len(e) \in Nat
  BY LenProperties DEF Slice
<1>2. /\ j \in Seq(Cells) /\ Len(j) = Len(d) + Len(e)
      /\ \A i \in 1..(Len(d) + Len(e)) : j[i] = IF i <= Len(d) THEN d[i] ELSE e[i - Len(d)]
  BY <1>j, <1>1, ConcatProperties
<1>3. ASSUME NEW i \in 1..Len(j)
      PROVE  /\ j[i].ord = j[1].ord + i - 1 /\ j[i].ord < T
             /\ j[i].before <=> j[i].ord > 0
             /\ ~j[i].after => j[i].ord = T - 1
  <2>1. CASE i <= Len(d)
    <3>1. i \in 1..Len(d) /\ j[i] = d[i] /\ j[1] = d[1]
      BY <1>1, <1>2, <2>1
    <3> QED
      BY <3>1 DEF Slice
  <2>2. CASE i > Len(d) /\ Len(d) = 0
    <3>1. i \in 1..Len(e) /\ j[i] = e[i] /\ j[1] = e[1]
      BY <1>1, <1>2, <2>2
    <3> QED
      BY <3>1 DEF Slice
  <2>3. CASE i > Len(d) /\ Len(d) > 0
    <3>1. /\ i - Len(d) \in 1..Len(e) /\ 1 \in 1..Len(e) /\ Len(d) \in 1..Len(d) /\ 1 \in 1..Len(d)
          /\ j[i] = e[i - Len(d)] /\ j[1] = d[1]
      BY <1>1, <1>2, <2>3
    <3>2. e[1].ord = d[Len(d)].ord + 1
      BY <1>1, <2>3, <3>1, NotEmpty
    <3>3. e[i - Len(d)].ord = e[1].ord + (i - Len(d)) - 1 /\ d[Len(d)].ord = d[1].ord + Len(d) - 1
      BY <3>1 DEF Slice
    <3>4. e[1].ord \in Nat /\ d[1].ord \in Nat /\ d[Len(d)].ord \in Nat
      BY <1>1, <3>1, CellOf
    <3>5. /\ e[i - Len(d)].ord < T
          /\ e[i - Len(d)].before <=> e[i - Len(d)].ord > 0
          /\ ~e[i - Len(d)].after => e[i - Len(d)].ord = T - 1
      BY <3>1 DEF Slice
    <3>6. i \in Int
      BY <1>1, <1>2
    <3>7. j[i].ord = j[1].ord + i - 1
      <4>1. PICK x \in Int : x = d[1].ord
        BY <3>4
      <4>2. PICK l \in Int : l = Len(d)
        BY <1>1
      <4>3. PICK y \in Int : y = d[Len(d)].ord
        BY <3>4
      <4>4. y = x + l - 1
        BY <3>3, <4>1, <4>2, <4>3
      <4>5. e[1].ord = x + l
        <5>1. e[1].ord = y + 1
          BY <3>2, <4>3
        <5> QED
          BY <4>4, <5>1
      <4>6. e[i - l].ord = x + l + (i - l) - 1
        BY <3>3, <4>2, <4>5
      <4>7. j[i].ord = e[i - l].ord /\ j[1].ord = x
        BY <3>1, <4>1, <4>2
      <4> QED
        BY <3>6, <4>6, <4>7
    <3> QED
      BY <3>1, <3>5, <3>7
  <2> QED
    BY <1>1, <2>1, <2>2, <2>3
<1> QED
  BY <1>j, <1>2, <1>3 DEF Slice

\* A focus is found at its one place.
LEMMA PlaceInSlice ==
  ASSUME NEW T \in Int, NEW d, Slice(d, T), NEW o
  PROVE  /\ \A k \in 1..Len(d) : d[k].ord = o => PlaceOf(o, Ords(d)) = k
         /\ PlaceOf(o, Ords(d)) # 0 =>
              PlaceOf(o, Ords(d)) \in 1..Len(d) /\ d[PlaceOf(o, Ords(d))].ord = o
<1> DEFINE s == Ords(d)
           I == {i \in 1..Len(s) : s[i] = o}
<1>1. d \in Seq(Cells) /\ Len(d) \in Nat
  BY LenProperties DEF Slice
<1>2. s \in Seq(Nat) /\ Len(s) = Len(d) /\ \A i \in 1..Len(d) : s[i] = d[i].ord
  BY <1>1, OrdsOf
<1>3. PlaceOf(o, s) = IF I # {} THEN Min(I) ELSE 0
  BY DEF PlaceOf, SelectInSeq
<1>4. ASSUME NEW k \in 1..Len(d), d[k].ord = o
      PROVE  PlaceOf(o, s) = k
  <2>1. ASSUME NEW i \in I PROVE i = k
    <3>1. i \in 1..Len(d) /\ d[i].ord = o
      BY <1>2
    <3>2. d[i].ord = d[1].ord + i - 1 /\ d[k].ord = d[1].ord + k - 1
      BY <3>1 DEF Slice
    <3>3. d[1].ord \in Nat
      BY <1>1, <3>1, CellOf
    <3> QED
      BY <1>1, <1>4, <3>1, <3>2, <3>3
  <2>2. I = {k}
    BY <1>2, <1>4, <2>1
  <2>3. Min(I) = k
    BY <1>1, <2>2 DEF Min
  <2> QED
    BY <1>3, <2>2, <2>3
<1>5. ASSUME PlaceOf(o, s) # 0
      PROVE  PlaceOf(o, s) \in 1..Len(d) /\ d[PlaceOf(o, s)].ord = o
  <2>1. I # {}
    BY <1>3, <1>5
  <2>2. PICK k \in 1..Len(d) : d[k].ord = o
    BY <1>2, <2>1
  <2> QED
    BY <1>4, <2>2
<1> QED
  BY <1>4, <1>5

\* What is left when k cells are dropped and n are kept.
Cut(e, d, k, n) == k \in Nat /\ n \in Nat /\ k + n <= Len(d) /\ e = SubSeq(d, k + 1, k + n)

CutFits(e, d, k, n, T) ==
  /\ Slice(e, T) /\ Len(e) = n
  /\ \A i \in 1..n : e[i] = d[k + i]
  /\ n > 0 => e # <<>> /\ e[1].ord = d[1].ord + k

LEMMA SliceCut ==
  ASSUME NEW T \in Int, NEW d, Slice(d, T), NEW k, NEW n, NEW e, Cut(e, d, k, n)
  PROVE  CutFits(e, d, k, n, T)
<1>1. d \in Seq(Cells) /\ Len(d) \in Nat
  BY LenProperties DEF Slice
<1>0. k \in Nat /\ n \in Nat /\ k + n <= Len(d) /\ e = SubSeq(d, k + 1, k + n)
  BY DEF Cut
<1>2. PICK a \in Int : a = k + 1
  BY <1>0
<1>3. PICK c \in Int : c = k + n
  BY <1>0
<1>4. 1 <= a /\ c <= Len(d) /\ a <= c + 1 /\ c - a + 1 = n
  BY <1>0, <1>1, <1>2, <1>3
<1>5. e = SubSeq(d, a, c)
  BY <1>0, <1>2, <1>3
<1>6. Slice(e, T) /\ Len(e) = c - a + 1 /\ \A i \in 1..(c - a + 1) : e[i] = d[a + i - 1]
  BY <1>4, <1>5, SliceOfSlice
<1>7. Len(e) = n
  BY <1>4, <1>6
<1>8. ASSUME NEW i \in 1..n PROVE e[i] = d[k + i]
  <2>1. i \in 1..(c - a + 1) /\ a + i - 1 = k + i
    BY <1>0, <1>2, <1>4
  <2> QED
    BY <1>6, <2>1
<1>9. ASSUME n > 0 PROVE e # <<>> /\ e[1].ord = d[1].ord + k
  <2>1. e # <<>>
    BY <1>6, <1>7, <1>9, NotEmpty DEF Slice
  <2>2. 1 \in 1..n /\ k + 1 \in 1..Len(d) /\ 1 \in 1..Len(d)
    BY <1>0, <1>1, <1>9
  <2>3. e[1] = d[k + 1]
    BY <1>8, <2>2
  <2>4. d[k + 1].ord = d[1].ord + (k + 1) - 1
    BY <2>2 DEF Slice
  <2>5. PICK x \in Nat : x = d[1].ord
    BY <1>1, <2>2, CellOf
  <2>6. e[1].ord = x + (k + 1) - 1
    BY <2>3, <2>4, <2>5
  <2>7. x + (k + 1) - 1 = x + k
    BY <1>0
  <2> QED
    BY <2>1, <2>5, <2>6, <2>7, Zenon
<1> QED
  BY <1>6, <1>7, <1>8, <1>9 DEF CutFits

(***************************************************************************)
(* The window.                                                             *)
(***************************************************************************)
LEMMA WinNames ==
  /\ "cache" \in WinFields /\ "active" \in WinFields /\ "visited" \in WinFields /\ "exhausted" \in WinFields
  /\ "phase" \in WinFields /\ "visible" \in WinFields /\ "limit" \in WinFields /\ "start" \in WinFields
  /\ "rewind" \in WinFields
BY DEF WinFields

LEMMA CacheOf ==
  ASSUME NEW T \in Int, NEW d, Slice(d, T), NEW w, WinTyped(w), Lies(w, d)
  PROVE  /\ Len(d) \in Nat /\ Len(w.cache) = Len(d)
         /\ \A i \in 1..Len(d) : w.cache[i] = d[i].ord /\ w.cache[i] = w.start + i - 1
         /\ d = <<>> <=> w.cache = <<>>
<1>1. d \in Seq(Cells) /\ w.cache = Ords(d) /\ w.cache \in Seq(Nat)
  BY DEF Slice, Lies, WinTyped
<1>2. Len(d) \in Nat /\ Len(w.cache) = Len(d) /\ \A i \in 1..Len(d) : w.cache[i] = d[i].ord
  BY <1>1, OrdsOf, LenProperties
<1>3. ASSUME NEW i \in 1..Len(d) PROVE w.cache[i] = w.start + i - 1
  BY <1>1, <1>2, NotEmpty DEF Slice, Lies
<1>4. d = <<>> <=> w.cache = <<>>
  BY <1>1, <1>2, NotEmpty
<1> QED
  BY <1>2, <1>3, <1>4

LEMMA VisibleOf ==
  ASSUME NEW T \in Int, NEW d, Slice(d, T), d # <<>>, NEW w, WinTyped(w), Lies(w, d)
  PROVE  /\ Visible(w) \in Seq(Nat) /\ Visible(w) # <<>>
         /\ Visible(w)[Len(Visible(w))] = w.cache[w.active]
         /\ Range(Visible(w)) \subseteq Nat
         /\ \A o \in Nat : /\ w.start <= o /\ w.start + w.active - w.visible <= o /\ o < w.start + w.active
                           => o \in Range(Visible(w))
<1>1. /\ w.active \in Nat /\ w.active > 0 /\ w.active <= Len(d) /\ w.visible \in Nat /\ w.visible > 0
      /\ w.start \in Nat /\ w.cache \in Seq(Nat) /\ Len(d) \in Nat
  BY CacheOf DEF Lies, WinTyped
<1>2. PICK m : m = Most(1, w.active - w.visible + 1)
  OBVIOUS
<1>3. m \in Nat /\ m >= 1 /\ m <= w.active /\ (m = 1 \/ m = w.active - w.visible + 1)
  BY <1>1, <1>2 DEF Most
<1>4. PICK s : s = SubSeq(w.cache, m, w.active)
  OBVIOUS
<1>5. Visible(w) = s
  <2>1. w.active # 0
    BY <1>1
  <2> QED
    BY <1>2, <1>4, <2>1, Zenon DEF Visible
<1>6. \A i \in m..w.active : w.cache[i] \in Nat
  <2>1. \A i \in m..w.active : i \in 1..Len(w.cache)
    BY <1>1, <1>3, CacheOf
  <2> QED
    BY <1>1, <2>1, ElementOfSeq
<1>7. /\ s \in Seq(Nat) /\ \A i \in 1..(w.active - m + 1) : s[i] = w.cache[m + i - 1]
      /\ Len(s) = IF m <= w.active THEN w.active - m + 1 ELSE 0
  BY <1>1, <1>3, <1>4, <1>6, SubSeqProperties
<1>8. Len(s) = w.active - m + 1 /\ Len(s) > 0 /\ Len(s) \in Nat
  BY <1>1, <1>3, <1>7
<1>9. s # <<>>
  BY <1>7, <1>8, NotEmpty
<1>10. s[Len(s)] = w.cache[w.active]
  <2>1. Len(s) \in 1..(w.active - m + 1) /\ m + Len(s) - 1 = w.active
    <3>1. PICK n \in Nat : n = Len(s)
      BY <1>8
    <3>2. PICK a \in Nat : a = w.active
      BY <1>1
    <3>3. n = a - m + 1 /\ n > 0 /\ m \in Nat
      BY <1>3, <1>8, <3>1, <3>2
    <3>4. n \in 1..(a - m + 1) /\ m + n - 1 = a
      BY <3>3
    <3> QED
      BY <3>1, <3>2, <3>4
  <2> QED
    BY <1>7, <2>1
<1>11. DOMAIN s = 1..Len(s)
  BY <1>7, LenProperties
<1>12. Range(s) \subseteq Nat
  BY <1>7, <1>11, ElementOfSeq DEF Range
<1>13. ASSUME NEW o \in Nat, w.start <= o, w.start + w.active - w.visible <= o, o < w.start + w.active
       PROVE  o \in Range(s)
  <2>1. PICK i : i = o - w.start + 2 - m
    OBVIOUS
  <2>2. i \in 1..(w.active - m + 1) /\ m + i - 1 = o - w.start + 1
    <3>1. CASE m = 1
      <4>1. PICK a \in Nat : a = w.active
        BY <1>1
      <4>2. PICK k \in Nat : k = w.start
        BY <1>1
      <4>3. k <= o /\ o < k + a /\ i = o - k + 1
        BY <1>13, <2>1, <3>1, <4>1, <4>2
      <4>4. i \in 1..(a - m + 1) /\ m + i - 1 = o - k + 1
        BY <3>1, <4>3
      <4> QED
        BY <4>1, <4>2, <4>4
    <3>2. CASE m = w.active - w.visible + 1
      <4>1. PICK a \in Nat : a = w.active
        BY <1>1
      <4>2. PICK n \in Nat : n = w.visible
        BY <1>1
      <4>3. PICK k \in Nat : k = w.start
        BY <1>1
      <4>4. k + a - n <= o /\ o < k + a /\ m = a - n + 1 /\ i = o - k + 2 - m
        BY <1>13, <2>1, <3>2, <4>1, <4>2, <4>3
      <4>5. i \in 1..(a - m + 1) /\ m + i - 1 = o - k + 1
        BY <4>4
      <4> QED
        BY <4>1, <4>2, <4>3, <4>5
    <3> QED
      BY <1>3, <3>1, <3>2
  <2>3. o - w.start + 1 \in 1..Len(d) /\ w.start + (o - w.start + 1) - 1 = o
    <3>1. PICK a \in Nat : a = w.active
      BY <1>1
    <3>2. PICK k \in Nat : k = w.start
      BY <1>1
    <3>3. PICK n \in Nat : n = Len(d)
      BY <1>1
    <3>4. a <= n /\ k <= o /\ o < k + a
      BY <1>1, <1>13, <3>1, <3>2, <3>3
    <3>5. o - k + 1 \in 1..n /\ k + (o - k + 1) - 1 = o
      BY <3>4
    <3> QED
      BY <3>2, <3>3, <3>5
  <2>4. s[i] = w.cache[o - w.start + 1]
    BY <1>7, <2>2
  <2>5. w.cache[o - w.start + 1] = o
    BY <2>3, CacheOf
  <2>6. i \in DOMAIN s
    BY <1>8, <1>11, <2>2
  <2> QED
    BY <2>4, <2>5, <2>6 DEF Range
<1> QED
  BY <1>5, <1>7, <1>9, <1>10, <1>12, <1>13

\* What comes on the screen is seen, also when the focus goes one page on.
LEMMA SeenMore ==
  ASSUME NEW T \in Int, NEW d, Slice(d, T), d # <<>>, NEW w, WinTyped(w), Lies(w, d),
         NEW shown, NEW before \in Nat, 0..(before - 1) \subseteq shown, w.start <= before,
         w.start + w.active <= before + w.visible, w.visited = Most(before, w.start + w.active)
  PROVE  Seen(w, shown \cup Range(Visible(w)))
<1>1. w.active \in Nat /\ w.visible \in Nat /\ w.start \in Nat
  BY DEF WinTyped
<1>2. w.visited >= w.start + w.active
  BY <1>1 DEF Least, Most, Monus
<1>3. ASSUME NEW o \in 0..(w.visited - 1) PROVE o \in shown \cup Range(Visible(w))
  <2>1. CASE o < before
    BY <2>1
  <2>2. CASE o >= before
    <3>1. o \in Nat /\ o < w.start + w.active /\ w.start <= o /\ w.start + w.active - w.visible <= o
      BY <1>1, <2>2 DEF Least, Most, Monus
    <3> QED
      BY <3>1, VisibleOf
  <2> QED
    BY <2>1, <2>2
<1> QED
  BY <1>2, <1>3 DEF Seen

LEMMA SeenStays ==
  ASSUME NEW w, NEW q, NEW shown, NEW more, Seen(w, shown),
         q.visited = w.visited, q.start + q.active = w.start + w.active
  PROVE  Seen(q, shown \cup more)
BY DEF Seen

LEMMA PhaseIs ==
  ASSUME NEW w, NEW p
  PROVE  ResolvedPhase(w, p) \in {"complete", "idle", p}
BY DEF ResolvedPhase

\* A window whose phase changes.
LEMMA PhaseOnly ==
  ASSUME NEW w, WinTyped(w), NEW p \in Phases, NEW q, q = [w EXCEPT !.phase = p]
  PROVE  /\ WinTyped(q) /\ q.cache = w.cache /\ q.active = w.active /\ q.visited = w.visited
         /\ q.exhausted = w.exhausted /\ q.visible = w.visible /\ q.limit = w.limit /\ q.start = w.start
         /\ q.rewind = w.rewind /\ q.phase = p /\ Visible(q) = Visible(w)
<1>1. /\ WinTyped(q) /\ q.cache = w.cache /\ q.active = w.active /\ q.visited = w.visited
      /\ q.exhausted = w.exhausted /\ q.visible = w.visible /\ q.limit = w.limit /\ q.start = w.start
      /\ q.rewind = w.rewind /\ q.phase = p
  BY WinNames DEF WinTyped
<1> QED
  BY <1>1 DEF Visible

LEMMA SettleIs ==
  ASSUME NEW w, WinTyped(w), NEW q, q = Settle(w)
  PROVE  /\ WinTyped(q) /\ q.cache = w.cache /\ q.active = w.active /\ q.visited = w.visited
         /\ q.exhausted = w.exhausted /\ q.visible = w.visible /\ q.limit = w.limit /\ q.start = w.start
         /\ q.rewind = w.rewind /\ q.phase \in {"idle", "complete"} /\ Visible(q) = Visible(w)
<1>1. PICK p : p = ResolvedPhase(w, "idle")
  OBVIOUS
<1>2. p \in {"idle", "complete"} /\ p \in Phases
  BY <1>1, PhaseIs DEF Phases
<1>3. q = [w EXCEPT !.phase = p]
  BY <1>1 DEF Settle
<1> QED
  BY <1>2, <1>3, PhaseOnly

LEMMA FloorOf ==
  ASSUME NEW w, WinTyped(w), w.cache # <<>>
  PROVE  RewindFloor(w) \in 1..Len(w.cache)
<1>1. Len(w.cache) \in Nat /\ Len(w.cache) > 0 /\ w.rewind \in Nat /\ w.start \in Nat
  BY NotEmpty DEF WinTyped
<1>2. Monus(w.rewind, w.start) \in Nat
  BY <1>1 DEF Least, Most, Monus
<1> QED
  BY <1>1, <1>2 DEF RewindFloor, Least, Most, Monus

\* A page turn moves the focus within the cache, not further than it shows.
MayAdvance(T, d, w, shown, dir, stride) ==
  /\ T \in Int /\ Slice(d, T) /\ d # <<>> /\ WinTyped(w) /\ Lies(w, d) /\ Seen(w, shown)
  /\ dir \in Dirs /\ stride \in Nat \ {0} /\ stride <= w.visible
Advanced(d, w, shown, q) ==
  /\ WinTyped(q) /\ Lies(q, d) /\ Seen(q, shown \cup Range(Visible(q)))
  /\ q.cache = w.cache /\ q.exhausted = w.exhausted /\ q.visible = w.visible
  /\ q # w => q.cache[q.active] # w.cache[w.active]

LEMMA AdvanceIs ==
  ASSUME NEW T, NEW d, NEW w, NEW shown, NEW dir, NEW stride, MayAdvance(T, d, w, shown, dir, stride),
         NEW q, q = Advance(w, dir, stride)
  PROVE  Advanced(d, w, shown, q)
<1> USE DEF MayAdvance
<1> DEFINE progress == Monus(w.start + w.active - 1, w.rewind)
           short    == IF w.exhausted /\ w.active = Len(w.cache) THEN progress % stride ELSE 0
           back     == IF short > 0 THEN short ELSE stride
           target   == IF dir = "older" THEN Least(Len(w.cache), w.active + stride)
                       ELSE Most(RewindFloor(w), Monus(w.active, back))
           moved    == [w EXCEPT !.active = target, !.visited = Most(@, w.start + target)]
           next     == [moved EXCEPT !.phase = ResolvedPhase(moved, "transitioning")]
           stays    == \/ w.active = 0
                       \/ dir = "newer" /\ w.active <= RewindFloor(w)
                       \/ target = w.active
<1>1. q = IF stays THEN w ELSE next
  BY DEF Advance
<1>2. /\ w.active \in 1..Len(d) /\ Len(d) \in Nat /\ Len(w.cache) = Len(d) /\ w.cache # <<>>
      /\ w.start \in Nat /\ w.rewind \in Nat /\ w.visited \in Nat /\ w.visible \in Nat
  <2>1. Len(d) \in Nat /\ Len(w.cache) = Len(d) /\ w.cache # <<>>
    BY CacheOf
  <2> QED
    BY <2>1 DEF Lies, WinTyped
<1>3. progress \in Nat
  BY <1>2 DEF Least, Most, Monus
<1>4. short \in Nat /\ back \in Nat
  <2>1. progress % stride \in Nat
    <3> HIDE DEF progress
    <3> QED
      BY <1>3
  <2> QED
    BY <2>1
<1>5. RewindFloor(w) \in 1..Len(d)
  BY <1>2, FloorOf
<1>6. ~stays => target \in 1..Len(d) /\ target <= w.active + stride
  <2>1. CASE dir = "older"
    <3>1. PICK a \in Nat : a = w.active
      BY <1>2
    <3>2. PICK n \in Nat : n = Len(d)
      BY <1>2
    <3>3. PICK x : x = target
      OBVIOUS
    <3>4. a \in 1..n /\ x = Least(n, a + stride)
      BY <1>2, <2>1, <3>1, <3>2, <3>3
    <3> HIDE DEF target
    <3>5. x \in 1..n /\ x <= a + stride
      BY <3>4 DEF Least
    <3> QED
      BY <3>1, <3>2, <3>3, <3>5
  <2>2. CASE dir = "newer"
    <3>1. Monus(w.active, back) \in Nat /\ Monus(w.active, back) <= w.active
      <4>1. PICK a \in Nat : a = w.active
        BY <1>2
      <4>2. PICK n \in Nat : n = back
        BY <1>4
      <4>3. Monus(a, n) \in Nat /\ Monus(a, n) <= a
        BY DEF Monus
      <4> HIDE DEF back
      <4> QED
        BY <4>1, <4>2, <4>3
    <3> HIDE DEF back
    <3> QED
      BY <1>2, <1>5, <2>2, <3>1 DEF Least, Most, Monus
  <2> QED
    BY <2>1, <2>2 DEF Dirs
<1>7. CASE stays
  BY <1>1, <1>7 DEF Seen, Advanced
<1>8. CASE ~stays
  <2>1. PICK a : a = target
    OBVIOUS
  <2>2. a \in 1..Len(d) /\ a <= w.active + stride /\ a # w.active
    BY <1>6, <1>8, <2>1
  <2> HIDE DEF target
  <2>3. PICK v : v = Most(w.visited, w.start + a)
    OBVIOUS
  <2>4. v \in Nat
    BY <1>2, <2>2, <2>3 DEF Least, Most, Monus
  <2>5. PICK m : m = [w EXCEPT !.active = a, !.visited = v]
    OBVIOUS
  <2>6. PICK p : p = ResolvedPhase(m, "transitioning")
    OBVIOUS
  <2>7. q = [m EXCEPT !.phase = p]
    BY <1>1, <1>8, <2>1, <2>3, <2>5, <2>6
  <2>8. /\ WinTyped(m) /\ m.active = a /\ m.visited = v /\ m.cache = w.cache /\ m.exhausted = w.exhausted
        /\ m.visible = w.visible /\ m.start = w.start
    BY <1>2, <2>2, <2>4, <2>5, WinNames DEF WinTyped
  <2>9. p \in Phases
    BY <2>6, PhaseIs DEF Phases
  <2>10. /\ WinTyped(q) /\ q.active = a /\ q.visited = v /\ q.cache = w.cache /\ q.exhausted = w.exhausted
         /\ q.visible = w.visible /\ q.start = w.start
    BY <2>7, <2>8, <2>9, PhaseOnly
  <2>11. Lies(q, d)
    BY <2>2, <2>10 DEF Lies
  <2>12. Seen(q, shown \cup Range(Visible(q)))
    <3>1. 0..(w.visited - 1) \subseteq shown /\ w.start + w.active <= w.visited
      BY DEF Seen
    <3>2. q.start <= w.visited /\ q.start + q.active <= w.visited + q.visible
      <4>1. PICK k \in Nat : k = w.start
        BY <1>2
      <4>2. PICK x \in Nat : x = w.visited
        BY <1>2
      <4>3. PICK y \in Nat : y = w.visible
        BY <1>2
      <4>4. PICK z \in Nat : z = w.active
        BY <1>2
      <4>5. PICK n \in Nat : n = Len(d)
        BY <1>2
      <4>6. a \in 1..n /\ a <= z + stride /\ stride <= y /\ k + z <= x /\ stride \in Nat
        BY <2>2, <3>1, <4>1, <4>2, <4>3, <4>4, <4>5
      <4>7. k <= x /\ k + a <= x + y
        BY <4>6
      <4> QED
        BY <2>10, <4>1, <4>2, <4>3, <4>7
    <3> HIDE DEF MayAdvance
    <3>3. T \in Int /\ Slice(d, T) /\ d # <<>>
      BY DEF MayAdvance
    <3> QED
      BY <1>2, <2>3, <2>10, <2>11, <3>1, <3>2, <3>3, SeenMore
  <2>13. q.cache[q.active] # w.cache[w.active]
    <3>1. w.cache[a] = w.start + a - 1 /\ w.cache[w.active] = w.start + w.active - 1
      BY <1>2, <2>2, CacheOf
    <3>2. PICK k \in Nat : k = w.start
      BY <1>2
    <3>3. PICK z \in Int : z = w.active
      BY <1>2
    <3>4. a \in Int /\ a # z
      BY <1>2, <2>2, <3>3
    <3>5. k + a - 1 # k + z - 1
      BY <3>4
    <3> QED
      BY <2>10, <3>1, <3>2, <3>3, <3>5
  <2> QED
    BY <2>10, <2>11, <2>12, <2>13 DEF Advanced
<1> QED
  BY <1>7, <1>8

(***************************************************************************)
(* A page, a synchronisation and new limits.                               *)
(***************************************************************************)
\* An empty page of older rows closes the edge where the timeline ends.
LEMMA ClosedIs ==
  ASSUME NEW T \in Int, NEW d, Slice(d, T), d # <<>>, d[Len(d)].ord + 1 = T
  PROVE  /\ Slice(CloseEdge(d, "older"), T)
         /\ Len(CloseEdge(d, "older")) = Len(d)
         /\ CloseEdge(d, "older")[1].ord = d[1].ord
<1>1. d \in Seq(Cells) /\ Len(d) \in Nat /\ Len(d) > 0
  BY NotEmpty DEF Slice
<1>2. PICK n : n = Len(d)
  OBVIOUS
<1>3. n \in 1..Len(d) /\ d[n] \in Cells /\ d[n].ord = T - 1 /\ d[n].ord \in Nat
  BY <1>1, <1>2, CellOf
<1>4. PICK c : c = [d[n] EXCEPT !.after = FALSE]
  OBVIOUS
<1>5. c \in Cells /\ c.ord = d[n].ord /\ c.before = d[n].before
  BY <1>3, <1>4 DEF Cells
<1>6. PICK e : e = [d EXCEPT ![n] = c]
  OBVIOUS
<1>7. CloseEdge(d, "older") = e
  BY <1>2, <1>4, <1>6 DEF CloseEdge
<1>8. e \in Seq(Cells) /\ Len(e) = Len(d) /\ \A i \in 1..Len(d) : e[i] = IF i = n THEN c ELSE d[i]
  BY <1>1, <1>3, <1>5, <1>6, ExceptSeq
<1>9. \A i \in 1..Len(d) : e[i].ord = d[i].ord /\ e[i].before = d[i].before
  BY <1>5, <1>8
<1>10. ASSUME NEW i \in 1..Len(e)
       PROVE  /\ e[i].ord = e[1].ord + i - 1 /\ e[i].ord < T
              /\ e[i].before <=> e[i].ord > 0
              /\ ~e[i].after => e[i].ord = T - 1
  <2>1. i \in 1..Len(d) /\ 1 \in 1..Len(d)
    BY <1>1, <1>8
  <2>2. /\ d[i].ord = d[1].ord + i - 1 /\ d[i].ord < T
        /\ d[i].before <=> d[i].ord > 0
        /\ ~d[i].after => d[i].ord = T - 1
    BY <2>1 DEF Slice
  <2>3. e[i].ord = d[i].ord /\ e[1].ord = d[1].ord /\ e[i].before = d[i].before
    BY <1>9, <2>1
  <2>4. ~e[i].after => e[i].ord = T - 1
    BY <1>3, <1>8, <2>1, <2>2, <2>3
  <2> QED
    BY <2>2, <2>3, <2>4
<1>11. e[1].ord = d[1].ord
  BY <1>1, <1>9
<1> QED
  BY <1>7, <1>8, <1>10, <1>11 DEF Slice

\* The first page: its newest rows.
LEMMA FirstPage ==
  ASSUME NEW T \in Int, NEW rows, Slice(rows, T), rows # <<>> => rows[1].ord = 0,
         NEW limit \in Nat \ {0}, NEW a, a = Admit(FALSE, <<>>, rows, "older", limit)
  PROVE  Slice(a.deque, T) /\ (a.deque # <<>> => a.deque[1].ord = 0)
<1>1. rows \in Seq(Cells) /\ Len(rows) \in Nat
  BY LenProperties DEF Slice
<1>2. <<>> \o rows = rows
  BY <1>1, ConcatEmptySeq
<1>3. PICK n : n = Len(rows) - Monus(Len(rows), limit)
  OBVIOUS
<1>4. n \in Nat /\ n <= Len(rows)
  BY <1>1, <1>3 DEF Monus
<1>5. a.deque = SubSeq(rows, 1, n)
  BY <1>2, <1>3 DEF Admit
<1>6. a.deque = SubSeq(rows, 0 + 1, 0 + n) /\ 0 + n <= Len(rows)
  <2>1. 0 + n = n /\ 0 + 1 = 1
    BY <1>4
  <2> QED
    BY <1>4, <1>5, <2>1, Zenon
<1>7. Slice(a.deque, T) /\ Len(a.deque) = n /\ (n > 0 => a.deque[1].ord = rows[1].ord + 0)
  <2>1. Cut(a.deque, rows, 0, n)
    BY <1>4, <1>6 DEF Cut
  <2>2. CutFits(a.deque, rows, 0, n, T)
    BY <2>1, SliceCut, Zenon
  <2> QED
    BY <2>2 DEF CutFits
<1>8. ASSUME a.deque # <<>> PROVE a.deque[1].ord = 0
  <2>1. n > 0
    BY <1>7, <1>8, NotEmpty DEF Slice
  <2>2. rows # <<>>
    BY <1>1, <1>4, <2>1, NotEmpty
  <2> QED
    <3>1. rows[1].ord + 0 = 0
      BY <2>2
    <3> QED
      BY <1>7, <2>1, <3>1, Zenon
<1> QED
  BY <1>7, <1>8

\* A page of older rows is appended, and the newest cells make room for it.
OlderComes(T, d, rows, limit, a) ==
  /\ T \in Int /\ Slice(d, T) /\ d # <<>> /\ Slice(rows, T)
  /\ rows # <<>> => rows[1].ord = d[Len(d)].ord + 1
  /\ rows = <<>> => d[Len(d)].ord + 1 = T
  /\ limit \in Nat \ {0} /\ a = Admit(TRUE, d, rows, "older", limit)
OlderGoesIn(T, d, a) ==
  /\ Slice(a.deque, T) /\ a.deque # <<>> /\ a.evictedNewer \in Nat /\ a.prepended = 0
  /\ a.deque[1].ord = d[1].ord + a.evictedNewer
LEMMA OlderPage ==
  ASSUME NEW T, NEW d, NEW rows, NEW limit, NEW a, OlderComes(T, d, rows, limit, a)
  PROVE  OlderGoesIn(T, d, a)
<1>0. /\ T \in Int /\ Slice(d, T) /\ d # <<>> /\ Slice(rows, T)
      /\ rows # <<>> => rows[1].ord = d[Len(d)].ord + 1
      /\ rows = <<>> => d[Len(d)].ord + 1 = T
      /\ limit \in Nat \ {0} /\ a = Admit(TRUE, d, rows, "older", limit)
  BY DEF OlderComes
<1> USE <1>0
<1>1. PICK m : m = IF rows = <<>> THEN CloseEdge(d, "older") ELSE d \o rows
  OBVIOUS
<1>2. d \in Seq(Cells) /\ Len(d) \in Nat /\ Len(d) > 0 /\ Len(rows) \in Nat
  BY NotEmpty DEF Slice
<1>3. Slice(m, T) /\ Len(m) >= Len(d) /\ Len(m) \in Nat /\ m[1].ord = d[1].ord
  <2>1. CASE rows = <<>>
    BY <1>1, <1>2, <2>1, ClosedIs
  <2>2. CASE rows # <<>>
    <3>1. m = d \o rows
      BY <1>1, <2>2
    <3>2. Slice(m, T) /\ Len(m) = Len(d) + Len(rows)
      BY <2>2, <3>1, SliceJoins
    <3>3. m[1] = d[1]
      <4>1. 1 \in 1..(Len(d) + Len(rows)) /\ 1 <= Len(d)
        BY <1>2
      <4> QED
        BY <2>2, <3>1, <4>1, SliceJoins
    <3> QED
      BY <1>2, <3>2, <3>3
  <2> QED
    BY <2>1, <2>2
<1>4. PICK k : k = Monus(Len(m), limit)
  OBVIOUS
<1>5. k \in Nat /\ k + 1 <= Len(m)
  BY <1>2, <1>3, <1>4 DEF Monus
<1>6. a.deque = SubSeq(m, k + 1, Len(m)) /\ a.evictedNewer = k /\ a.prepended = 0
  BY <1>1, <1>4 DEF Admit
<1>7. PICK n \in Nat : k + n = Len(m) /\ n > 0
  <2>1. Len(m) - k \in Nat /\ k + (Len(m) - k) = Len(m) /\ Len(m) - k > 0
    BY <1>3, <1>5
  <2> QED
    BY <2>1
<1>8. a.deque = SubSeq(m, k + 1, k + n) /\ k + n <= Len(m)
  <2>1. k + n <= Len(m)
    BY <1>3, <1>5, <1>7
  <2> QED
    BY <1>6, <1>7, <2>1, Zenon
<1>9. Slice(a.deque, T) /\ a.deque # <<>> /\ a.deque[1].ord = m[1].ord + k
  <2>1. Cut(a.deque, m, k, n)
    BY <1>5, <1>7, <1>8 DEF Cut
  <2>2. CutFits(a.deque, m, k, n, T)
    BY <1>3, <2>1, SliceCut, Zenon
  <2> QED
    BY <1>7, <2>2 DEF CutFits
<1> QED
  BY <1>3, <1>5, <1>6, <1>9 DEF OlderGoesIn

\* A page of newer rows is put before them, and the oldest cells make room.
NewerComes(T, d, rows, limit, a) ==
  /\ T \in Int /\ Slice(d, T) /\ d # <<>> /\ Slice(rows, T) /\ rows # <<>>
  /\ rows[Len(rows)].ord = d[1].ord - 1
  /\ limit \in Nat \ {0} /\ a = Admit(TRUE, d, rows, "newer", limit)
NewerGoesIn(T, rows, a) ==
  /\ Slice(a.deque, T) /\ a.deque # <<>> /\ a.deque[1].ord = rows[1].ord
  /\ a.evictedNewer = 0 /\ a.prepended = Least(Len(rows), Len(a.deque))

LEMMA NewerAdmitted ==
  ASSUME NEW T, NEW d, NEW rows, NEW limit, NEW a, NewerComes(T, d, rows, limit, a)
  PROVE  NewerGoesIn(T, rows, a)
<1> USE DEF NewerComes
<1>1. d \in Seq(Cells) /\ Len(d) \in Nat /\ Len(d) > 0 /\ rows \in Seq(Cells) /\ Len(rows) \in Nat /\ Len(rows) > 0
  BY NotEmpty DEF Slice
<1>2. d[1].ord \in Nat /\ rows[1].ord \in Nat /\ rows[Len(rows)].ord \in Nat
  BY <1>1, CellOf
<1>3. PICK m : m = rows \o d
  OBVIOUS
<1>4. /\ Slice(m, T) /\ Len(m) = Len(rows) + Len(d)
      /\ \A i \in 1..(Len(rows) + Len(d)) : m[i] = IF i <= Len(rows) THEN rows[i] ELSE d[i - Len(rows)]
  BY <1>1, <1>2, <1>3, SliceJoins
<1>5. PICK n : n = Len(m) - Monus(Len(m), limit)
  OBVIOUS
<1>6. n \in Nat /\ n <= Len(m) /\ n >= 1
  <2>1. PICK l \in Nat \ {0} : l = Len(m)
    BY <1>1, <1>4
  <2> QED
    BY <1>5, <2>1 DEF Monus
<1>7. a.deque = SubSeq(m, 1, n) /\ a.evictedNewer = 0 /\ a.prepended = Least(Len(rows), Len(a.deque))
  BY <1>3, <1>5 DEF Admit
<1>8. a.deque = SubSeq(m, 0 + 1, 0 + n) /\ 0 + n <= Len(m)
  <2>1. 0 + n = n /\ 0 + 1 = 1
    BY <1>6
  <2> QED
    BY <1>6, <1>7, <2>1, Zenon
<1>9. Slice(a.deque, T) /\ Len(a.deque) = n /\ (n > 0 => a.deque[1].ord = m[1].ord + 0)
  <2>1. Cut(a.deque, m, 0, n)
    BY <1>6, <1>8 DEF Cut
  <2>2. CutFits(a.deque, m, 0, n, T)
    BY <1>4, <2>1, SliceCut, Zenon
  <2> QED
    BY <2>2 DEF CutFits
<1>10. Slice(a.deque, T) /\ Len(a.deque) = n /\ a.deque[1].ord = rows[1].ord
  <2>1. n > 0
    BY <1>6
  <2>2. m[1] = rows[1]
    <3>1. 1 \in 1..(Len(rows) + Len(d)) /\ 1 <= Len(rows)
      BY <1>1
    <3> QED
      BY <1>4, <3>1
  <2> QED
    <3>1. m[1].ord + 0 = rows[1].ord
      BY <1>2, <2>2
    <3> QED
      BY <1>9, <2>1, <3>1, Zenon
<1>11. a.deque # <<>>
  <2>1. a.deque \in Seq(Cells)
    BY <1>10 DEF Slice
  <2>2. n > 0
    BY <1>6
  <2>3. Len(a.deque) > 0
    BY <1>10, <2>2, Zenon
  <2> QED
    BY <2>1, <2>3, NotEmpty
<1> QED
  BY <1>7, <1>10, <1>11 DEF NewerGoesIn

\* When the focus stays in the cache, the whole page went in before it.
NewerMeets(d, a, k, p) == k \in 1..Len(d) /\ p \in 1..Len(a.deque) /\ a.deque[p].ord = d[k].ord
NewerCounts(d, a) ==
  /\ a.prepended \in Nat /\ a.prepended <= d[1].ord
  /\ a.deque[1].ord = d[1].ord - a.prepended
LEMMA NewerPage ==
  ASSUME NEW T, NEW d, NEW rows, NEW limit, NEW a, NewerComes(T, d, rows, limit, a),
         NEW k, NEW p, NewerMeets(d, a, k, p)
  PROVE  NewerCounts(d, a)
<1>00. k \in 1..Len(d) /\ p \in 1..Len(a.deque) /\ a.deque[p].ord = d[k].ord
  BY DEF NewerMeets
<1> USE <1>00
<1>0. NewerGoesIn(T, rows, a)
  BY NewerAdmitted
<1> USE DEF NewerComes
<1>1. d \in Seq(Cells) /\ Len(d) \in Nat /\ Len(d) > 0 /\ rows \in Seq(Cells) /\ Len(rows) \in Nat /\ Len(rows) > 0
  BY NotEmpty DEF Slice
<1>2. d[1].ord \in Nat /\ rows[1].ord \in Nat /\ rows[Len(rows)].ord \in Nat /\ d[k].ord \in Nat
  BY <1>1, CellOf
<1>3. PICK n : n = Len(a.deque)
  OBVIOUS
<1>6. Slice(a.deque, T) /\ a.prepended = Least(Len(rows), n)
  BY <1>0, <1>3 DEF NewerGoesIn
<1>7. n \in Nat
  BY <1>3, <1>6, NotEmpty DEF Slice
<1>10. Len(a.deque) = n /\ a.deque[1].ord = rows[1].ord
  BY <1>0, <1>3 DEF NewerGoesIn
<1>11. rows[Len(rows)].ord = rows[1].ord + Len(rows) - 1
  BY <1>1 DEF Slice
<1>12. d[k].ord = d[1].ord + k - 1
  BY DEF Slice
<1>13. a.deque[p].ord = rows[1].ord + p - 1
  BY <1>6, <1>10 DEF Slice
<1>14. PICK x \in Nat : x = rows[1].ord
  BY <1>2
<1>15. PICK y \in Nat : y = d[1].ord
  BY <1>2
<1>16. y = x + Len(rows) /\ p >= Len(rows)
  <2>1. PICK z \in Nat : z = rows[Len(rows)].ord
    BY <1>2
  <2>2. z = x + Len(rows) - 1 /\ z = y - 1
    BY <1>11, <1>14, <1>15, <2>1
  <2>3. y + k - 1 = x + p - 1
    BY <1>12, <1>13, <1>14, <1>15
  <2> QED
    <3>1. PICK l \in Nat : l = Len(rows)
      BY <1>1
    <3>2. p \in Nat /\ k \in Nat /\ k >= 1 /\ z = x + l - 1
      BY <1>1, <1>7, <1>10, <2>2, <3>1
    <3> QED
      BY <2>2, <2>3, <3>1, <3>2
<1>17. a.prepended = Len(rows)
  <2>1. PICK l \in Nat : l = Len(rows)
    BY <1>1
  <2>2. p <= n /\ l <= p /\ p \in Nat
    <3>1. p \in 1..n
      BY <1>10, Zenon
    <3> QED
      BY <1>7, <1>16, <2>1, <3>1
  <2>3. a.prepended = Least(l, n)
    BY <1>6, <2>1
  <2>4. Least(l, n) = l
    BY <1>7, <2>2 DEF Least
  <2> QED
    BY <2>1, <2>3, <2>4
<1>18. PICK l \in Nat : l = Len(rows)
  BY <1>1
<1>19. a.prepended = l /\ y = x + l /\ a.deque[1].ord = x /\ d[1].ord = y
  BY <1>10, <1>14, <1>15, <1>16, <1>17, <1>18
<1>20. l <= y /\ x = y - l
  BY <1>19
<1> QED
  BY <1>18, <1>19, <1>20, Zenon DEF NewerCounts

\* A window that follows its deque keeps its focus.
MayFollow(T, d, w, shown, a, p) ==
  /\ T \in Int /\ Slice(d, T) /\ d # <<>> /\ WinTyped(w) /\ Lies(w, d) /\ Seen(w, shown)
  /\ Slice(a.deque, T) /\ p = PlaceOf(w.cache[w.active], Ords(a.deque)) /\ p # 0
  /\ a.deque[1].ord = Monus(w.start + a.evictedNewer, a.prepended)
Followed(w, shown, a, p, q) ==
  /\ WinTyped(q) /\ Lies(q, a.deque) /\ Seen(q, shown) /\ a.deque # <<>>
  /\ q.exhausted <=> ~HasOlder(a.deque)
  /\ q.cache[q.active] = w.cache[w.active] /\ q.visible = w.visible /\ q.active = p
LEMMA SyncIs ==
  ASSUME NEW T, NEW d, NEW w, NEW shown, NEW a, NEW p, MayFollow(T, d, w, shown, a, p),
         NEW q, q = SyncWindow(w, FALSE, a)
  PROVE  Followed(w, shown, a, p, q)
<1>0. /\ T \in Int /\ Slice(d, T) /\ d # <<>> /\ WinTyped(w) /\ Lies(w, d) /\ Seen(w, shown)
      /\ Slice(a.deque, T) /\ p = PlaceOf(w.cache[w.active], Ords(a.deque)) /\ p # 0
      /\ a.deque[1].ord = Monus(w.start + a.evictedNewer, a.prepended)
  BY DEF MayFollow
<1> USE <1>0
<1>1. /\ a.deque \in Seq(Cells) /\ w.active \in 1..Len(d) /\ w.cache[w.active] = w.start + w.active - 1
      /\ w.active \in Nat /\ w.active > 0 /\ w.start \in Nat /\ w.visited \in Nat
  <2>1. Len(d) \in Nat /\ \A i \in 1..Len(d) : w.cache[i] = w.start + i - 1
    BY CacheOf
  <2>2. a.deque \in Seq(Cells) /\ w.active \in 1..Len(d) /\ w.start \in Nat /\ w.visited \in Nat
    BY DEF Slice, Lies, WinTyped
  <2> QED
    BY <2>1, <2>2
<1>2. p \in 1..Len(a.deque) /\ a.deque[p].ord = w.cache[w.active]
  BY PlaceInSlice
<1>3. Len(a.deque) \in Nat /\ a.deque # <<>> /\ Len(a.deque) > 0
  BY <1>1, <1>2, NotEmpty
<1>4. PICK s : s = a.deque[1].ord
  OBVIOUS
<1>5. s \in Nat /\ s + p = w.start + w.active
  <2>1. s \in Nat
    BY <1>1, <1>3, <1>4, CellOf
  <2>2. a.deque[p].ord = s + p - 1
    BY <1>2, <1>4 DEF Slice
  <2> QED
    <3>1. PICK x \in Nat : x = w.start
      BY <1>1
    <3>2. PICK y \in Nat : y = w.active
      BY <1>1
    <3>3. s + p - 1 = x + y - 1 /\ p \in Nat
      BY <1>1, <1>2, <1>3, <2>2, <3>1, <3>2
    <3>4. s + p = x + y
      BY <2>1, <3>3
    <3> QED
      BY <2>1, <3>1, <3>2, <3>4
<1>6. PICK v : v = Most(w.visited, s + p)
  OBVIOUS
<1>7. v = w.visited
  BY <1>1, <1>5, <1>6 DEF Seen, Most
<1>8. PICK x \in BOOLEAN : x <=> ~HasOlder(a.deque)
  OBVIOUS
<1>9. x = ~HasOlder(a.deque)
  BY <1>8, EdgesOf, <1>1 DEF HasOlder
<1>10. PICK f : f = IF ~HasOlder(a.deque) /\ p = Len(a.deque) THEN "complete" ELSE w.phase
  OBVIOUS
<1>11. f \in Phases
  BY <1>10 DEF WinTyped, Phases
<1>12. w.active # 0
  BY <1>1
<1>13. q = [w EXCEPT !.cache = Ords(a.deque), !.active = p, !.start = s, !.rewind = w.rewind,
                     !.visited = v, !.exhausted = x, !.phase = f]
  BY <1>4, <1>6, <1>9, <1>10, <1>12 DEF SyncWindow
<1>14. Ords(a.deque) \in Seq(Nat)
  BY <1>1, OrdsOf
<1>15. /\ WinTyped(q) /\ q.cache = Ords(a.deque) /\ q.active = p /\ q.start = s /\ q.visited = w.visited
       /\ q.exhausted = x /\ q.visible = w.visible
  <2>1. p \in Nat
    BY <1>2, <1>3
  <2>2. /\ DOMAIN q = WinFields /\ q.cache = Ords(a.deque) /\ q.active = p /\ q.start = s /\ q.visited = v
        /\ q.exhausted = x /\ q.visible = w.visible /\ q.limit = w.limit /\ q.rewind = w.rewind /\ q.phase = f
    BY <1>13, WinNames DEF WinTyped
  <2> QED
    BY <1>5, <1>7, <1>11, <1>14, <2>1, <2>2 DEF WinTyped
<1>16. q.cache[q.active] = w.cache[w.active]
  BY <1>1, <1>2, <1>15, OrdsOf
<1>17. Lies(q, a.deque)
  BY <1>2, <1>3, <1>4, <1>15 DEF Lies
<1>18. Seen(q, shown)
  BY <1>5, <1>15 DEF Seen
<1> QED
  BY <1>3, <1>8, <1>15, <1>16, <1>17, <1>18 DEF Followed

\* The first page puts the focus where the window is full.
LEMMA SyncFirst ==
  ASSUME NEW T \in Int, NEW w, WinTyped(w), w.active = 0, w.visited = 0, NEW shown,
         NEW a, Slice(a.deque, T), a.deque # <<>> => a.deque[1].ord = 0,
         NEW q, q = SyncWindow(w, TRUE, a)
  PROVE  /\ WinTyped(q) /\ Lies(q, a.deque) /\ Seen(q, shown \cup Range(Visible(q)))
         /\ q.exhausted <=> ~HasOlder(a.deque)
<1>1. a.deque \in Seq(Cells) /\ Len(a.deque) \in Nat /\ w.visible \in Nat /\ w.visible > 0
  BY NotEmpty DEF Slice, WinTyped
<1>2. PICK p : p = Least(Len(a.deque), w.visible)
  OBVIOUS
<1>3. p \in Nat /\ p <= Len(a.deque) /\ p <= w.visible /\ (a.deque # <<>> => p \in 1..Len(a.deque))
      /\ (a.deque = <<>> => p = 0)
  <2>1. p \in Nat /\ p <= Len(a.deque) /\ p <= w.visible /\ (Len(a.deque) > 0 => p > 0)
    BY <1>1, <1>2 DEF Least
  <2> QED
    BY <1>1, <2>1, NotEmpty
<1>4. PICK v : v = Most(w.visited, 0 + p)
  OBVIOUS
<1>5. v = p
  BY <1>3, <1>4 DEF Most
<1>6. PICK x \in BOOLEAN : x <=> ~HasOlder(a.deque)
  OBVIOUS
<1>7. x = ~HasOlder(a.deque)
  BY <1>6, EdgesOf, <1>1 DEF HasOlder
<1>8. PICK f : f = IF ~HasOlder(a.deque) /\ p = Len(a.deque) THEN "complete" ELSE w.phase
  OBVIOUS
<1>9. f \in Phases
  BY <1>8 DEF WinTyped, Phases
<1>10. PICK r : r = Monus(p, 1)
  OBVIOUS
<1>11. r \in Nat
  BY <1>3, <1>10 DEF Monus
<1>12. q = [w EXCEPT !.cache = Ords(a.deque), !.active = p, !.start = 0, !.rewind = r,
                     !.visited = v, !.exhausted = x, !.phase = f]
  BY <1>2, <1>4, <1>7, <1>8, <1>10 DEF SyncWindow, StartActive
<1>13. Ords(a.deque) \in Seq(Nat)
  BY <1>1, OrdsOf
<1>14. /\ WinTyped(q) /\ q.cache = Ords(a.deque) /\ q.active = p /\ q.start = 0 /\ q.visited = p
       /\ q.exhausted = x /\ q.visible = w.visible
  <2>1. /\ DOMAIN q = WinFields /\ q.cache = Ords(a.deque) /\ q.active = p /\ q.start = 0 /\ q.visited = v
        /\ q.exhausted = x /\ q.visible = w.visible /\ q.limit = w.limit /\ q.rewind = r /\ q.phase = f
    BY <1>12, WinNames DEF WinTyped
  <2> QED
    BY <1>3, <1>5, <1>9, <1>11, <1>13, <2>1 DEF WinTyped
<1>15. Lies(q, a.deque)
  BY <1>3, <1>14 DEF Lies
<1>16. Seen(q, shown \cup Range(Visible(q)))
  <2>1. CASE a.deque = <<>>
    <3>1. q.visited = 0 /\ q.start = 0 /\ q.active = 0
      BY <1>3, <1>14, <2>1
    <3> QED
      <4>1. 0..(0 - 1) = {} /\ 0 >= 0 + 0
        OBVIOUS
      <4>2. q.visited - 1 = 0 - 1 /\ q.start + q.active = 0 + 0
        BY <3>1, Zenon
      <4> QED
        BY <3>1, <4>1, <4>2, Zenon DEF Seen
  <2>2. CASE a.deque # <<>>
    <3>1. q.visited = Most(0, q.start + q.active)
      <4>1. Most(0, 0 + p) = p
        BY <1>3 DEF Most
      <4> QED
        BY <1>14, <4>1
    <3>2. q.start + q.active <= 0 + q.visible /\ q.start <= 0
      <4>1. PICK y \in Nat : y = w.visible
        BY <1>1
      <4>2. 0 + p <= 0 + y
        BY <1>3, <4>1
      <4> QED
        <5>1. 0 <= 0
          OBVIOUS
        <5> QED
          BY <1>14, <4>1, <4>2, <5>1, Zenon
    <3>3. 0..(0 - 1) \subseteq shown
      OBVIOUS
    <3> QED
      BY <1>14, <1>15, <2>2, <3>1, <3>2, <3>3, SeenMore
  <2> QED
    BY <2>1, <2>2
<1> QED
  BY <1>6, <1>14, <1>15, <1>16

\* New limits keep the focus, when they leave room for the window and a page.
LEMMA ResizeIs ==
  ASSUME NEW T \in Int, NEW d, Slice(d, T), NEW active \in 1..Len(d), NEW visible \in Nat \ {0},
         NEW reserve \in Nat, NEW limit \in Nat, limit >= visible + reserve,
         NEW r, r = Resize(d, limit, active, visible, reserve)
  PROVE  /\ Slice(r.deque, T) /\ r.evictedNewer \in Nat /\ r.deque # <<>>
         /\ r.deque[1].ord = d[1].ord + r.evictedNewer
         /\ PlaceOf(d[active].ord, Ords(r.deque)) # 0
<1>1. d \in Seq(Cells) /\ Len(d) \in Nat /\ Len(d) > 0
  BY NotEmpty, LenProperties DEF Slice
<1>2. d[1].ord \in Nat /\ d[active].ord \in Nat
  BY <1>1, CellOf
<1>3. CASE Len(d) <= limit
  <2>1. r.deque = d /\ r.evictedNewer = 0
    BY <1>3 DEF Resize
  <2>2. PlaceOf(d[active].ord, Ords(d)) = active
    BY PlaceInSlice
  <2> QED
    BY <1>1, <1>2, <2>1, <2>2, NotEmpty
<1>4. CASE Len(d) > limit
  <2>1. PICK n : n = Monus(active - 1, visible - 1 + reserve)
    OBVIOUS
  <2>2. n \in Nat /\ n < active /\ active <= n + visible + reserve
    BY <1>1, <2>1 DEF Monus
  <2>3. PICK k : k = Least(Monus(Len(d), limit), n)
    OBVIOUS
  <2>4. k \in Nat /\ k + limit <= Len(d) /\ k < active /\ active <= k + limit
    BY <1>1, <1>4, <2>2, <2>3 DEF Least, Monus
  <2>5. r.deque = SubSeq(d, k + 1, k + limit) /\ r.evictedNewer = k
    <3>1. ~(Len(d) <= limit)
      BY <1>1, <1>4
    <3> QED
      BY <2>1, <2>3, <3>1, Zenon DEF Resize
  <2>6. limit > 0
    OBVIOUS
  <2>7. /\ Slice(r.deque, T) /\ Len(r.deque) = limit /\ \A i \in 1..limit : r.deque[i] = d[k + i]
        /\ r.deque # <<>> /\ r.deque[1].ord = d[1].ord + k
    <3>1. Cut(r.deque, d, k, limit)
      BY <2>4, <2>5 DEF Cut
    <3>2. CutFits(r.deque, d, k, limit, T)
      BY <3>1, SliceCut, Zenon
    <3> QED
      BY <2>6, <3>2 DEF CutFits
  <2>8. active - k \in 1..limit /\ k + (active - k) = active /\ k + 1 \in 1..Len(d) /\ 1 \in 1..limit
    BY <1>1, <2>4
  <2>9. r.deque[active - k] = d[active]
    BY <2>7, <2>8
  <2>10. PlaceOf(d[active].ord, Ords(r.deque)) = active - k
    BY <2>7, <2>8, <2>9, PlaceInSlice
  <2>11. active - k # 0
    BY <2>4
  <2> QED
    BY <2>4, <2>5, <2>7, <2>10, <2>11
<1> QED
  BY <1>1, <1>3, <1>4

LEMMA EmptyWindowIs ==
  ASSUME NEW visible \in Nat \ {0}, NEW limit \in Nat, NEW w, w = EmptyWindow(visible, limit)
  PROVE  /\ WinTyped(w) /\ w.cache = <<>> /\ w.active = 0 /\ w.visited = 0 /\ w.start = 0
         /\ ~w.exhausted /\ w.phase = "idle"
<1>1. PICK l : l = Most(visible, limit)
  OBVIOUS
<1>2. l \in Nat /\ l >= visible
  BY <1>1 DEF Most
<1>3. w = [cache |-> <<>>, active |-> 0, visited |-> 0, exhausted |-> FALSE, phase |-> "idle",
           visible |-> visible, limit |-> l, start |-> 0, rewind |-> 0]
  BY <1>1 DEF EmptyWindow
<1>4. DOMAIN w = WinFields
  BY <1>3 DEF WinFields
<1> QED
  BY <1>2, <1>3, <1>4 DEF WinTyped, Phases

LEMMA ReconfigureIs ==
  ASSUME NEW w, WinTyped(w), NEW visible \in Nat \ {0}, NEW limit \in Nat,
         NEW q, q = Reconfigure(w, visible, limit)
  PROVE  /\ WinTyped(q) /\ q.cache = w.cache /\ q.active = w.active /\ q.visited = w.visited
         /\ q.start = w.start /\ q.exhausted = w.exhausted
<1>1. PICK l : l = Most(visible, limit)
  OBVIOUS
<1>2. l \in Nat /\ l >= visible
  BY <1>1 DEF Most
<1>3. PICK f : f = IF w.exhausted THEN "complete" ELSE IF w.phase = "loading" THEN w.phase ELSE "idle"
  OBVIOUS
<1>4. f \in Phases
  BY <1>3 DEF WinTyped, Phases
<1>5. q = [w EXCEPT !.visible = visible, !.limit = l, !.phase = f]
  BY <1>1, <1>3 DEF Reconfigure
<1> QED
  BY <1>2, <1>4, <1>5, WinNames DEF WinTyped

(***************************************************************************)
(* The page the server sends.                                              *)
(***************************************************************************)
\* The rows from "from" on, not beyond "to" nor the timeline.
PageAsked(T, all, from, to, last, rows) ==
  /\ T \in Int /\ all \in Int /\ all >= T /\ from \in Nat /\ to \in Int /\ to <= all /\ last = Least(to, T)
  /\ rows = [i \in 1..Monus(last, from) |-> Bundle(from + i - 1, from + i > 1, from + i < last \/ to < all)]
PageSent(T, from, last, rows) ==
  /\ Slice(rows, T)
  /\ rows # <<>> <=> last > from
  /\ rows # <<>> => rows[1].ord = from /\ rows[Len(rows)].ord = last - 1
LEMMA PageIs ==
  ASSUME NEW T, NEW all, NEW from, NEW to, NEW last, NEW rows, PageAsked(T, all, from, to, last, rows)
  PROVE  PageSent(T, from, last, rows)
<1>0. /\ T \in Int /\ all \in Int /\ all >= T /\ from \in Nat /\ to \in Int /\ to <= all /\ last = Least(to, T)
      /\ rows = [i \in 1..Monus(last, from) |-> Bundle(from + i - 1, from + i > 1, from + i < last \/ to < all)]
  BY DEF PageAsked
<1> USE <1>0
<1>1. last \in Int /\ last <= T /\ last <= to
  BY DEF Least
<1>2. PICK n : n = Monus(last, from)
  OBVIOUS
<1>3. n \in Nat /\ (n > 0 <=> last > from) /\ (n > 0 => from + n = last)
  BY <1>1, <1>2 DEF Monus
<1>4. rows = [i \in 1..n |-> Bundle(from + i - 1, from + i > 1, from + i < last \/ to < all)]
  BY <1>2
<1>5. ASSUME NEW i \in 1..n
      PROVE  /\ rows[i] \in Cells /\ rows[i].ord = from + i - 1
             /\ rows[i].before <=> from + i > 1
             /\ rows[i].after <=> from + i < last \/ to < all
  <2>1. PICK x \in BOOLEAN : x <=> from + i > 1
    OBVIOUS
  <2>2. PICK y \in BOOLEAN : y <=> from + i < last \/ to < all
    OBVIOUS
  <2>3. PICK o \in Nat : o = from + i - 1
    BY <1>3
  <2>4. rows[i] = [ord |-> o, before |-> x, after |-> y]
    <3>1. rows[i] = Bundle(from + i - 1, from + i > 1, from + i < last \/ to < all)
      BY <1>4
    <3>2. (from + i > 1) = x /\ (from + i < last \/ to < all) = y
      BY <2>1, <2>2
    <3> QED
      BY <2>3, <3>1, <3>2, Zenon DEF Bundle
  <2> QED
    BY <2>1, <2>2, <2>3, <2>4 DEF Cells
<1>6. rows \in Seq(Cells) /\ Len(rows) = n
  <2>1. \A i \in 1..n : rows[i] \in Cells
    BY <1>5
  <2>2. rows = [i \in 1..n |-> rows[i]]
    BY <1>4
  <2>3. PICK f : f = rows
    OBVIOUS
  <2>4. f = [i \in 1..n |-> f[i]] /\ \A i \in 1..n : f[i] \in Cells
    BY <2>1, <2>2, <2>3
  <2>5. f \in Seq(Cells) /\ Len(f) = n
    BY <1>3, <2>4
  <2> QED
    BY <2>3, <2>5
<1>7. rows # <<>> <=> n > 0
  BY <1>6, NotEmpty, Zenon
<1>8. ASSUME NEW i \in 1..Len(rows)
      PROVE  /\ rows[i].ord = rows[1].ord + i - 1 /\ rows[i].ord < T
             /\ rows[i].before <=> rows[i].ord > 0
             /\ ~rows[i].after => rows[i].ord = T - 1
  <2>0. i \in 1..n
    BY <1>6
  <2>1. i \in 1..n /\ 1 \in 1..n /\ i \in Nat /\ from + n = last
    BY <1>3, <2>0
  <2>2. /\ rows[i].ord = from + i - 1 /\ rows[1].ord = from + 1 - 1
        /\ rows[i].before <=> from + i > 1
        /\ rows[i].after <=> from + i < last \/ to < all
    BY <1>5, <2>1
  <2>3. rows[i].ord = rows[1].ord + i - 1 /\ (rows[i].before <=> rows[i].ord > 0)
    BY <2>1, <2>2
  <2>4. from + i - 1 < T
    BY <1>1, <1>3, <2>1
  <2>5. from + i >= last /\ to >= all => from + i - 1 = T - 1
    BY <1>1, <1>3, <2>1 DEF Least
  <2>6. ~rows[i].after => from + i >= last /\ to >= all
    BY <1>1, <2>1, <2>2
  <2> QED
    BY <2>2, <2>3, <2>4, <2>5, <2>6
<1>9. ASSUME n > 0 PROVE rows[1].ord = from /\ rows[Len(rows)].ord = last - 1
  <2>1. 1 \in 1..n /\ n \in 1..n /\ from + n = last
    BY <1>3, <1>9
  <2>2. rows[1].ord = from + 1 - 1 /\ rows[n].ord = from + n - 1
    BY <1>5, <2>1
  <2> QED
    <3>1. from + 1 - 1 = from /\ from + n - 1 = last - 1
      BY <1>3, <2>1
    <3> QED
      BY <1>6, <2>2, <3>1, Zenon
<1> QED
  BY <1>2, <1>3, <1>6, <1>7, <1>8, <1>9 DEF Slice, PageSent

(***************************************************************************)
(* Sessions, and what a handler leaves as it is.                           *)
(***************************************************************************)
SameWin(w, q) ==
  /\ WinTyped(q) /\ Visible(q) = Visible(w)
  /\ q.cache = w.cache /\ q.active = w.active /\ q.visited = w.visited /\ q.exhausted = w.exhausted
  /\ q.visible = w.visible /\ q.limit = w.limit /\ q.start = w.start /\ q.rewind = w.rewind

\* A session in which no page came, and in which the focus did not move.
SameSes(s, t) ==
  /\ DOMAIN t = SesFields
  /\ t.open = s.open /\ t.loaded = s.loaded /\ t.deque = s.deque /\ t.snap = s.snap /\ t.page = s.page
  /\ t.prefer \in Dirs /\ t.loading \in BOOLEAN /\ t.paused \in BOOLEAN
  /\ SameWin(s.win, t.win)
  /\ s.shown \subseteq t.shown /\ t.shown \subseteq Nat

Mild(b, v, r) ==
  /\ Typed(b, r) /\ v.ses # NoSession /\ SameSes(v.ses, r.ses)
  /\ r.mode = v.mode /\ r.kept = v.kept /\ r.interactive = v.interactive /\ r.cfg = v.cfg /\ r.shown = v.shown
  /\ v.due \subseteq r.due /\ r.marker \in {"none", v.marker}

LEMMA OpenIs ==
  ASSUME NEW b, NEW s, SesSound(b, s)
  PROVE  s # NoSession /\ s.open = TRUE /\ SesTyped(s) /\ WinTyped(s.win)
<1>1. SesTyped(s) /\ WinTyped(s.win) /\ s.open = TRUE
  BY DEF SesSound, SesTyped
<1>2. NoSession.open = FALSE
  BY DEF NoSession
<1> QED
  BY <1>1, <1>2

LEMMA TotalIs ==
  ASSUME NEW b \in Scenarios, NEW n \in Nat
  PROVE  Total(b, n) \in Int
BY TimelineAssumption DEF Total, Monus

LEMMA SameWinIs ==
  ASSUME NEW w, WinTyped(w), NEW p \in Phases, NEW q, q = [w EXCEPT !.phase = p]
  PROVE  SameWin(w, q) /\ q.phase = p
BY PhaseOnly DEF SameWin

LEMMA SameWinRefl ==
  ASSUME NEW w, WinTyped(w)
  PROVE  SameWin(w, w)
BY DEF SameWin

LEMMA SettledWin ==
  ASSUME NEW w, WinTyped(w)
  PROVE  SameWin(w, Settle(w)) /\ Settle(w).phase \in {"idle", "complete"}
BY SettleIs DEF SameWin

LEMMA SameSesSound ==
  ASSUME NEW b \in Scenarios, NEW s, SesSound(b, s), NEW t, SameSes(s, t)
  PROVE  SesSound(b, t) /\ t # NoSession /\ s # NoSession
<1>1. SesTyped(s) /\ SameWin(s.win, t.win)
  BY DEF SesSound, SameSes
<1>2. SesTyped(t)
  BY <1>1 DEF SesTyped, SameSes, SameWin
<1>3. t.page \in {0} \cup PageSizes(b)
  BY DEF SesSound, SameSes
<1>4. CASE s.loaded
  <2>1. Filled(b, s)
    BY <1>4 DEF SesSound
  <2>2. Lies(t.win, t.deque)
    BY <1>1, <2>1 DEF Filled, Lies, SameSes, SameWin
  <2>3. Seen(t.win, t.shown)
    BY <1>1, <2>1 DEF Filled, Seen, SameSes, SameWin
  <2>4. Filled(b, t)
    BY <1>1, <2>1, <2>2, <2>3 DEF Filled, SameSes, SameWin
  <2>5. t.loaded
    BY <1>4 DEF SameSes
  <2> QED
    BY <1>1, <1>2, <1>3, <2>4, <2>5 DEF SesSound, NoSession, SesTyped
<1>5. CASE ~s.loaded
  <2>1. Blank(s)
    BY <1>5 DEF SesSound
  <2>2. Blank(t)
    BY <1>1, <2>1 DEF Blank, SameSes, SameWin
  <2>3. ~t.loaded
    BY <1>5 DEF SameSes
  <2> QED
    BY <1>1, <1>2, <1>3, <2>2, <2>3 DEF SesSound, NoSession, SesTyped
<1> QED
  BY <1>4, <1>5

LEMMA SameAsked ==
  ASSUME NEW b, NEW s, NEW t, SameSes(s, t), NEW q, Asked(b, s, q)
  PROVE  Asked(b, t, q)
BY DEF Asked, SameSes

\* The focus, the runway and the edges are those of the session.
LEMMA SameFocus ==
  ASSUME NEW v, NEW r, SameSes(v.ses, r.ses)
  PROVE  /\ Focus(r) = Focus(v)
         /\ \A dir : EdgeOpen(r, dir) = EdgeOpen(v, dir) /\ Runway(r.ses.win, dir) = Runway(v.ses.win, dir)
<1>1. /\ r.ses.open = v.ses.open /\ r.ses.deque = v.ses.deque /\ r.ses.win.cache = v.ses.win.cache
      /\ r.ses.win.active = v.ses.win.active /\ r.ses.win.start = v.ses.win.start
      /\ r.ses.win.rewind = v.ses.win.rewind
  BY DEF SameSes, SameWin
<1>2. RewindFloor(r.ses.win) = RewindFloor(v.ses.win)
  BY <1>1 DEF RewindFloor
<1> QED
  BY <1>1, <1>2 DEF Focus, EdgeOpen, Runway

\* The parts of the invariant that a mild handler keeps.
LEMMA MildSound ==
  ASSUME NEW b \in Scenarios, NEW v, Typed(b, v), SesSound(b, v.ses), KeptSound(b, v.kept), NEW r, Mild(b, v, r),
         r.req # NoRequest => Asked(b, v.ses, r.req), r.ses.loading <=> r.req # NoRequest
  PROVE  Sound(b, r)
<1>1. SesSound(b, r.ses) /\ r.ses # NoSession
  BY SameSesSound DEF Mild
<1>2. r.req # NoRequest => Asked(b, r.ses, r.req)
  BY SameAsked DEF Mild
<1> QED
  BY <1>1, <1>2 DEF Sound, Mild

LEMMA MildTurn ==
  ASSUME NEW b \in Scenarios, NEW v, NEW r, Mild(b, v, r), TurnSound(v), r.turn # NoTurn => v.turn # NoTurn,
         r.turn # NoTurn => /\ DOMAIN r.turn = TurnFields /\ r.turn.dir = v.turn.dir
                            /\ r.turn.stride = v.turn.stride /\ r.turn.tries \in Nat /\ r.turn.live \in BOOLEAN
  PROVE  TurnSound(r) /\ (Short(v) => Short(r))
<1>1. SameSes(v.ses, r.ses) /\ SameWin(v.ses.win, r.ses.win) /\ r.shown = v.shown /\ r.marker \in {"none", v.marker}
  BY DEF Mild, SameSes
<1>2. ASSUME r.turn # NoTurn
      PROVE  TurnSound(r)
  <2>1. /\ v.turn.dir \in Dirs /\ v.turn.stride \in Nat \ {0}
        /\ v.ses # NoSession /\ v.ses.loaded /\ v.ses.deque # <<>> /\ v.turn.stride <= v.ses.win.visible
        /\ v.marker = "none" /\ v.shown.bundles # <<>>
        /\ v.shown.bundles[Len(v.shown.bundles)] = v.ses.win.cache[v.ses.win.active]
    BY <1>2 DEF TurnSound
  <2>2. r.ses # NoSession
    BY <1>1, <2>1 DEF SameSes, NoSession, SesFields
  <2>3. r.ses.loaded /\ r.ses.deque = v.ses.deque /\ r.ses.win.visible = v.ses.win.visible
        /\ r.ses.win.cache = v.ses.win.cache /\ r.ses.win.active = v.ses.win.active
    BY <1>1, <2>1 DEF SameSes, SameWin
  <2> QED
    BY <1>1, <1>2, <2>1, <2>2, <2>3 DEF TurnSound
<1>3. ASSUME Short(v) PROVE Short(r)
  BY <1>1, <1>3, SameFocus DEF Short
<1> QED
  BY <1>2, <1>3 DEF TurnSound

(***************************************************************************)
(* The handlers.                                                           *)
(***************************************************************************)
LEMMA FieldNames ==
  /\ \A f \in {"mode", "ses", "kept", "req", "turn", "timer", "marker", "reload", "reloads", "locked",
               "interactive", "playing", "order", "cfg", "due", "scene", "nav", "restoring", "shown", "cuts"} :
        f \in Fields
  /\ \A f \in {"open", "loaded", "deque", "snap", "page", "prefer", "loading", "paused", "win", "shown"} :
        f \in SesFields
BY DEF Fields, SesFields

LEMMA VisibleNat ==
  ASSUME NEW b \in Scenarios, NEW s, SesSound(b, s), NEW w, SameWin(s.win, w)
  PROVE  Range(Visible(w)) \subseteq Nat
<1>1. CASE s.win.active = 0
  <2>1. Visible(w) = <<>>
    BY <1>1 DEF Visible, SameWin
  <2> QED
    BY <2>1 DEF Range
<1>2. CASE s.win.active # 0
  <2>1. s.loaded /\ Filled(b, s)
    BY <1>2 DEF SesSound, Blank
  <2>2. Slice(s.deque, Total(b, s.snap)) /\ Lies(s.win, s.deque) /\ s.deque # <<>>
    BY <1>2, <2>1 DEF Filled, Lies
  <2>3. Lies(w, s.deque) /\ WinTyped(w)
    BY <2>2 DEF Lies, SameWin
  <2>4. Total(b, s.snap) \in Int
    BY TotalIs DEF SesSound, SesTyped
  <2> QED
    BY <2>2, <2>3, <2>4, VisibleOf
<1> QED
  BY <1>1, <1>2

\* A window with the same focus is committed.
LEMMA CommitMild ==
  ASSUME NEW b \in Scenarios, NEW v, Typed(b, v), SesSound(b, v.ses), NEW w, SameWin(v.ses.win, w),
         NEW r, r = Commit(v, w)
  PROVE  /\ Mild(b, v, r) /\ r.req = v.req /\ r.turn = v.turn /\ r.marker = "none" /\ "window" \in r.due
         /\ r.ses.loading = v.ses.loading /\ r.ses.win = w
<1>1. Range(Visible(w)) \subseteq Nat
  BY VisibleNat
<1>2. PICK m : m = Range(Visible(w))
  OBVIOUS
<1>3. PICK t : t = [v.ses EXCEPT !.win = w, !.shown = @ \cup m]
  OBVIOUS
<1>4. SesTyped(v.ses)
  BY DEF SesSound
<1>5. SameSes(v.ses, t) /\ t.win = w /\ t.loading = v.ses.loading
  BY <1>1, <1>2, <1>3, <1>4 DEF SesTyped, SameSes, SesFields
<1>6. r = [v EXCEPT !.ses = t, !.due = @ \cup {"window"},
                    !.timer = IF @ = "live" THEN "stale" ELSE @, !.marker = "none"]
  BY <1>2, <1>3 DEF Commit
<1>7. v.ses # NoSession
  BY OpenIs
<1>8. /\ r.ses = t /\ r.req = v.req /\ r.turn = v.turn /\ r.marker = "none" /\ r.due = v.due \cup {"window"}
      /\ r.mode = v.mode /\ r.kept = v.kept /\ r.interactive = v.interactive /\ r.cfg = v.cfg /\ r.shown = v.shown
      /\ Typed(b, r)
  BY <1>6 DEF Typed, Fields
<1> QED
  BY <1>5, <1>7, <1>8 DEF Mild

LEMMA MildRefl ==
  ASSUME NEW b \in Scenarios, NEW v, Typed(b, v), SesSound(b, v.ses)
  PROVE  Mild(b, v, v)
<1>1. SesTyped(v.ses) /\ WinTyped(v.ses.win) /\ v.ses # NoSession
  BY OpenIs
<1>2. SameSes(v.ses, v.ses)
  BY <1>1, SameWinRefl DEF SesTyped, SameSes
<1> QED
  BY <1>1, <1>2 DEF Mild

LEMMA MildTrans ==
  ASSUME NEW b \in Scenarios, NEW v, NEW r, NEW q, Mild(b, v, r), Mild(b, r, q)
  PROVE  Mild(b, v, q)
<1>1. SameSes(v.ses, r.ses) /\ SameSes(r.ses, q.ses)
  BY DEF Mild
<1>2. SameWin(v.ses.win, r.ses.win) /\ SameWin(r.ses.win, q.ses.win)
  BY <1>1 DEF SameSes
<1>3. SameWin(v.ses.win, q.ses.win)
  BY <1>2 DEF SameWin
<1>4. SameSes(v.ses, q.ses)
  BY <1>1, <1>3 DEF SameSes
<1> QED
  BY <1>4 DEF Mild

\* The window is settled, when it was not.
LEMMA SettledMild ==
  ASSUME NEW b \in Scenarios, NEW v, Typed(b, v), SesSound(b, v.ses), NEW r, r = CommitSettled(v)
  PROVE  /\ Mild(b, v, r) /\ r.req = v.req /\ r.turn = v.turn /\ r.ses.loading = v.ses.loading
         /\ r = v \/ (r.marker = "none" /\ "window" \in r.due)
         /\ r.ses.win.phase \in {"idle", "complete"}
<1>1. PICK w : w = Settle(v.ses.win)
  OBVIOUS
<1>2. SameWin(v.ses.win, w) /\ w.phase \in {"idle", "complete"}
  BY <1>1, OpenIs, SettledWin
<1>3. CASE w = v.ses.win
  <2>1. r = v
    BY <1>1, <1>3 DEF CommitSettled
  <2> QED
    BY <1>2, <1>3, <2>1, MildRefl
<1>4. CASE w # v.ses.win
  <2>1. r = Commit(v, w)
    BY <1>1, <1>4 DEF CommitSettled
  <2> QED
    BY <1>2, <2>1, CommitMild
<1> QED
  BY <1>3, <1>4

\* A request that has ended.
LEMMA EndRequestMild ==
  ASSUME NEW b \in Scenarios, NEW v, Typed(b, v), SesSound(b, v.ses), NEW r, r = EndRequest(v)
  PROVE  /\ Mild(b, v, r) /\ r.req = NoRequest /\ r.turn = v.turn /\ ~r.ses.loading
         /\ r.marker = v.marker \/ r.marker = "none"
<1>1. PICK e : e = [v EXCEPT !.req = NoRequest, !.ses.loading = FALSE]
  OBVIOUS
<1>2. SesTyped(v.ses) /\ WinTyped(v.ses.win) /\ v.ses # NoSession
  BY OpenIs
<1>3. PICK t : t = [v.ses EXCEPT !.loading = FALSE]
  OBVIOUS
<1>4. SameSes(v.ses, t) /\ t.loading = FALSE
  BY <1>2, <1>3, SameWinRefl DEF SesTyped, SameSes, SesFields
<1>5. e = [v EXCEPT !.req = NoRequest, !.ses = t]
  BY <1>1, <1>3
<1>6. /\ e.ses = t /\ e.req = NoRequest /\ e.turn = v.turn /\ e.marker = v.marker /\ e.due = v.due
      /\ e.mode = v.mode /\ e.kept = v.kept /\ e.interactive = v.interactive /\ e.cfg = v.cfg /\ e.shown = v.shown
      /\ Typed(b, e)
  BY <1>5 DEF Typed, Fields
<1>7. Mild(b, v, e)
  BY <1>2, <1>4, <1>6 DEF Mild
<1>8. SesSound(b, e.ses)
  BY <1>7, SameSesSound DEF Mild
<1>9. r = CommitSettled(e)
  BY <1>1 DEF EndRequest
<1>10. Mild(b, e, r) /\ r.req = e.req /\ r.turn = e.turn /\ r.ses.loading = e.ses.loading
       /\ r.marker \in {"none", e.marker}
  <2>1. Mild(b, e, r) /\ r.req = e.req /\ r.turn = e.turn /\ r.ses.loading = e.ses.loading
    BY <1>6, <1>8, <1>9, SettledMild
  <2> QED
    BY <2>1 DEF Mild
<1> QED
  BY <1>4, <1>6, <1>7, <1>10, MildTrans

LEMMA ConfigIs ==
  ASSUME NEW b \in Scenarios, b = world.bound, NEW v, Typed(b, v)
  PROVE  /\ Config(v) \in Preferences /\ Config(v).page \in PageSizes(b)
         /\ Config(v).visible \in Nat \ {0} /\ Config(v).page \in Nat \ {0} /\ Config(v).capacity \in Nat
         /\ Config(v).capacity >= Config(v).visible
         /\ \A n \in PageSizes(b) : n \in Nat \ {0} /\ Config(v).capacity >= Config(v).visible + n
<1>1. b.settings \in Seq(Preferences) /\ v.cfg \in DOMAIN b.settings
  BY TimelineAssumption DEF Typed
<1>2. Config(v) = b.settings[v.cfg]
  BY DEF Config
<1>3. \A i \in DOMAIN b.settings : b.settings[i] \in Preferences
  BY <1>1, ElementOfSeq, LenProperties
<1>4. \A i \in DOMAIN b.settings : /\ b.settings[i].visible \in Nat \ {0} /\ b.settings[i].page \in Nat \ {0}
                                   /\ b.settings[i].capacity \in Nat
  BY <1>3 DEF Preferences
<1>5. \A j \in DOMAIN b.settings : b.settings[v.cfg].capacity >= b.settings[v.cfg].visible + b.settings[j].page
  BY <1>1, TimelineAssumption
<1>6. ASSUME NEW n \in PageSizes(b) PROVE n \in Nat \ {0} /\ Config(v).capacity >= Config(v).visible + n
  <2>1. PICK j \in DOMAIN b.settings : n = b.settings[j].page
    BY DEF PageSizes
  <2> QED
    BY <1>2, <1>4, <1>5, <2>1
<1>7. Config(v).page \in PageSizes(b)
  BY <1>1, <1>2 DEF PageSizes
<1>8. /\ Config(v).visible \in Nat \ {0} /\ Config(v).page \in Nat \ {0} /\ Config(v).capacity \in Nat
  BY <1>1, <1>2, <1>4
<1>9. Config(v).capacity >= Config(v).visible
  <2>1. PICK x \in Nat : x = Config(v).visible
    BY <1>8
  <2>2. PICK y \in Nat : y = Config(v).capacity
    BY <1>8
  <2>3. PICK z \in Nat : z = Config(v).page
    BY <1>8
  <2>4. y >= x + z
    BY <1>6, <1>7, <2>1, <2>2, <2>3
  <2>5. y >= x
    BY <2>4
  <2> QED
    BY <2>1, <2>2, <2>5, Zenon
<1> QED
  BY <1>1, <1>2, <1>3, <1>6, <1>7, <1>8, <1>9

LEMMA QueryPageIs ==
  ASSUME NEW b \in Scenarios, b = world.bound, NEW v, Typed(b, v), v.ses.page \in {0} \cup PageSizes(b)
  PROVE  QueryPage(v) \in PageSizes(b) /\ QueryPage(v) \in Nat \ {0}
BY ConfigIs DEF QueryPage

\* A request begins, at an edge of the deque that is open.
LEMMA BeginLoadMild ==
  ASSUME NEW b \in Scenarios, b = world.bound, NEW v, Typed(b, v), SesSound(b, v.ses),
         NEW cause, NEW dir \in Dirs, IF v.ses.loaded THEN EdgeOpen(v, dir) ELSE dir = "older",
         NEW r, r = BeginLoad(v, cause, dir)
  PROVE  /\ Mild(b, v, r) /\ r.req # NoRequest /\ Asked(b, v.ses, r.req) /\ r.ses.loading
         /\ r.turn = v.turn /\ r.marker = v.marker
         /\ cause = "prefetch" => r.ses.win = v.ses.win /\ r.due = v.due
<1>1. SesTyped(v.ses) /\ WinTyped(v.ses.win) /\ v.ses # NoSession /\ v.ses.page \in {0} \cup PageSizes(b)
  BY OpenIs DEF SesSound
<1>2. PICK q : q = [cause  |-> cause, dir |-> dir, snap |-> v.ses.snap, limit |-> QueryPage(v),
                    root   |-> ~v.ses.loaded,
                    cursor |-> CASE ~v.ses.loaded -> 0
                                 [] v.ses.loaded /\ dir = "older" -> v.ses.deque[Len(v.ses.deque)].ord
                                 [] v.ses.loaded /\ dir = "newer" -> v.ses.deque[1].ord,
                    reply  |-> NoReply]
  OBVIOUS
<1>3. DOMAIN q = ReqFields /\ q.dir = dir /\ q.limit = QueryPage(v) /\ q.snap = v.ses.snap
      /\ q.root = ~v.ses.loaded /\ q.reply = NoReply
  BY <1>2 DEF ReqFields
<1>4. /\ ~v.ses.loaded => q.cursor = 0
      /\ v.ses.loaded /\ dir = "older" => q.cursor = v.ses.deque[Len(v.ses.deque)].ord
      /\ v.ses.loaded /\ dir = "newer" => q.cursor = v.ses.deque[1].ord
  <2>1. q.cursor = CASE ~v.ses.loaded -> 0
                     [] v.ses.loaded /\ dir = "older" -> v.ses.deque[Len(v.ses.deque)].ord
                     [] v.ses.loaded /\ dir = "newer" -> v.ses.deque[1].ord
    BY <1>2
  <2>2. dir = "older" => ~(dir = "newer")
    OBVIOUS
  <2> QED
    BY <2>1, <2>2
<1>5. Asked(b, v.ses, q)
  <2>1. q.limit \in Nat \ {0}
    BY <1>1, <1>3, QueryPageIs
  <2>2. ReplyFits(b, q)
    BY <1>3 DEF ReplyFits
  <2>3. q.root => q.dir = "older" /\ q.cursor = 0
    BY <1>3, <1>4
  <2>4. ~q.root /\ q.dir = "older" => HasOlder(v.ses.deque) /\ q.cursor = v.ses.deque[Len(v.ses.deque)].ord
    BY <1>3, <1>4 DEF EdgeOpen
  <2>5. ~q.root /\ q.dir = "newer" => HasNewer(v.ses.deque) /\ q.cursor = v.ses.deque[1].ord
    BY <1>3, <1>4 DEF EdgeOpen
  <2> QED
    BY <1>3, <2>1, <2>2, <2>3, <2>4, <2>5 DEF Asked
<1>6. q # NoRequest
  <2>1. DOMAIN NoRequest = {"cause"}
    BY DEF NoRequest
  <2> QED
    BY <1>3, <2>1 DEF ReqFields
<1>7. PICK e : e = [v EXCEPT !.ses.loading = TRUE, !.req = q]
  OBVIOUS
<1>8. r = IF cause = "prefetch" THEN e ELSE CommitLoading(e)
  BY <1>2, <1>7 DEF BeginLoad
<1>9. PICK t : t = [v.ses EXCEPT !.loading = TRUE]
  OBVIOUS
<1>10. /\ DOMAIN t = SesFields /\ t.loading = TRUE /\ t.win = v.ses.win /\ t.shown = v.ses.shown
       /\ SameSes(v.ses, t)
  BY <1>1, <1>9, SameWinRefl DEF SesTyped, SameSes, SesFields
<1>11. e = [v EXCEPT !.ses = t, !.req = q]
  BY <1>7, <1>9
<1>12. /\ e.ses = t /\ e.req = q /\ e.turn = v.turn /\ e.marker = v.marker /\ e.due = v.due
       /\ e.mode = v.mode /\ e.kept = v.kept /\ e.interactive = v.interactive /\ e.cfg = v.cfg /\ e.shown = v.shown
       /\ Typed(b, e)
  BY <1>11 DEF Typed, Fields
<1>13. CASE cause = "prefetch"
  <2>1. r = e
    BY <1>8, <1>13
  <2>2. Mild(b, v, e)
    BY <1>1, <1>10, <1>12 DEF Mild
  <2> QED
    BY <1>5, <1>6, <1>10, <1>12, <2>1, <2>2
<1>14. CASE cause # "prefetch"
  <2>1. PICK w : w = [v.ses.win EXCEPT !.phase = "loading"]
    OBVIOUS
  <2>2. SameWin(v.ses.win, w)
    BY <1>1, <2>1, SameWinIs DEF Phases
  <2>3. PICK z : z = [t EXCEPT !.win = w]
    OBVIOUS
  <2>4. SameSes(v.ses, z) /\ z.loading = TRUE
    BY <1>10, <2>2, <2>3 DEF SameSes, SesFields
  <2>5. r = [e EXCEPT !.ses = z, !.due = @ \cup {"window"}]
    <3>1. r = CommitLoading(e)
      BY <1>8, <1>14
    <3>2. CommitLoading(e) = [e EXCEPT !.ses.win.phase = "loading", !.due = @ \cup {"window"}]
      BY DEF CommitLoading
    <3> QED
      BY <1>10, <1>12, <2>1, <2>3, <3>1, <3>2
  <2>6. /\ r.ses = z /\ r.req = q /\ r.turn = v.turn /\ r.marker = v.marker /\ r.due = v.due \cup {"window"}
        /\ r.mode = v.mode /\ r.kept = v.kept /\ r.interactive = v.interactive /\ r.cfg = v.cfg /\ r.shown = v.shown
        /\ Typed(b, r)
    BY <1>12, <2>5 DEF Typed, Fields
  <2>7. Mild(b, v, r)
    BY <1>1, <2>4, <2>6 DEF Mild
  <2> QED
    BY <1>5, <1>6, <1>14, <2>4, <2>6, <2>7
<1> QED
  BY <1>13, <1>14

\* A page turn is over, without a move.
LEMMA EndTurnIs ==
  ASSUME NEW b, NEW v, Typed(b, v), NEW result, v.turn.live \in BOOLEAN, NEW r, r = EndTurn(v, result)
  PROVE  /\ Typed(b, r) /\ r.ses = v.ses /\ r.turn = NoTurn /\ r.req = v.req /\ r.marker = v.marker
         /\ r.due = v.due /\ r.mode = v.mode /\ r.kept = v.kept /\ r.interactive = v.interactive
         /\ r.cfg = v.cfg /\ r.shown = v.shown
<1>1. PICK p \in BOOLEAN : p <=> v.playing /\ ~(v.turn.by = "playback" /\ ~(v.turn.live /\ result = "advanced"))
  OBVIOUS
<1>2. p = (v.playing /\ ~(v.turn.by = "playback" /\ ~(v.turn.live /\ result = "advanced")))
  BY <1>1 DEF Typed
<1>3. PICK o : o = [v EXCEPT !.turn = NoTurn, !.playing = p]
  OBVIOUS
<1>4. PICK s : s = IF result = "advanced" THEN "awaiting-data" ELSE "idle"
  OBVIOUS
<1>5. r = IF ~v.turn.live THEN o ELSE [o EXCEPT !.scene = s]
  BY <1>2, <1>3, <1>4 DEF EndTurn
<1>6. /\ o.ses = v.ses /\ o.turn = NoTurn /\ o.req = v.req /\ o.marker = v.marker /\ o.due = v.due
      /\ o.mode = v.mode /\ o.kept = v.kept /\ o.interactive = v.interactive /\ o.cfg = v.cfg /\ o.shown = v.shown
      /\ Typed(b, o)
  BY <1>3 DEF Typed, Fields
<1> QED
  BY <1>4, <1>5, <1>6 DEF Typed, Fields

LEMMA EndTurnMild ==
  ASSUME NEW b \in Scenarios, NEW v, Typed(b, v), SesSound(b, v.ses), NEW result,
         v.turn.live \in BOOLEAN, NEW r, r = EndTurn(v, result)
  PROVE  /\ Mild(b, v, r) /\ r.ses = v.ses /\ r.turn = NoTurn /\ r.req = v.req /\ r.marker = v.marker
         /\ r.due = v.due
<1>1. v.ses # NoSession /\ SameSes(v.ses, v.ses)
  BY MildRefl DEF Mild
<1> QED
  BY <1>1, EndTurnIs DEF Mild

\* What a handler leaves when the page turn it served is over or still waits.
Ready(b, v, r) ==
  /\ Sound(b, r) /\ TurnSound(r) /\ Short(r) /\ Waiting(r) /\ MarkSound(r)
  /\ r.ses # NoSession /\ r.mode = v.mode /\ r.kept = v.kept /\ r.interactive = v.interactive
  /\ r.cfg = v.cfg /\ r.shown = v.shown /\ v.due \subseteq r.due
  /\ r.due = {} => Visible(r.ses.win) = Visible(v.ses.win)
  /\ Focus(r) = Focus(v) \/ (v.turn # NoTurn /\ r.marker = "live")

\* A mild result without a turn, or with one that waits.
LEMMA MildReady ==
  ASSUME NEW b \in Scenarios, NEW v, Typed(b, v), SesSound(b, v.ses), KeptSound(b, v.kept), NEW r, Mild(b, v, r),
         r.req # NoRequest => Asked(b, v.ses, r.req), r.ses.loading <=> r.req # NoRequest,
         TurnSound(r), Short(r), Waiting(r), MarkSound(r)
  PROVE  Ready(b, v, r)
<1>1. Sound(b, r)
  BY MildSound
<1>2. r.ses # NoSession
  BY SameSesSound DEF Mild
<1>3. Visible(r.ses.win) = Visible(v.ses.win) /\ Focus(r) = Focus(v)
  BY SameFocus DEF Mild, SameSes, SameWin
<1> QED
  BY <1>1, <1>2, <1>3 DEF Ready, Mild

LEMMA SoundParts ==
  ASSUME NEW b, NEW v, Sound(b, v), v.ses # NoSession
  PROVE  /\ Typed(b, v) /\ SesSound(b, v.ses) /\ KeptSound(b, v.kept)
         /\ v.req # NoRequest => Asked(b, v.ses, v.req)
         /\ v.ses.loading <=> v.req # NoRequest
BY DEF Sound

\* The end of a turn that did not move.
LEMMA EndTurnReady ==
  ASSUME NEW b \in Scenarios, NEW v, Sound(b, v), TurnSound(v), v.turn # NoTurn, NEW result,
         NEW r, r = EndTurn(v, result)
  PROVE  Ready(b, v, r)
<1>1. v.ses # NoSession /\ v.turn.live \in BOOLEAN /\ v.marker = "none"
  BY DEF TurnSound
<1>2. /\ Mild(b, v, r) /\ r.ses = v.ses /\ r.turn = NoTurn /\ r.req = v.req /\ r.marker = v.marker
  BY <1>1, EndTurnMild, SoundParts
<1>3. TurnSound(r) /\ Short(r) /\ Waiting(r)
  BY <1>2 DEF TurnSound, Short, Waiting
<1>4. MarkSound(r)
  BY <1>1, <1>2 DEF MarkSound
<1> QED
  BY <1>1, <1>2, <1>3, <1>4, MildReady, SoundParts

\* What a turn over a sound session makes of it.
SesMoves(b, s, dir, stride, w, t) ==
  /\ SesSound(b, s) /\ s.loaded /\ s.deque # <<>>
  /\ dir \in Dirs /\ stride \in Nat \ {0} /\ stride <= s.win.visible
  /\ w = Advance(s.win, dir, stride)
  /\ t = [s EXCEPT !.win = w, !.shown = @ \cup Range(Visible(w))]
SesMoved(b, s, w, t) ==
  /\ SesSound(b, t) /\ t.open = s.open /\ t.loaded = s.loaded /\ t.deque = s.deque /\ t.snap = s.snap
  /\ t.loading = s.loading /\ t.win = w
  /\ Visible(w) # <<>> /\ Visible(w)[Len(Visible(w))] = w.cache[w.active]
  /\ w # s.win => w.cache[w.active] # s.win.cache[s.win.active]

LEMMA AdvanceSound ==
  ASSUME NEW b \in Scenarios, NEW s, NEW dir, NEW stride, NEW w, NEW t, SesMoves(b, s, dir, stride, w, t)
  PROVE  SesMoved(b, s, w, t)
<1> USE DEF SesMoves
<1>1. SesTyped(s) /\ WinTyped(s.win) /\ s.page \in {0} \cup PageSizes(b) /\ Filled(b, s)
  BY OpenIs DEF SesSound
<1>2. PICK T \in Int : T = Total(b, s.snap)
  BY <1>1, TotalIs DEF SesTyped
<1>3. Slice(s.deque, T) /\ Lies(s.win, s.deque) /\ Seen(s.win, s.shown)
  BY <1>1, <1>2 DEF Filled
<1>4. /\ WinTyped(w) /\ Lies(w, s.deque) /\ Seen(w, s.shown \cup Range(Visible(w)))
      /\ w.cache = s.win.cache /\ w.exhausted = s.win.exhausted /\ w.visible = s.win.visible
      /\ w # s.win => w.cache[w.active] # s.win.cache[s.win.active]
  <2>1. MayAdvance(T, s.deque, s.win, s.shown, dir, stride)
    BY <1>1, <1>3 DEF MayAdvance
  <2>2. Advanced(s.deque, s.win, s.shown, w)
    BY <2>1, AdvanceIs
  <2> QED
    BY <2>2 DEF Advanced
<1>5. /\ Visible(w) \in Seq(Nat) /\ Visible(w) # <<>> /\ Visible(w)[Len(Visible(w))] = w.cache[w.active]
      /\ Range(Visible(w)) \subseteq Nat
  BY <1>3, <1>4, VisibleOf
<1>6. PICK m : m = s.shown \cup Range(Visible(w))
  OBVIOUS
<1>7. m \subseteq Nat /\ Seen(w, m)
  BY <1>1, <1>4, <1>5, <1>6 DEF SesTyped
<1>8. t = [s EXCEPT !.win = w, !.shown = m]
  BY <1>6
<1>9. /\ DOMAIN t = SesFields /\ t.open = s.open /\ t.loaded = s.loaded /\ t.deque = s.deque /\ t.snap = s.snap
      /\ t.page = s.page /\ t.prefer = s.prefer /\ t.loading = s.loading /\ t.paused = s.paused
      /\ t.win = w /\ t.shown = m
  BY <1>1, <1>8 DEF SesTyped, SesFields
<1>10. SesTyped(t)
  BY <1>1, <1>4, <1>7, <1>9 DEF SesTyped
<1>11. Filled(b, t)
  BY <1>1, <1>4, <1>7, <1>9 DEF Filled
<1>12. SesSound(b, t)
  BY <1>1, <1>9, <1>10, <1>11 DEF SesSound
<1> QED
  BY <1>4, <1>5, <1>9, <1>12 DEF SesMoved

\* A turn that moves.
LEMMA MoveReady ==
  ASSUME NEW b \in Scenarios, NEW v, Sound(b, v), TurnSound(v), v.turn # NoTurn, v.interactive,
         NEW w, w = Advance(v.ses.win, v.turn.dir, v.turn.stride), w # v.ses.win,
         NEW timer \in {"off", "live"},
         NEW r, r = EndTurn([Commit(v, w) EXCEPT !.marker = "live", !.timer = timer], "advanced")
  PROVE  Ready(b, v, r)
<1>1. /\ v.ses # NoSession /\ v.turn.live \in BOOLEAN /\ v.marker = "none" /\ v.turn.dir \in Dirs
      /\ v.turn.stride \in Nat \ {0} /\ v.ses.loaded /\ v.ses.deque # <<>> /\ v.turn.stride <= v.ses.win.visible
      /\ v.shown.bundles # <<>>
      /\ v.shown.bundles[Len(v.shown.bundles)] = v.ses.win.cache[v.ses.win.active]
  BY DEF TurnSound
<1>2. Typed(b, v) /\ SesSound(b, v.ses) /\ KeptSound(b, v.kept)
      /\ (v.req # NoRequest => Asked(b, v.ses, v.req)) /\ (v.ses.loading <=> v.req # NoRequest)
  BY <1>1, SoundParts
<1>3. PICK t : t = [v.ses EXCEPT !.win = w, !.shown = @ \cup Range(Visible(w))]
  OBVIOUS
<1>4. /\ SesSound(b, t) /\ t.open = v.ses.open /\ t.loaded = v.ses.loaded /\ t.deque = v.ses.deque
      /\ t.snap = v.ses.snap /\ t.loading = v.ses.loading /\ t.win = w
      /\ Visible(w) # <<>> /\ Visible(w)[Len(Visible(w))] = w.cache[w.active]
      /\ w.cache[w.active] # v.ses.win.cache[v.ses.win.active]
  <2>1. SesMoves(b, v.ses, v.turn.dir, v.turn.stride, w, t)
    BY <1>1, <1>2, <1>3 DEF SesMoves
  <2>2. SesMoved(b, v.ses, w, t)
    BY <2>1, AdvanceSound
  <2> QED
    BY <2>2 DEF SesMoved
<1>5. PICK m : m = [Commit(v, w) EXCEPT !.marker = "live", !.timer = timer]
  OBVIOUS
<1>6. m = [v EXCEPT !.ses = t, !.due = @ \cup {"window"}, !.timer = timer, !.marker = "live"]
  <2>1. Commit(v, w) = [v EXCEPT !.ses = t, !.due = @ \cup {"window"},
                                 !.timer = IF @ = "live" THEN "stale" ELSE @, !.marker = "none"]
    BY <1>3 DEF Commit
  <2>2. DOMAIN v = Fields
    BY <1>2 DEF Typed
  <2> QED
    BY <1>5, <2>1, <2>2 DEF Fields
<1>7. /\ m.ses = t /\ m.req = v.req /\ m.turn = v.turn /\ m.marker = "live" /\ m.due = v.due \cup {"window"}
      /\ m.mode = v.mode /\ m.kept = v.kept /\ m.interactive = v.interactive /\ m.cfg = v.cfg /\ m.shown = v.shown
      /\ Typed(b, m)
  BY <1>2, <1>6 DEF Typed, Fields
<1>8. r = EndTurn(m, "advanced")
  BY <1>5
<1>9. /\ Mild(b, m, r) /\ r.ses = m.ses /\ r.turn = NoTurn /\ r.req = m.req /\ r.marker = m.marker
      /\ r.due = m.due
  BY <1>1, <1>4, <1>7, <1>8, EndTurnMild
<1>10. /\ r.ses = t /\ r.req = v.req /\ r.marker = "live" /\ r.due = v.due \cup {"window"}
       /\ r.mode = v.mode /\ r.kept = v.kept /\ r.interactive = v.interactive /\ r.cfg = v.cfg /\ r.shown = v.shown
       /\ Typed(b, r) /\ r.ses # NoSession
  <2>1. t # NoSession
    BY <1>4, OpenIs
  <2>2. Typed(b, r) /\ r.mode = m.mode /\ r.kept = m.kept /\ r.interactive = m.interactive /\ r.cfg = m.cfg
        /\ r.shown = m.shown
    BY <1>9 DEF Mild
  <2> QED
    BY <1>7, <1>9, <2>1, <2>2, Zenon
<1>11. r.req # NoRequest => Asked(b, r.ses, r.req)
  <2>1. ASSUME NEW o, Asked(b, v.ses, o) PROVE Asked(b, t, o)
    BY <1>4, <2>1 DEF Asked
  <2> QED
    BY <1>2, <1>10, <2>1
<1>12. Sound(b, r)
  BY <1>2, <1>4, <1>10, <1>11 DEF Sound
<1>13. TurnSound(r) /\ Short(r) /\ Waiting(r)
  BY <1>9 DEF TurnSound, Short, Waiting
<1>14. MarkSound(r)
  <2>1. Visible(w) # v.shown.bundles
    BY <1>1, <1>4
  <2>2. r.ses.win = w /\ "window" \in r.due /\ r.turn = NoTurn
    BY <1>4, <1>9, <1>10
  <2> QED
    BY <1>10, <2>1, <2>2 DEF MarkSound
<1>15. r.due # {}
  BY <1>10
<1> QED
  BY <1>10, <1>12, <1>13, <1>14, <1>15 DEF Ready

\* handleTimelineIntent after its loop.
LEMMA ConcludeReady ==
  ASSUME NEW b \in Scenarios, NEW v, Sound(b, v), TurnSound(v), v.turn # NoTurn,
         v.interactive \/ Short(v), NEW r, r = ConcludeTurn(v)
  PROVE  Ready(b, v, r)
<1> DEFINE t        == v.turn
           w        == v.ses.win
           runway   == Runway(w, t.dir)
           terminal == runway > 0 /\ ~EdgeOpen(v, t.dir)
           next     == Advance(w, t.dir, t.stride)
           marked   == MarkExhausted(w)
           moved    == Commit(v, next)
           timer    == IF next.phase = "transitioning" THEN "live" ELSE "off"
<1>1. r = IF runway < t.stride /\ ~terminal THEN EndTurn(v, "blocked")
          ELSE IF next # w
          THEN EndTurn([moved EXCEPT !.marker = "live", !.timer = timer], "advanced")
          ELSE IF t.dir = "older" /\ ~HasOlder(v.ses.deque)
          THEN EndTurn(IF marked = w THEN v ELSE Commit(v, marked), "complete")
          ELSE EndTurn(v, "blocked")
  BY DEF ConcludeTurn
<1>2. ASSUME t.dir = "older" /\ ~HasOlder(v.ses.deque)
      PROVE  marked = w
  <2>1. v.ses # NoSession /\ v.ses.loaded
    BY DEF TurnSound
  <2>2. Filled(b, v.ses)
    BY <2>1, SoundParts DEF SesSound
  <2>3. w.exhausted
    BY <1>2, <2>2 DEF Filled
  <2> QED
    BY <2>3 DEF MarkExhausted
<1>3. timer \in {"off", "live"}
  OBVIOUS
<1>4. Short(v) => runway < t.stride /\ ~terminal
  BY DEF Short
<1> HIDE DEF timer, next, marked, moved, terminal, runway
<1>5. CASE runway < t.stride /\ ~terminal
  BY <1>1, <1>5, EndTurnReady
<1>6. CASE ~(runway < t.stride /\ ~terminal) /\ next # w
  <2>1. v.interactive
    BY <1>4, <1>6
  <2>2. r = EndTurn([moved EXCEPT !.marker = "live", !.timer = timer], "advanced")
    BY <1>1, <1>6, Zenon
  <2>3. PICK w1 : w1 = next
    OBVIOUS
  <2>4. PICK m \in {"off", "live"} : m = timer
    BY <1>3
  <2>5. w1 = Advance(v.ses.win, v.turn.dir, v.turn.stride) /\ w1 # v.ses.win
    BY <1>6, <2>3 DEF next
  <2>6. r = EndTurn([Commit(v, w1) EXCEPT !.marker = "live", !.timer = m], "advanced")
    BY <2>2, <2>3, <2>4 DEF moved
  <2> QED
    BY <2>1, <2>5, <2>6, MoveReady
<1>7. CASE ~(runway < t.stride /\ ~terminal) /\ next = w /\ t.dir = "older" /\ ~HasOlder(v.ses.deque)
  <2>1. r = EndTurn(v, "complete")
    BY <1>1, <1>2, <1>7, Zenon
  <2> QED
    BY <2>1, EndTurnReady
<1>8. CASE ~(runway < t.stride /\ ~terminal) /\ next = w /\ ~(t.dir = "older" /\ ~HasOlder(v.ses.deque))
  <2>1. r = EndTurn(v, "blocked")
    BY <1>1, <1>8, Zenon
  <2> QED
    BY <2>1, EndTurnReady
<1> QED
  BY <1>5, <1>6, <1>7, <1>8

\* The loop of handleTimelineIntent, from where it is.
LEMMA GoOnReady ==
  ASSUME NEW b \in Scenarios, b = world.bound, NEW v, Sound(b, v), v.ses # NoSession,
         TurnSound(v), MarkSound(v),
         v.turn # NoTurn => v.interactive \/ (Short(v) /\ v.req = NoRequest),
         NEW r, r = GoOn(v)
  PROVE  Ready(b, v, r)
<1> DEFINE asked == [v EXCEPT !.turn.tries = @ + 1]
<1>1. r = CASE v.turn = NoTurn -> v
            [] v.turn # NoTurn /\ NeedsPage(v) /\ v.req # NoRequest -> asked
            [] v.turn # NoTurn /\ NeedsPage(v) /\ v.req = NoRequest /\ MayLoad(v, "journey", v.turn.dir) ->
                   BeginLoad(asked, "journey", v.turn.dir)
            [] OTHER -> ConcludeTurn(v)
  BY DEF GoOn
<1>2. Typed(b, v) /\ SesSound(b, v.ses) /\ KeptSound(b, v.kept)
      /\ (v.req # NoRequest => Asked(b, v.ses, v.req)) /\ (v.ses.loading <=> v.req # NoRequest)
  BY SoundParts
<1>3. Mild(b, v, v)
  BY <1>2, MildRefl
<1>4. CASE v.turn = NoTurn
  <2>1. r = v
    BY <1>1, <1>4
  <2>2. Short(v) /\ Waiting(v)
    BY <1>4 DEF Short, Waiting
  <2> QED
    BY <1>2, <1>3, <2>1, <2>2, MildReady
<1>5. ASSUME v.turn # NoTurn
      PROVE  /\ v.turn.tries \in Nat /\ v.turn.dir \in Dirs /\ v.turn.stride \in Nat \ {0}
             /\ v.turn.live \in BOOLEAN /\ DOMAIN v.turn = TurnFields /\ v.ses.loaded /\ v.marker = "none"
  BY <1>5 DEF TurnSound
<1>6. ASSUME v.turn # NoTurn
      PROVE  /\ DOMAIN asked = Fields /\ asked.ses = v.ses /\ asked.req = v.req /\ asked.marker = v.marker
             /\ asked.turn # NoTurn /\ DOMAIN asked.turn = TurnFields /\ asked.turn.dir = v.turn.dir
             /\ asked.turn.stride = v.turn.stride /\ asked.turn.tries \in Nat
             /\ asked.turn.live \in BOOLEAN
             /\ asked.interactive = v.interactive /\ asked.kept = v.kept /\ asked.cfg = v.cfg
             /\ Mild(b, v, asked)
  <2>1. PICK x : x = [v.turn EXCEPT !.tries = @ + 1]
    OBVIOUS
  <2>2. asked = [v EXCEPT !.turn = x]
    BY <2>1
  <2>3. /\ DOMAIN x = TurnFields /\ x.dir = v.turn.dir /\ x.stride = v.turn.stride /\ x.tries \in Nat
        /\ x.live \in BOOLEAN
    BY <1>5, <1>6, <2>1 DEF TurnFields
  <2>4. x # NoTurn
    <3>1. DOMAIN NoTurn = {"dir"}
      BY DEF NoTurn
    <3> QED
      BY <2>3, <3>1 DEF TurnFields
  <2>5. /\ asked.ses = v.ses /\ asked.req = v.req /\ asked.marker = v.marker /\ asked.turn = x
        /\ asked.interactive = v.interactive /\ asked.kept = v.kept /\ asked.cfg = v.cfg
        /\ asked.mode = v.mode /\ asked.shown = v.shown /\ asked.due = v.due /\ Typed(b, asked)
    BY <1>2, <2>2 DEF Typed, Fields
  <2>6. Mild(b, v, asked)
    BY <1>3, <2>5 DEF Mild
  <2>7. DOMAIN asked = Fields
    BY <2>5 DEF Typed
  <2> QED
    BY <2>3, <2>4, <2>5, <2>6, <2>7
<1>7. ASSUME v.turn # NoTurn, NeedsPage(v)
      PROVE  Short(v)
  BY <1>7 DEF NeedsPage, Short
<1> HIDE DEF asked
<1>8. CASE v.turn # NoTurn /\ NeedsPage(v) /\ v.req # NoRequest
  <2>1. r = asked
    BY <1>1, <1>8
  <2>2. TurnSound(r) /\ Short(r)
    BY <1>6, <1>7, <1>8, <2>1, MildTurn
  <2>3. Waiting(r)
    BY <1>6, <1>8, <2>1 DEF Waiting
  <2>4. MarkSound(r)
    BY <1>5, <1>6, <1>8, <2>1 DEF MarkSound
  <2>5. Mild(b, v, r) /\ (r.req # NoRequest => Asked(b, v.ses, r.req)) /\ (r.ses.loading <=> r.req # NoRequest)
    BY <1>2, <1>6, <1>8, <2>1
  <2> QED
    BY <1>2, <2>2, <2>3, <2>4, <2>5, MildReady
<1>9. CASE v.turn # NoTurn /\ NeedsPage(v) /\ v.req = NoRequest /\ MayLoad(v, "journey", v.turn.dir)
  <2>1. r = BeginLoad(asked, "journey", v.turn.dir)
    BY <1>1, <1>9
  <2>2. asked.ses.loaded /\ EdgeOpen(asked, v.turn.dir) /\ v.turn.dir \in Dirs /\ v.interactive
    BY <1>5, <1>6, <1>9 DEF NeedsPage, EdgeOpen, MayLoad
  <2>3. Typed(b, asked) /\ SesSound(b, asked.ses) /\ asked.ses = v.ses
    BY <1>2, <1>6, <1>9 DEF Mild
  <2>4. /\ Mild(b, asked, r) /\ r.req # NoRequest /\ Asked(b, asked.ses, r.req) /\ r.ses.loading
        /\ r.turn = asked.turn /\ r.marker = asked.marker
    <3>1. IF asked.ses.loaded THEN EdgeOpen(asked, v.turn.dir) ELSE v.turn.dir = "older"
      BY <2>2
    <3> QED
      BY <2>1, <2>2, <2>3, <3>1, BeginLoadMild
  <2>5. Mild(b, v, r)
    BY <1>6, <1>9, <2>4, MildTrans
  <2>6. TurnSound(r) /\ Short(r)
    BY <1>6, <1>7, <1>9, <2>4, <2>5, MildTurn
  <2>7. Waiting(r)
    BY <2>2, <2>4, <2>5 DEF Waiting, Mild
  <2>8. MarkSound(r)
    BY <1>5, <1>6, <1>9, <2>4 DEF MarkSound
  <2>9. (r.req # NoRequest => Asked(b, v.ses, r.req)) /\ (r.ses.loading <=> r.req # NoRequest)
    BY <2>3, <2>4
  <2> QED
    BY <1>2, <2>5, <2>6, <2>7, <2>8, <2>9, MildReady
<1>10. CASE /\ v.turn # NoTurn /\ ~(NeedsPage(v) /\ v.req # NoRequest)
            /\ ~(NeedsPage(v) /\ v.req = NoRequest /\ MayLoad(v, "journey", v.turn.dir))
  <2>1. r = ConcludeTurn(v)
    BY <1>1, <1>10
  <2> QED
    BY <1>10, <2>1, ConcludeReady
<1> QED
  BY <1>4, <1>8, <1>9, <1>10

LEMMA EndMark ==
  ASSUME NEW b \in Scenarios, NEW v, NEW r, Mild(b, v, r), MarkSound(v), r.turn = v.turn
  PROVE  MarkSound(r)
<1>1. v.ses # NoSession /\ SameSes(v.ses, r.ses) /\ v.due \subseteq r.due /\ r.marker \in {"none", v.marker}
      /\ r.shown = v.shown /\ r.interactive = v.interactive
  BY DEF Mild
<1>2. Visible(r.ses.win) = Visible(v.ses.win)
  BY <1>1 DEF SameSes, SameWin
<1>3. v.ses.open = r.ses.open
  BY <1>1 DEF SameSes
<1>4. r.marker = "live" => r.ses # NoSession
  <2>1. DOMAIN r.ses = SesFields /\ DOMAIN NoSession = {"open"}
    BY <1>1 DEF SameSes, NoSession
  <2> QED
    BY <2>1 DEF SesFields
<1> QED
  BY <1>1, <1>2, <1>4 DEF MarkSound

\* A request ends, and the turn that waited for it goes on.
LEMMA EndGoOnReady ==
  ASSUME NEW b \in Scenarios, b = world.bound, NEW v, Typed(b, v), SesSound(b, v.ses), KeptSound(b, v.kept),
         TurnSound(v), MarkSound(v), v.turn # NoTurn => v.interactive \/ Short(v),
         NEW r, r = GoOn(EndRequest(v))
  PROVE  Ready(b, v, r)
<1>1. PICK e : e = EndRequest(v)
  OBVIOUS
<1>2. /\ Mild(b, v, e) /\ e.req = NoRequest /\ e.turn = v.turn /\ ~e.ses.loading
      /\ e.marker \in {"none", v.marker}
  <2>1. /\ Mild(b, v, e) /\ e.req = NoRequest /\ e.turn = v.turn /\ ~e.ses.loading
    BY <1>1, EndRequestMild
  <2> QED
    BY <2>1 DEF Mild
<1>3. Sound(b, e)
  BY <1>2, MildSound
<1>4. TurnSound(e) /\ (Short(v) => Short(e))
  <2>1. v.turn # NoTurn => /\ DOMAIN v.turn = TurnFields /\ v.turn.tries \in Nat /\ v.turn.live \in BOOLEAN
    BY DEF TurnSound
  <2> QED
    BY <1>2, <2>1, MildTurn
<1>5. MarkSound(e)
  BY <1>2, EndMark
<1>6. e.ses # NoSession /\ e.interactive = v.interactive
  BY <1>2, SameSesSound DEF Mild
<1>7. r = GoOn(e)
  BY <1>1
<1>8. Ready(b, e, r)
  BY <1>2, <1>3, <1>4, <1>5, <1>6, <1>7, GoOnReady
<1>9. Focus(e) = Focus(v) /\ Visible(e.ses.win) = Visible(v.ses.win)
  BY <1>2, SameFocus DEF Mild, SameSes, SameWin
<1>10. e.mode = v.mode /\ e.kept = v.kept /\ e.cfg = v.cfg /\ e.shown = v.shown /\ v.due \subseteq e.due
  BY <1>2 DEF Mild
<1> QED
  BY <1>2, <1>6, <1>8, <1>9, <1>10 DEF Ready

\* The request of a page that may have a turn waiting is given up.
LEMMA AbortReady ==
  ASSUME NEW b \in Scenarios, b = world.bound, NEW v, Sound(b, v), v.ses # NoSession, TurnSound(v),
         Short(v), v.turn # NoTurn => v.req # NoRequest, MarkSound(v), NEW r, r = Abort(v)
  PROVE  Ready(b, v, r)
<1>1. /\ Typed(b, v) /\ SesSound(b, v.ses) /\ KeptSound(b, v.kept)
      /\ v.req # NoRequest => Asked(b, v.ses, v.req)
      /\ v.ses.loading <=> v.req # NoRequest
  BY SoundParts
<1>2. CASE v.req = NoRequest
  <2>1. r = v
    BY <1>2 DEF Abort
  <2>2. Waiting(v) /\ Mild(b, v, v)
    BY <1>1, <1>2, MildRefl DEF Waiting
  <2> QED
    BY <1>1, <2>1, <2>2, MildReady
<1>3. CASE v.req # NoRequest
  <2>1. r = GoOn(EndRequest(v))
    BY <1>3 DEF Abort
  <2> QED
    BY <1>1, <2>1, EndGoOnReady
<1> QED
  BY <1>2, <1>3

\* The scene forgets the turn.
LEMMA CancelIs ==
  ASSUME NEW b, NEW v, Typed(b, v), v.turn # NoTurn => DOMAIN v.turn = TurnFields,
         NEW r, r = CancelTransition(v)
  PROVE  /\ Typed(b, r) /\ r.ses = v.ses /\ r.req = v.req /\ r.marker = v.marker
         /\ r.due = v.due /\ r.mode = v.mode /\ r.kept = v.kept /\ r.interactive = v.interactive
         /\ r.cfg = v.cfg /\ r.shown = v.shown
         /\ r.turn = NoTurn <=> v.turn = NoTurn
         /\ v.turn # NoTurn => /\ DOMAIN r.turn = TurnFields /\ r.turn.dir = v.turn.dir
                               /\ r.turn.stride = v.turn.stride /\ r.turn.tries = v.turn.tries
                               /\ r.turn.live \in BOOLEAN
<1>1. PICK x : x = IF v.turn = NoTurn THEN v.turn ELSE [v.turn EXCEPT !.live = FALSE]
  OBVIOUS
<1>2. r = [v EXCEPT !.scene = "idle", !.turn = x]
  BY <1>1 DEF CancelTransition
<1>3. v.turn # NoTurn => /\ DOMAIN x = TurnFields /\ x.dir = v.turn.dir
                         /\ x.stride = v.turn.stride /\ x.tries = v.turn.tries /\ x.live \in BOOLEAN
  BY <1>1 DEF TurnFields
<1>4. x = NoTurn <=> v.turn = NoTurn
  <2>1. DOMAIN NoTurn = {"dir"}
    BY DEF NoTurn
  <2> QED
    BY <1>1, <1>3, <2>1 DEF TurnFields
<1> QED
  BY <1>2, <1>3, <1>4 DEF Typed, Fields

\* The session is left behind.
LEMMA LeaveIs ==
  ASSUME NEW b, NEW v, Typed(b, v), v.turn # NoTurn => v.turn.live \in BOOLEAN, NEW r, r = LeaveSession(v)
  PROVE  /\ Typed(b, r) /\ r.ses = NoSession /\ r.req = NoRequest /\ r.turn = NoTurn /\ r.marker = "none"
         /\ r.mode = v.mode /\ r.kept = v.kept /\ r.interactive = v.interactive /\ r.cfg = v.cfg
         /\ r.shown = v.shown /\ v.due \subseteq r.due /\ "window" \in r.due
<1>1. PICK g : g = [v EXCEPT !.req = NoRequest, !.ses = NoSession]
  OBVIOUS
<1>2. /\ g.ses = NoSession /\ g.req = NoRequest /\ g.turn = v.turn /\ g.due = v.due
      /\ g.mode = v.mode /\ g.kept = v.kept /\ g.interactive = v.interactive /\ g.cfg = v.cfg /\ g.shown = v.shown
      /\ Typed(b, g)
  BY <1>1 DEF Typed, Fields
<1>3. PICK a : a = AbortWithSession(v)
  OBVIOUS
<1>4. a = IF v.turn = NoTurn THEN g ELSE EndTurn(g, "blocked")
  BY <1>1, <1>3 DEF AbortWithSession
<1>5. /\ a.ses = NoSession /\ a.req = NoRequest /\ a.turn = NoTurn /\ a.due = v.due
      /\ a.mode = v.mode /\ a.kept = v.kept /\ a.interactive = v.interactive /\ a.cfg = v.cfg /\ a.shown = v.shown
      /\ Typed(b, a)
  <2>1. CASE v.turn = NoTurn
    BY <1>2, <1>4, <2>1
  <2>2. CASE v.turn # NoTurn
    BY <1>2, <1>4, <2>2, EndTurnIs
  <2> QED
    BY <2>1, <2>2
<1>6. r = [a EXCEPT !.timer = "off", !.marker = "none", !.reload = "off", !.reloads = 0,
                    !.locked = FALSE, !.due = @ \cup {"window", "prefetch"}]
  BY <1>3 DEF LeaveSession
<1> QED
  BY <1>5, <1>6 DEF Typed, Fields

(***************************************************************************)
(* From a value of the page to the invariant.                              *)
(***************************************************************************)
Moves(v, r) ==
  \/ Focus(r) \in {Focus(v), <<>>} \/ Focus(v) = <<>>
  \/ v.marker = "none" /\ r.marker = "live"

\* Nothing is open.
LEMMA AwaySound ==
  ASSUME NEW b, NEW r, Typed(b, r), r.ses = NoSession, KeptSound(b, r.kept), r.req = NoRequest,
         r.turn = NoTurn, r.marker = "none", r.mode # "exploration"
  PROVE  PageSound(b, r)
BY DEF PageSound, Sound, TurnSound, Short, Waiting, MarkSound, ShownSound

LEMMA NoFocus ==
  ASSUME NEW v, v.ses = NoSession
  PROVE  Focus(v) = <<>>
<1>1. v.ses.open = FALSE
  BY DEF NoSession
<1> QED
  BY <1>1 DEF Focus

\* A session that was just opened.
LEMMA FreshIs ==
  ASSUME NEW b \in Scenarios, b = world.bound, NEW v, Typed(b, v), NEW s, s = EmptySession(Config(v))
  PROVE  /\ SesSound(b, s) /\ s # NoSession /\ ~s.loading /\ ~s.loaded /\ s.win.active = 0 /\ s.page = 0
<1>1. PICK w : w = EmptyWindow(Config(v).visible, Config(v).capacity)
  OBVIOUS
<1>2. Config(v).visible \in Nat \ {0} /\ Config(v).capacity \in Nat
  BY ConfigIs
<1>3. /\ WinTyped(w) /\ w.cache = <<>> /\ w.active = 0 /\ w.visited = 0 /\ w.start = 0
      /\ ~w.exhausted /\ w.phase = "idle"
  BY <1>1, <1>2, EmptyWindowIs
<1>4. s = [open |-> TRUE, loaded |-> FALSE, deque |-> <<>>, snap |-> 0, page |-> 0,
           prefer |-> "older", loading |-> FALSE, paused |-> FALSE, win |-> w, shown |-> {}]
  BY <1>1 DEF EmptySession
<1>5. /\ DOMAIN s = SesFields /\ s.open = TRUE /\ s.loaded = FALSE /\ s.deque = <<>> /\ s.snap = 0
      /\ s.page = 0 /\ s.prefer = "older" /\ s.loading = FALSE /\ s.paused = FALSE /\ s.win = w /\ s.shown = {}
  BY <1>4 DEF SesFields
<1>6. SesTyped(s)
  <2>1. s.deque \in Seq(Cells)
    BY <1>5
  <2>2. s.open = TRUE /\ s.loaded \in BOOLEAN /\ s.loading \in BOOLEAN /\ s.paused \in BOOLEAN
    BY <1>5
  <2>3. s.snap \in Nat /\ s.prefer \in Dirs /\ s.shown \subseteq Nat /\ DOMAIN s = SesFields
    BY <1>5 DEF Dirs
  <2>4. WinTyped(s.win)
    BY <1>3, <1>5
  <2> QED
    BY <2>1, <2>2, <2>3, <2>4 DEF SesTyped
<1>7. Blank(s)
  BY <1>3, <1>5 DEF Blank
<1>8. SesSound(b, s)
  BY <1>5, <1>6, <1>7 DEF SesSound
<1> QED
  BY <1>3, <1>5, <1>8, OpenIs

\* A handler that is done leaves the page sound, and the focus where it was.
LEMMA ReadyPage ==
  ASSUME NEW b \in Scenarios, NEW v, v.ses # NoSession, v.mode = "exploration", ShownSound(v), TurnSound(v),
         NEW r, Ready(b, v, r)
  PROVE  PageSound(b, r) /\ Moves(v, r)
<1>1. ShownSound(r)
  BY DEF Ready, ShownSound
<1>2. Moves(v, r)
  BY DEF Ready, Moves, TurnSound
<1> QED
  BY <1>1, <1>2 DEF Ready, PageSound

(***************************************************************************)
(* The steps.                                                              *)
(***************************************************************************)
\* Where the focus is, and that no turn was done, stays.
Still(v, r) == Focus(r) = Focus(v) /\ r.marker = v.marker
Good(b, v, r) == PageSound(b, r) /\ Moves(v, r)

LEMMA MovesOn ==
  ASSUME NEW b, NEW v, NEW r, NEW q, Still(v, r), Good(b, r, q)
  PROVE  Good(b, v, q)
BY DEF Still, Good, Moves

LEMMA StillGood ==
  ASSUME NEW b, NEW v, NEW r, PageSound(b, r), Still(v, r)
  PROVE  Good(b, v, r)
BY DEF Still, Good, Moves

LEMMA GoodStill ==
  ASSUME NEW b, NEW v, NEW r, NEW q, Good(b, v, r), Still(r, q), PageSound(b, q)
  PROVE  Good(b, v, q)
BY DEF Still, Good, Moves

\* What the invariant says of a session that is open.
LEMMA PageParts ==
  ASSUME NEW b, NEW v, PageSound(b, v)
  PROVE  /\ Typed(b, v) /\ KeptSound(b, v.kept) /\ Sound(b, v)
         /\ TurnSound(v) /\ Short(v) /\ Waiting(v) /\ MarkSound(v) /\ ShownSound(v)
         /\ v.ses = NoSession => v.req = NoRequest /\ v.turn = NoTurn /\ v.marker = "none"
         /\ v.ses # NoSession => v.mode = "exploration"
         /\ v.mode = "exploration" => v.ses # NoSession
         /\ v.ses # NoSession => SesSound(b, v.ses) /\ (v.req # NoRequest => Asked(b, v.ses, v.req))
         /\ v.ses # NoSession => v.ses.loading = (v.req # NoRequest)
         /\ v.ses # NoSession <=> v.ses.open
<1>1. v.ses = NoSession => ~v.ses.open
  BY DEF NoSession
<1>2. v.ses # NoSession => v.ses.open = TRUE /\ v.ses.loading \in BOOLEAN
  BY DEF PageSound, Sound, SesSound, SesTyped
<1>3. v.ses = NoSession => v.req = NoRequest /\ v.turn = NoTurn /\ v.marker = "none"
  BY DEF PageSound, Sound, TurnSound, MarkSound, Typed
<1>4. v.ses # NoSession => v.ses.loading = (v.req # NoRequest)
  BY <1>2 DEF PageSound, Sound
<1> QED
  BY <1>1, <1>2, <1>3, <1>4 DEF PageSound, Sound

\* Nothing changes that the invariant speaks of.
Untouched(v, r) ==
  /\ r.ses = v.ses /\ r.kept = v.kept /\ r.req = v.req /\ r.turn = v.turn /\ r.marker = v.marker
  /\ r.mode = v.mode /\ r.interactive = v.interactive /\ v.due \subseteq r.due /\ r.shown = v.shown
LEMMA SamePage ==
  ASSUME NEW b, NEW v, PageSound(b, v), NEW r, Typed(b, r), Untouched(v, r)
  PROVE  PageSound(b, r) /\ Still(v, r) /\ Good(b, v, r)
<1>1. Still(v, r)
  BY DEF Untouched, Still, Focus
<1>2. Sound(b, r)
  BY DEF PageSound, Sound, Untouched
<1>3. TurnSound(r) /\ Waiting(r)
  BY DEF PageSound, TurnSound, Waiting, Untouched
<1>4. Short(r)
  BY DEF PageSound, Short, EdgeOpen, Untouched
<1>5. MarkSound(r)
  BY DEF PageSound, MarkSound, Untouched
<1>6. ShownSound(r)
  BY DEF PageSound, ShownSound, Untouched
<1> QED
  BY <1>1, <1>2, <1>3, <1>4, <1>5, <1>6, StillGood DEF PageSound, Untouched

\* The scene forgets the turn, the window does not.
LEMMA CancelPage ==
  ASSUME NEW b \in Scenarios, NEW v, PageSound(b, v), NEW r, r = CancelTransition(v)
  PROVE  PageSound(b, r) /\ Still(v, r) /\ Good(b, v, r)
<1>0. Typed(b, v) /\ (v.turn # NoTurn => DOMAIN v.turn = TurnFields)
  BY PageParts DEF TurnSound
<1>1. /\ Typed(b, r) /\ r.ses = v.ses /\ r.req = v.req /\ r.marker = v.marker
      /\ r.due = v.due /\ r.mode = v.mode /\ r.kept = v.kept /\ r.interactive = v.interactive
      /\ r.cfg = v.cfg /\ r.shown = v.shown
      /\ r.turn = NoTurn <=> v.turn = NoTurn
      /\ v.turn # NoTurn => /\ DOMAIN r.turn = TurnFields /\ r.turn.dir = v.turn.dir
                            /\ r.turn.stride = v.turn.stride /\ r.turn.tries = v.turn.tries
                            /\ r.turn.live \in BOOLEAN
  BY <1>0, CancelIs
<1>2. Still(v, r)
  BY <1>1 DEF Still, Focus
<1>3. Sound(b, r)
  BY <1>1 DEF PageSound, Sound
<1>4. TurnSound(r) /\ Waiting(r)
  BY <1>1 DEF PageSound, TurnSound, Waiting
<1>5. Short(r)
  BY <1>1 DEF PageSound, Short, EdgeOpen
<1>6. MarkSound(r)
  BY <1>1 DEF PageSound, MarkSound
<1>7. ShownSound(r)
  BY <1>1 DEF PageSound, ShownSound
<1> QED
  BY <1>1, <1>2, <1>3, <1>4, <1>5, <1>6, <1>7, StillGood DEF PageSound

\* A handler that is ready leaves the page sound.
LEMMA ReadyGood ==
  ASSUME NEW b \in Scenarios, NEW v, v.ses # NoSession, v.mode = "exploration", ShownSound(v), TurnSound(v),
         NEW r, Ready(b, v, r)
  PROVE  Good(b, v, r)
BY ReadyPage DEF Good

\* The window is settled.
LEMMA SettledPage ==
  ASSUME NEW b \in Scenarios, NEW v, PageSound(b, v), v.ses # NoSession, NEW r, r = CommitSettled(v)
  PROVE  /\ Good(b, v, r) /\ Mild(b, v, r) /\ r.req = v.req /\ r.turn = v.turn /\ r.ses.loading = v.ses.loading
<1>1. /\ Typed(b, v) /\ SesSound(b, v.ses) /\ KeptSound(b, v.kept) /\ TurnSound(v) /\ Short(v) /\ Waiting(v)
      /\ MarkSound(v) /\ ShownSound(v) /\ v.mode = "exploration"
      /\ v.req # NoRequest => Asked(b, v.ses, v.req)
      /\ v.ses.loading = (v.req # NoRequest)
  BY PageParts
<1>2. /\ Mild(b, v, r) /\ r.req = v.req /\ r.turn = v.turn /\ r.ses.loading = v.ses.loading
  BY <1>1, SettledMild
<1>3. TurnSound(r) /\ Short(r)
  <2>1. r.turn # NoTurn => /\ DOMAIN r.turn = TurnFields /\ r.turn.dir = v.turn.dir
                           /\ r.turn.stride = v.turn.stride /\ r.turn.tries \in Nat /\ r.turn.live \in BOOLEAN
    BY <1>1, <1>2 DEF TurnSound
  <2> QED
    BY <1>1, <1>2, <2>1, MildTurn
<1>4. Waiting(r)
  BY <1>1, <1>2 DEF Waiting, Mild
<1>5. MarkSound(r)
  BY <1>1, <1>2, EndMark
<1>6. r.ses.loading <=> r.req # NoRequest
  BY <1>1, <1>2
<1>7. r.req # NoRequest => Asked(b, v.ses, r.req)
  BY <1>1, <1>2
<1>8. Ready(b, v, r)
  BY <1>1, <1>2, <1>3, <1>4, <1>5, <1>6, <1>7, MildReady
<1> QED
  BY <1>1, <1>2, <1>8, ReadyGood

\* The bound stays, the version of the server grows.
LEMMA WorldKept ==
  ASSUME WorldSound(world), world' = world \/ (\E act : Spend(act)) \/ TimelineChanges
  PROVE  WorldSound(world') /\ world'.bound = world.bound
<1>1. CASE world' = world
  BY <1>1 DEF WorldSound
<1>2. CASE \E act : Spend(act)
  <2>1. world' = [world EXCEPT !.left = @ - 1]
    BY <1>2 DEF Spend
  <2> QED
    BY <2>1 DEF WorldSound
<1>3. CASE TimelineChanges
  <2>1. world' = [world EXCEPT !.left = @ - 1, !.version = @ + 1]
    BY <1>3 DEF TimelineChanges
  <2>2. PICK n \in Nat \ {0} : n = world.version
    BY DEF WorldSound
  <2>3. DOMAIN world' = {"bound", "version", "left"} /\ world'.bound = world.bound /\ world'.version = n + 1
    BY <2>1, <2>2 DEF WorldSound
  <2> QED
    BY <2>2, <2>3 DEF WorldSound
<1> QED
  BY <1>1, <1>2, <1>3

\* The server's page lies at the edge it was asked for.
LEMMA PageFits ==
  ASSUME WorldSound(world), NEW b \in Scenarios, b = world.bound, NEW s, SesSound(b, s), NEW q, Asked(b, s, q),
         q.snap \in {0, world.version}
  PROVE  RowsFit(q, PageFor(q), Total(b, world.version))
<1>1. PICK T : T = Total(b, world.version)
  OBVIOUS
<1>2. PICK all : all = Rows
  OBVIOUS
<1>3. world.version \in Nat \ {0}
  BY DEF WorldSound
<1>4. T \in Int /\ Events = T
  BY <1>1, <1>3, TotalIs DEF Events, Total
<1>5. all \in Int /\ all >= T
  BY <1>2, <1>4 DEF Rows
<1>6. PICK from : from = CASE q.root -> 0
                           [] ~q.root /\ (q.root \/ q.dir = "older") -> q.cursor + 1
                           [] OTHER -> Monus(q.cursor, q.limit)
  OBVIOUS
<1>7. PICK to : to = IF q.root \/ q.dir = "older" THEN Least(all, from + q.limit) ELSE q.cursor
  OBVIOUS
<1>8. PICK last : last = Least(to, T)
  OBVIOUS
<1>9. PICK rows : rows = PageFor(q)
  OBVIOUS
<1>10. rows = [i \in 1..Monus(last, from) |-> Bundle(from + i - 1, from + i > 1, from + i < last \/ to < all)]
  BY <1>2, <1>4, <1>6, <1>7, <1>8, <1>9 DEF PageFor
<1>11. q.dir \in Dirs /\ q.limit \in Nat \ {0} /\ q.root = ~s.loaded /\ q.snap = s.snap
  BY DEF Asked
<1>12. s.loaded \in BOOLEAN /\ s.deque \in Seq(Cells)
  BY DEF SesSound, SesTyped
<1>13. CASE q.root
  <2>1. q.dir = "older" /\ ~s.loaded
    BY <1>11, <1>12, <1>13 DEF Asked
  <2>2. from = 0 /\ to = Least(all, from + q.limit)
    BY <1>6, <1>7, <1>13
  <2>3. from \in Nat /\ to \in Int /\ to <= all
    BY <1>5, <1>11, <2>2 DEF Least
  <2>4. PageSent(T, from, last, rows)
    <3>1. PageAsked(T, all, from, to, last, rows)
      BY <1>4, <1>5, <1>8, <1>10, <2>3 DEF PageAsked
    <3> QED
      BY <3>1, PageIs
  <2>5. Slice(rows, T) /\ (rows # <<>> => rows[1].ord = from)
    BY <2>4 DEF PageSent
  <2> QED
    BY <1>1, <1>9, <1>13, <2>2, <2>5 DEF RowsFit
<1>14. CASE ~q.root
  <2>0. s.loaded = TRUE /\ s.snap \in Nat
    BY <1>11, <1>12, <1>14 DEF SesSound, SesTyped
  <2>1. s.snap \in Nat \ {0} /\ Slice(s.deque, Total(b, s.snap))
    BY <2>0 DEF SesSound, Filled
  <2>2. Slice(s.deque, T)
    BY <1>1, <1>11, <2>1
  <2>3. CASE q.dir = "older"
    <3>1. HasOlder(s.deque) /\ q.cursor = s.deque[Len(s.deque)].ord
      BY <1>14, <2>3 DEF Asked
    <3>2. Len(s.deque) \in Nat /\ Len(s.deque) > 0
      BY <1>12, <3>1, NotEmpty, EdgesOf
    <3>3. q.cursor \in Nat /\ q.cursor < T
      <4>1. Len(s.deque) \in 1..Len(s.deque)
        BY <3>2
      <4>2. s.deque[Len(s.deque)].ord \in Nat
        BY <1>12, <4>1, CellOf
      <4> QED
        BY <2>2, <3>1, <4>1, <4>2 DEF Slice
    <3>4. from = q.cursor + 1 /\ to = Least(all, from + q.limit)
      BY <1>6, <1>7, <1>14, <2>3
    <3>5. from \in Nat /\ to \in Int /\ to <= all
      BY <1>5, <1>11, <3>3, <3>4 DEF Least
    <3>6. Slice(rows, T) /\ (rows # <<>> <=> last > from) /\ (rows # <<>> => rows[1].ord = from)
      <4>1. PageAsked(T, all, from, to, last, rows)
        BY <1>4, <1>5, <1>8, <1>10, <3>5 DEF PageAsked
      <4> QED
        BY <4>1, PageIs DEF PageSent
    <3>7. ~(last > from) => from = T
      BY <1>4, <1>5, <1>8, <1>11, <3>3, <3>4 DEF Least
    <3> QED
      BY <1>1, <1>9, <1>14, <2>3, <3>4, <3>6, <3>7 DEF RowsFit
  <2>4. CASE q.dir = "newer"
    <3>1. HasNewer(s.deque) /\ q.cursor = s.deque[1].ord
      BY <1>14, <2>4 DEF Asked
    <3>2. Len(s.deque) \in Nat /\ Len(s.deque) > 0 /\ s.deque[1].before
      BY <1>12, <3>1, NotEmpty, EdgesOf
    <3>3. q.cursor \in Nat /\ q.cursor < T /\ q.cursor > 0
      <4>1. 1 \in 1..Len(s.deque)
        BY <3>2
      <4>2. s.deque[1].ord \in Nat
        BY <1>12, <4>1, CellOf
      <4> QED
        BY <2>2, <3>1, <3>2, <4>1, <4>2 DEF Slice
    <3>4. from = Monus(q.cursor, q.limit) /\ to = q.cursor
      BY <1>6, <1>7, <1>14, <2>4
    <3>5. from \in Nat /\ to \in Int /\ to <= all /\ last = to /\ last > from
      BY <1>4, <1>5, <1>8, <1>11, <3>3, <3>4 DEF Least, Monus
    <3>6. Slice(rows, T) /\ rows # <<>> /\ rows[Len(rows)].ord = last - 1
      <4>1. PageAsked(T, all, from, to, last, rows)
        BY <1>4, <1>5, <1>8, <1>10, <3>5 DEF PageAsked
      <4> QED
        BY <3>5, <4>1, PageIs DEF PageSent
    <3> QED
      BY <1>1, <1>9, <1>14, <2>4, <3>4, <3>5, <3>6 DEF RowsFit
  <2> QED
    BY <1>11, <2>3, <2>4 DEF Dirs
<1> QED
  BY <1>11, <1>12, <1>13, <1>14

\* The page of a request that was answered.
LEMMA RepliesGood ==
  ASSUME TimelineInv, NEW b \in Scenarios, b = world.bound, ServerReplies
  PROVE  Good(b, u, u')
<1>0. PageSound(b, u) /\ WorldSound(world)
  BY DEF TimelineInv
<1>1. u.req # NoRequest /\ u.ses # NoSession /\ SesSound(b, u.ses) /\ Asked(b, u.ses, u.req) /\ Typed(b, u)
  BY <1>0, PageParts DEF ServerReplies
<1>2. PICK reply : reply = IF u.req.snap \notin {0, world.version} THEN [kind |-> "changed"]
                           ELSE [kind |-> "page", rows |-> PageFor(u.req), snap |-> world.version]
  OBVIOUS
<1>3. u' = [u EXCEPT !.req.reply = reply]
  BY <1>2 DEF ServerReplies
<1>4. PICK q : q = [u.req EXCEPT !.reply = reply]
  OBVIOUS
<1>5. u' = [u EXCEPT !.req = q]
  BY <1>3, <1>4
<1>6. DOMAIN u.req = ReqFields
  BY <1>1 DEF Asked
<1>7. /\ DOMAIN q = ReqFields /\ q.reply = reply /\ q.dir = u.req.dir /\ q.limit = u.req.limit
      /\ q.snap = u.req.snap /\ q.root = u.req.root /\ q.cursor = u.req.cursor
  BY <1>4, <1>6 DEF ReqFields
<1>8. ReplyFits(b, q)
  <2>1. CASE u.req.snap \notin {0, world.version}
    BY <1>2, <1>7, <2>1 DEF ReplyFits
  <2>2. CASE u.req.snap \in {0, world.version}
    <3>1. RowsFit(u.req, PageFor(u.req), Total(b, world.version))
      BY <1>0, <1>1, <2>2, PageFits
    <3>2. RowsFit(q, PageFor(u.req), Total(b, world.version))
      BY <1>7, <3>1 DEF RowsFit
    <3>3. reply = [kind |-> "page", rows |-> PageFor(u.req), snap |-> world.version]
      BY <1>2, <2>2
    <3>4. world.version \in Nat \ {0}
      BY <1>0 DEF WorldSound
    <3> QED
      BY <1>7, <2>2, <3>2, <3>3, <3>4 DEF ReplyFits
  <2> QED
    BY <2>1, <2>2
<1>9. Asked(b, u.ses, q)
  BY <1>1, <1>7, <1>8 DEF Asked
<1>10. q # NoRequest
  BY <1>7 DEF ReqFields, NoRequest
<1>11. DOMAIN u = Fields
  BY <1>1 DEF Typed
<1>12. /\ u'.req = q /\ DOMAIN u' = Fields
       /\ \A f \in Fields \ {"req"} : u'[f] = u[f]
  BY <1>5, <1>11 DEF Fields
<1>13. /\ u'.mode = u.mode /\ u'.ses = u.ses /\ u'.kept = u.kept /\ u'.turn = u.turn /\ u'.timer = u.timer
       /\ u'.marker = u.marker /\ u'.locked = u.locked /\ u'.interactive = u.interactive
       /\ u'.playing = u.playing /\ u'.cfg = u.cfg /\ u'.due = u.due /\ u'.scene = u.scene /\ u'.shown = u.shown
  BY <1>5, <1>11 DEF Fields
<1>14. Typed(b, u')
  BY <1>1, <1>12, <1>13 DEF Typed
<1>15. Sound(b, u')
  BY <1>0, <1>1, <1>9, <1>10, <1>12, <1>13, <1>14 DEF PageSound, Sound
<1>16. TurnSound(u') /\ Short(u') /\ Waiting(u')
  BY <1>0, <1>10, <1>12, <1>13 DEF PageSound, TurnSound, Short, Waiting, EdgeOpen
<1>17. MarkSound(u') /\ ShownSound(u')
  BY <1>0, <1>13 DEF PageSound, MarkSound, ShownSound
<1>18. PageSound(b, u')
  BY <1>0, <1>13, <1>15, <1>16, <1>17 DEF PageSound
<1>19. Still(u, u')
  BY <1>13 DEF Still, Focus
<1> QED
  BY <1>18, <1>19, StillGood

\* The request fails: what waited for it goes on.
LEMMA FailsGood ==
  ASSUME TimelineInv, NEW b \in Scenarios, b = world.bound, RequestFails
  PROVE  Good(b, u, u')
<1>0. PageSound(b, u)
  BY DEF TimelineInv
<1>1. u.req # NoRequest /\ u' = GoOn(EndRequest(u))
  BY DEF RequestFails
<1>2. /\ Typed(b, u) /\ KeptSound(b, u.kept) /\ TurnSound(u) /\ Waiting(u) /\ MarkSound(u) /\ ShownSound(u)
      /\ u.ses # NoSession /\ SesSound(b, u.ses) /\ u.mode = "exploration"
  BY <1>0, <1>1, PageParts
<1>3. u.turn # NoTurn => u.interactive
  BY <1>2 DEF Waiting
<1>4. Ready(b, u, u')
  BY <1>1, <1>2, <1>3, EndGoOnReady
<1> QED
  BY <1>2, <1>4, ReadyGood

\* A first handler that is mild, and one that is ready.
LEMMA ReadyAfter ==
  ASSUME NEW b, NEW v, NEW q, NEW r, Mild(b, v, q), q.turn = v.turn, Ready(b, q, r)
  PROVE  Ready(b, v, r)
<1>1. Focus(q) = Focus(v) /\ Visible(q.ses.win) = Visible(v.ses.win)
  BY SameFocus DEF Mild, SameSes, SameWin
<1> QED
  BY <1>1 DEF Ready, Mild

\* The working set has no room for the page.
LEMMA RefusedGood ==
  ASSUME NEW b \in Scenarios, b = world.bound, PageSound(b, u), u.req # NoRequest, NEW r, r = PageIsRefused(u)
  PROVE  Good(b, u, r)
<1>2. /\ Typed(b, u) /\ KeptSound(b, u.kept) /\ TurnSound(u) /\ Waiting(u) /\ MarkSound(u) /\ ShownSound(u)
      /\ u.ses # NoSession /\ SesSound(b, u.ses) /\ u.mode = "exploration"
  BY PageParts
<1>3. PICK q : q = [u EXCEPT !.ses.paused = TRUE]
  OBVIOUS
<1>4. PICK s : s = [u.ses EXCEPT !.paused = TRUE]
  OBVIOUS
<1>5. SesTyped(u.ses) /\ WinTyped(u.ses.win)
  BY <1>2, OpenIs
<1>6. SameSes(u.ses, s)
  <2>1. SameWin(u.ses.win, u.ses.win)
    BY <1>5, SameWinRefl
  <2>2. DOMAIN u.ses = SesFields
    BY <1>5 DEF SesTyped
  <2>3. /\ DOMAIN s = SesFields /\ s.open = u.ses.open /\ s.loaded = u.ses.loaded /\ s.deque = u.ses.deque
        /\ s.snap = u.ses.snap /\ s.page = u.ses.page /\ s.prefer = u.ses.prefer /\ s.loading = u.ses.loading
        /\ s.paused = TRUE /\ s.win = u.ses.win /\ s.shown = u.ses.shown
    BY <1>4, <2>2 DEF SesFields
  <2> QED
    BY <1>5, <2>1, <2>3 DEF SameSes, SesTyped
<1>7. q = [u EXCEPT !.ses = s]
  BY <1>3, <1>4
<1>8. /\ Typed(b, q) /\ q.ses = s /\ q.mode = u.mode /\ q.kept = u.kept /\ q.interactive = u.interactive
      /\ q.cfg = u.cfg /\ q.shown = u.shown /\ q.due = u.due /\ q.marker = u.marker /\ q.turn = u.turn
      /\ q.req = u.req
  BY <1>2, <1>7 DEF Typed, Fields
<1>9. Mild(b, u, q)
  BY <1>2, <1>6, <1>8 DEF Mild
<1>10. SesSound(b, q.ses)
  BY <1>2, <1>6, <1>8, SameSesSound
<1>11. TurnSound(q)
  <2>1. q.turn # NoTurn => /\ DOMAIN q.turn = TurnFields /\ q.turn.dir = u.turn.dir
                           /\ q.turn.stride = u.turn.stride /\ q.turn.tries \in Nat /\ q.turn.live \in BOOLEAN
    BY <1>2, <1>8 DEF TurnSound
  <2> QED
    BY <1>2, <1>8, <1>9, <2>1, MildTurn
<1>12. MarkSound(q)
  BY <1>2, <1>8, <1>9, EndMark
<1>13. q.turn # NoTurn => q.interactive
  BY <1>2, <1>8 DEF Waiting
<1>14. r = GoOn(EndRequest(q))
  BY <1>3 DEF PageIsRefused
<1>15. KeptSound(b, q.kept)
  BY <1>2, <1>8
<1>16. Ready(b, q, r)
  BY <1>8, <1>10, <1>11, <1>12, <1>13, <1>14, <1>15, EndGoOnReady
<1>17. Ready(b, u, r)
  BY <1>8, <1>9, <1>16, ReadyAfter
<1> QED
  BY <1>2, <1>17, ReadyGood

LEMMA MonusIs ==
  /\ \A n, m \in Nat : Monus(n + m, 0) = n + m
  /\ \A n, m \in Nat : m <= n => Monus(n + 0, m) = n - m
BY DEF Monus

\* What a page makes of the window.
Grows(T, w, shown, a, q) ==
  /\ Slice(a.deque, T) /\ WinTyped(q) /\ Lies(q, a.deque) /\ Seen(q, shown \cup Range(Visible(q)))
  /\ q.exhausted <=> ~HasOlder(a.deque)
  /\ w.active # 0 => a.deque # <<>> /\ q.active # 0 /\ q.cache[q.active] = w.cache[w.active] /\ q.visible = w.visible

LEMMA FirstGrows ==
  ASSUME NEW T \in Int, NEW w, WinTyped(w), w.active = 0, w.visited = 0, NEW shown,
         NEW rows, Slice(rows, T), rows # <<>> => rows[1].ord = 0,
         NEW a, a = Admit(FALSE, <<>>, rows, "older", w.limit), NEW q, q = SyncWindow(w, TRUE, a)
  PROVE  Grows(T, w, shown, a, q)
<1>1. PICK limit \in Nat \ {0} : limit = w.limit
  BY DEF WinTyped
<1>2. a = Admit(FALSE, <<>>, rows, "older", limit)
  BY <1>1
<1>3. Slice(a.deque, T) /\ (a.deque # <<>> => a.deque[1].ord = 0)
  BY <1>2, FirstPage
<1>4. /\ WinTyped(q) /\ Lies(q, a.deque) /\ Seen(q, shown \cup Range(Visible(q)))
      /\ q.exhausted <=> ~HasOlder(a.deque)
  BY <1>3, SyncFirst
<1> QED
  BY <1>3, <1>4 DEF Grows

\* A window over a slice, of which the reader has seen what lies behind.
Browsed(T, d, w, shown) == T \in Int /\ Slice(d, T) /\ d # <<>> /\ WinTyped(w) /\ Lies(w, d) /\ Seen(w, shown)
LEMMA BrowsedIs ==
  ASSUME NEW T, NEW d, NEW w, NEW shown, Browsed(T, d, w, shown)
  PROVE  /\ w.active \in 1..Len(d) /\ w.cache[w.active] = d[w.active].ord /\ d[1].ord = w.start
         /\ Len(d) \in Nat /\ Len(d) \in 1..Len(d) /\ 1 \in 1..Len(d)
         /\ w.limit \in Nat \ {0} /\ w.start \in Nat /\ d \in Seq(Cells)
<1>1. d \in Seq(Cells)
  BY DEF Browsed, Slice
<1>2. Len(d) \in Nat /\ Len(d) > 0
  BY <1>1, NotEmpty DEF Browsed
<1>3. w.active \in 1..Len(d) /\ d[1].ord = w.start
  BY DEF Browsed, Lies
<1>4. w.cache[w.active] = d[w.active].ord
  <2>1. \A i \in 1..Len(d) : w.cache[i] = d[i].ord
    BY CacheOf DEF Browsed
  <2> QED
    BY <1>3, <2>1
<1> QED
  BY <1>1, <1>2, <1>3, <1>4 DEF Browsed, WinTyped

\* What followed its deque has grown.
LEMMA SyncGrows ==
  ASSUME NEW T, NEW d, NEW w, NEW shown, Browsed(T, d, w, shown),
         NEW a, Slice(a.deque, T), a.deque[1].ord = Monus(w.start + a.evictedNewer, a.prepended),
         PlaceOf(w.cache[w.active], Ords(a.deque)) # 0, NEW q, q = SyncWindow(w, FALSE, a)
  PROVE  Grows(T, w, shown, a, q)
<1>1. T \in Int /\ Slice(d, T) /\ d # <<>> /\ WinTyped(w) /\ Lies(w, d) /\ Seen(w, shown)
  BY DEF Browsed
<1>2. PICK p : p = PlaceOf(w.cache[w.active], Ords(a.deque))
  OBVIOUS
<1>3. /\ WinTyped(q) /\ Lies(q, a.deque) /\ Seen(q, shown) /\ a.deque # <<>>
      /\ q.exhausted <=> ~HasOlder(a.deque)
      /\ q.cache[q.active] = w.cache[w.active] /\ q.visible = w.visible /\ q.active = p
  <2>1. MayFollow(T, d, w, shown, a, p)
    BY <1>1, <1>2 DEF MayFollow
  <2> QED
    <3>1. Followed(w, shown, a, p, q)
      BY <2>1, SyncIs, Zenon
    <3> QED
      BY <3>1 DEF Followed
<1>4. Seen(q, shown \cup Range(Visible(q)))
  BY <1>3 DEF Seen
<1> QED
  BY <1>2, <1>3, <1>4 DEF Grows

\* A page of older rows.
LEMMA OlderGrows ==
  ASSUME NEW T, NEW d, NEW w, NEW shown, Browsed(T, d, w, shown),
         NEW rows, Slice(rows, T), NEW c, c = d[Len(d)].ord, rows # <<>> => rows[1].ord = c + 1,
         rows = <<>> => c + 1 = T,
         NEW a, a = Admit(TRUE, d, rows, "older", w.limit), NEW q, q = SyncWindow(w, FALSE, a), ~LosesFocus(q)
  PROVE  Grows(T, w, shown, a, q)
<1>1. T \in Int /\ Slice(d, T) /\ d # <<>>
  BY DEF Browsed
<1>2. PICK limit \in Nat \ {0} : limit = w.limit
  BY BrowsedIs
<1>3. a = Admit(TRUE, d, rows, "older", limit)
  BY <1>2
<1>4. /\ rows # <<>> => rows[1].ord = d[Len(d)].ord + 1
      /\ rows = <<>> => d[Len(d)].ord + 1 = T
  OBVIOUS
<1>5. /\ Slice(a.deque, T) /\ a.deque # <<>> /\ a.evictedNewer \in Nat /\ a.prepended = 0
      /\ a.deque[1].ord = d[1].ord + a.evictedNewer
  <2>1. OlderComes(T, d, rows, limit, a)
    BY <1>1, <1>3, <1>4 DEF OlderComes
  <2> QED
    <3>1. OlderGoesIn(T, d, a)
      BY <2>1, OlderPage, Zenon
    <3> QED
      BY <3>1 DEF OlderGoesIn
<1>6. a.deque[1].ord = Monus(w.start + a.evictedNewer, a.prepended)
  <2>1. d[1].ord = w.start /\ w.start \in Nat
    BY BrowsedIs
  <2>2. PICK n \in Nat, m \in Nat : n = w.start /\ m = a.evictedNewer
    BY <1>5, <2>1
  <2>3. Monus(n + m, 0) = n + m
    BY MonusIs
  <2> QED
    BY <1>5, <2>1, <2>2, <2>3
<1>7. PlaceOf(w.cache[w.active], Ords(a.deque)) # 0
  <2>1. w.active # 0
    BY BrowsedIs
  <2>2. WinTyped(w)
    BY DEF Browsed
  <2>3. q.active = PlaceOf(w.cache[w.active], Ords(a.deque)) /\ q.cache = Ords(a.deque)
    BY <2>1, <2>2 DEF SyncWindow, WinTyped, WinFields
  <2>4. Len(Ords(a.deque)) = Len(a.deque) /\ Ords(a.deque) \in Seq(Nat) /\ a.deque \in Seq(Cells)
    BY <1>5, OrdsOf DEF Slice
  <2>5. Ords(a.deque) # <<>>
    BY <1>5, <2>4, NotEmpty
  <2> QED
    BY <2>3, <2>5 DEF LosesFocus
<1> QED
  BY <1>5, <1>6, <1>7, SyncGrows

\* A page of newer rows.
LEMMA NewerGrows ==
  ASSUME NEW T, NEW d, NEW w, NEW shown, Browsed(T, d, w, shown),
         NEW rows, Slice(rows, T), rows # <<>>, rows[Len(rows)].ord = d[1].ord - 1,
         NEW a, a = Admit(TRUE, d, rows, "newer", w.limit), NEW q, q = SyncWindow(w, FALSE, a), ~LosesFocus(q)
  PROVE  Grows(T, w, shown, a, q)
<1>1. T \in Int /\ Slice(d, T) /\ d # <<>>
  BY DEF Browsed
<1>2. PICK limit \in Nat \ {0} : limit = w.limit
  BY BrowsedIs
<1>3. NewerComes(T, d, rows, limit, a)
  BY <1>1, <1>2 DEF NewerComes
<1>4. NewerGoesIn(T, rows, a)
  BY <1>3, NewerAdmitted
<1>5. Slice(a.deque, T) /\ a.deque # <<>> /\ a.evictedNewer = 0
  BY <1>4 DEF NewerGoesIn
<1>6. PICK p : p = PlaceOf(w.cache[w.active], Ords(a.deque))
  OBVIOUS
<1>7. p # 0
  <2>1. w.active # 0
    BY BrowsedIs
  <2>2. WinTyped(w)
    BY DEF Browsed
  <2>3. q.active = p /\ q.cache = Ords(a.deque)
    BY <1>6, <2>1, <2>2 DEF SyncWindow, WinTyped, WinFields
  <2>4. Len(Ords(a.deque)) = Len(a.deque) /\ Ords(a.deque) \in Seq(Nat) /\ a.deque \in Seq(Cells)
    BY <1>5, OrdsOf DEF Slice
  <2>5. Ords(a.deque) # <<>>
    BY <1>5, <2>4, NotEmpty
  <2> QED
    BY <2>3, <2>5 DEF LosesFocus
<1>8. p \in 1..Len(a.deque) /\ a.deque[p].ord = d[w.active].ord /\ w.active \in 1..Len(d)
  <2>1. p \in 1..Len(a.deque) /\ a.deque[p].ord = w.cache[w.active]
    <3>1. PICK o : o = w.cache[w.active]
      OBVIOUS
    <3>2. PICK e : e = a.deque
      OBVIOUS
    <3>3. Slice(e, T) /\ p = PlaceOf(o, Ords(e))
      BY <1>5, <1>6, <3>1, <3>2
    <3>4. p \in 1..Len(e) /\ e[p].ord = o
      BY <1>1, <1>7, <3>3, PlaceInSlice
    <3> QED
      BY <3>1, <3>2, <3>4
  <2>2. w.active \in 1..Len(d) /\ w.cache[w.active] = d[w.active].ord
    BY BrowsedIs
  <2> QED
    BY <2>1, <2>2
<1>9. a.prepended \in Nat /\ a.prepended <= d[1].ord /\ a.deque[1].ord = d[1].ord - a.prepended
  <2>1. PICK k : k = w.active
    OBVIOUS
  <2>2. NewerMeets(d, a, k, p)
    BY <1>8, <2>1 DEF NewerMeets
  <2> QED
    <3>1. NewerCounts(d, a)
      BY <1>3, <2>2, NewerPage, Zenon
    <3> QED
      BY <3>1 DEF NewerCounts
<1>10. a.deque[1].ord = Monus(w.start + a.evictedNewer, a.prepended)
  <2>1. d[1].ord = w.start /\ w.start \in Nat
    BY BrowsedIs
  <2>2. PICK n \in Nat, m \in Nat : n = w.start /\ m = a.prepended
    BY <1>9, <2>1
  <2>3. m <= n => Monus(n + 0, m) = n - m
    BY MonusIs
  <2> QED
    BY <1>5, <1>9, <2>1, <2>2, <2>3
<1> QED
  BY <1>5, <1>6, <1>7, <1>10, SyncGrows

\* What a page makes of the deque and of the window.
LEMMA AdmittedGrows ==
  ASSUME NEW b \in Scenarios, NEW s, SesSound(b, s), NEW q, Asked(b, s, q), q.reply.kind = "page",
         NEW a, a = Admit(s.loaded, s.deque, q.reply.rows, q.dir, s.win.limit),
         NEW w, w = SyncWindow(s.win, ~s.loaded, a), ~LosesFocus(w)
  PROVE  /\ Grows(Total(b, q.reply.snap), s.win, s.shown, a, w)
         /\ q.reply.snap \in Nat \ {0}
         /\ s.loaded /\ s.deque # <<>> => s.win.active # 0
         /\ ~s.loaded => s.win.active = 0
<1>1. SesTyped(s) /\ WinTyped(s.win) /\ s.loaded \in BOOLEAN
  BY OpenIs DEF SesTyped
<1>2. q.reply # NoReply /\ q.reply # [kind |-> "changed"]
  BY DEF NoReply
<1>3. q.reply.snap \in Nat \ {0} /\ q.snap \in {0, q.reply.snap} /\ RowsFit(q, q.reply.rows, Total(b, q.reply.snap))
  BY <1>2 DEF Asked, ReplyFits
<1>4. PICK T : T = Total(b, q.reply.snap)
  OBVIOUS
<1>5. PICK rows : rows = q.reply.rows
  OBVIOUS
<1>6. T \in Int /\ Slice(rows, T) /\ RowsFit(q, rows, T)
  BY <1>3, <1>4, <1>5, TotalIs DEF RowsFit
<1>7. q.dir \in Dirs /\ q.snap = s.snap /\ q.root = ~s.loaded
  BY DEF Asked
<1>8. CASE ~s.loaded
  <2>1. q.root /\ q.dir = "older"
    BY <1>1, <1>7, <1>8 DEF Asked
  <2>2. s.deque = <<>> /\ s.win.active = 0 /\ s.win.visited = 0
    BY <1>8 DEF SesSound, Blank
  <2>3. rows # <<>> => rows[1].ord = 0
    BY <1>6, <2>1 DEF RowsFit
  <2>4. s.loaded = FALSE
    BY <1>1, <1>8
  <2>5. a = Admit(FALSE, <<>>, rows, "older", s.win.limit) /\ w = SyncWindow(s.win, TRUE, a)
    <3>1. (~s.loaded) = TRUE
      BY <2>4
    <3> QED
      BY <1>5, <2>1, <2>2, <2>4, <3>1, Zenon
  <2>6. PICK v : v = s.win
    OBVIOUS
  <2>7. Grows(T, v, s.shown, a, w)
    <3>1. v.active = 0 /\ v.visited = 0 /\ WinTyped(v)
      BY <1>1, <2>2, <2>6
    <3>2. a = Admit(FALSE, <<>>, rows, "older", v.limit) /\ w = SyncWindow(v, TRUE, a)
      BY <2>5, <2>6, Zenon
    <3> QED
      BY <1>6, <2>3, <3>1, <3>2, FirstGrows, Zenon
  <2> QED
    BY <1>3, <1>4, <1>8, <2>2, <2>6, <2>7
<1>9. CASE s.loaded
  <2>1. ~q.root /\ s.loaded = TRUE
    BY <1>1, <1>7, <1>9
  <2>2. Filled(b, s)
    BY <1>9 DEF SesSound
  <2>3. s.snap = q.reply.snap
    BY <1>3, <1>7, <2>2 DEF Filled
  <2>4. Slice(s.deque, T) /\ Lies(s.win, s.deque) /\ Seen(s.win, s.shown)
    BY <1>4, <2>2, <2>3 DEF Filled
  <2>5. s.deque # <<>>
    <3>1. HasOlder(s.deque) \/ HasNewer(s.deque)
      BY <1>7, <2>1 DEF Asked, Dirs
    <3> QED
      BY <3>1 DEF HasOlder, HasNewer
  <2>6. PICK v : v = s.win
    OBVIOUS
  <2>7. PICK d : d = s.deque
    OBVIOUS
  <2>8. Browsed(T, d, v, s.shown)
    BY <1>1, <1>6, <2>4, <2>5, <2>6, <2>7 DEF Browsed
  <2>9. w = SyncWindow(v, FALSE, a)
    <3>1. (~s.loaded) = FALSE
      BY <2>1
    <3> QED
      BY <2>6, <3>1, Zenon
  <2>10. a = Admit(TRUE, d, rows, q.dir, v.limit)
    BY <1>5, <2>1, <2>6, <2>7, Zenon
  <2>11. Grows(T, v, s.shown, a, w)
    <3>1. CASE q.dir = "older"
      <4>1. PICK c : c = d[Len(d)].ord
        OBVIOUS
      <4>2. q.cursor = c
        BY <2>1, <2>7, <3>1, <4>1 DEF Asked
      <4>3. rows # <<>> => rows[1].ord = c + 1
        BY <1>6, <2>1, <3>1, <4>2 DEF RowsFit
      <4>4. rows = <<>> => c + 1 = T
        BY <1>6, <2>1, <3>1, <4>2 DEF RowsFit
      <4>5. a = Admit(TRUE, d, rows, "older", v.limit)
        BY <2>10, <3>1
      <4> QED
        BY <1>6, <2>8, <2>9, <4>1, <4>3, <4>4, <4>5, OlderGrows, Zenon
    <3>2. CASE q.dir = "newer"
      <4>1. q.cursor = d[1].ord
        BY <2>1, <2>7, <3>2 DEF Asked
      <4>2. rows # <<>> /\ rows[Len(rows)].ord = q.cursor - 1
        BY <1>6, <2>1, <3>2 DEF RowsFit
      <4>3. rows[Len(rows)].ord = d[1].ord - 1
        BY <4>1, <4>2
      <4>4. a = Admit(TRUE, d, rows, "newer", v.limit)
        BY <2>10, <3>2
      <4> QED
        BY <1>6, <2>8, <2>9, <4>2, <4>3, <4>4, NewerGrows, Zenon
    <3> QED
      BY <1>7, <3>1, <3>2 DEF Dirs
  <2>12. v.active # 0
    BY <2>8, BrowsedIs
  <2> QED
    BY <1>3, <1>4, <2>1, <2>6, <2>11, <2>12
<1> QED
  BY <1>1, <1>8, <1>9

\* The session with the page.
PageTaken(s, a, w, snap, page, t) ==
  /\ DOMAIN t = SesFields
  /\ t.open = TRUE /\ t.loaded = TRUE /\ t.deque = a.deque /\ t.snap = snap /\ t.page = page
  /\ t.prefer = s.prefer /\ t.loading = s.loading /\ t.paused = FALSE /\ t.win = w
  /\ t.shown = s.shown \cup Range(Visible(w))
LEMMA TakenSound ==
  ASSUME NEW b \in Scenarios, NEW s, SesTyped(s), NEW a, NEW w, NEW snap \in Nat \ {0},
         Grows(Total(b, snap), s.win, s.shown, a, w), NEW page \in PageSizes(b),
         NEW t, PageTaken(s, a, w, snap, page, t)
  PROVE  SesSound(b, t)
<1>1. PICK T \in Int : T = Total(b, snap)
  BY TotalIs
<1>2. Slice(a.deque, T) /\ WinTyped(w) /\ Lies(w, a.deque)
  BY <1>1 DEF Grows
<1>3. Range(Visible(w)) \subseteq Nat
  <2>1. CASE a.deque = <<>>
    BY <1>2, <2>1 DEF Lies, Visible, Range
  <2>2. CASE a.deque # <<>>
    <3>1. PICK d : d = a.deque
      OBVIOUS
    <3> QED
      BY <1>2, <2>2, <3>1, VisibleOf
  <2> QED
    BY <2>1, <2>2
<1>4. a.deque \in Seq(Cells)
  BY <1>2 DEF Slice
<1>5. t.shown \subseteq Nat
  BY <1>3 DEF PageTaken, SesTyped
<1>6. SesTyped(t)
  BY <1>2, <1>4, <1>5 DEF PageTaken, SesTyped
<1>7. Filled(b, t)
  BY DEF Grows, PageTaken, Filled
<1> QED
  BY <1>6, <1>7 DEF SesSound, PageTaken

\* The page is taken in, and the turn that waited for it goes on.
LEMMA AdmittedGood ==
  ASSUME NEW b \in Scenarios, b = world.bound, PageSound(b, u), u.req # NoRequest, u.req.reply.kind = "page",
         ~LosesFocus(Synced(u)), NEW r, r = PageIsAdmitted(u)
  PROVE  Good(b, u, r)
<1>1. /\ Typed(b, u) /\ KeptSound(b, u.kept) /\ TurnSound(u) /\ Waiting(u)
      /\ u.ses # NoSession /\ SesSound(b, u.ses) /\ u.mode = "exploration" /\ Asked(b, u.ses, u.req)
  BY PageParts
<1>2. SesTyped(u.ses) /\ u.ses.page \in {0} \cup PageSizes(b)
  BY <1>1 DEF SesSound
<1>3. PICK a : a = Admitted(u)
  OBVIOUS
<1>4. PICK w : w = Synced(u)
  OBVIOUS
<1>5. /\ Grows(Total(b, u.req.reply.snap), u.ses.win, u.ses.shown, a, w)
      /\ u.req.reply.snap \in Nat \ {0}
      /\ u.ses.loaded /\ u.ses.deque # <<>> => u.ses.win.active # 0
  <2>1. a = Admit(u.ses.loaded, u.ses.deque, u.req.reply.rows, u.req.dir, u.ses.win.limit)
    BY <1>3 DEF Admitted
  <2>2. w = SyncWindow(u.ses.win, ~u.ses.loaded, a)
    BY <1>3, <1>4 DEF Synced
  <2>3. ~LosesFocus(w)
    BY <1>4
  <2>4. PICK s : s = u.ses
    OBVIOUS
  <2>5. PICK q : q = u.req
    OBVIOUS
  <2>6. SesSound(b, s) /\ Asked(b, s, q) /\ q.reply.kind = "page"
    BY <1>1, <2>4, <2>5
  <2>7. a = Admit(s.loaded, s.deque, q.reply.rows, q.dir, s.win.limit) /\ w = SyncWindow(s.win, ~s.loaded, a)
    BY <2>1, <2>2, <2>4, <2>5, Zenon
  <2>8. /\ Grows(Total(b, q.reply.snap), s.win, s.shown, a, w)
        /\ q.reply.snap \in Nat \ {0}
        /\ s.loaded /\ s.deque # <<>> => s.win.active # 0
    BY <2>3, <2>6, <2>7, AdmittedGrows, Zenon
  <2> QED
    BY <2>4, <2>5, <2>8
<1>6. PICK page : page = QueryPage(u)
  OBVIOUS
<1>7. page \in PageSizes(b)
  BY <1>1, <1>2, <1>6, QueryPageIs
<1>8. PICK snap : snap = u.req.reply.snap
  OBVIOUS
<1>9. PICK n : n = IF u.req.cause = "reload" THEN 0 ELSE u.reloads
  OBVIOUS
<1>10. PICK s : s = [u.ses EXCEPT !.deque = a.deque, !.loaded = TRUE, !.snap = snap, !.page = page, !.paused = FALSE]
  OBVIOUS
<1>11. PICK t : t = [s EXCEPT !.win = w, !.shown = @ \cup Range(Visible(w))]
  OBVIOUS
<1>12. PageTaken(u.ses, a, w, snap, page, t)
  <2>1. /\ DOMAIN s = SesFields /\ s.open = u.ses.open /\ s.loaded = TRUE /\ s.deque = a.deque /\ s.snap = snap
        /\ s.page = page /\ s.prefer = u.ses.prefer /\ s.loading = u.ses.loading /\ s.paused = FALSE
        /\ s.shown = u.ses.shown
    BY <1>2, <1>10 DEF SesTyped, SesFields
  <2>2. /\ DOMAIN t = SesFields /\ t.open = s.open /\ t.loaded = s.loaded /\ t.deque = s.deque /\ t.snap = s.snap
        /\ t.page = s.page /\ t.prefer = s.prefer /\ t.loading = s.loading /\ t.paused = s.paused
        /\ t.win = w /\ t.shown = s.shown \cup Range(Visible(w))
    BY <1>11, <2>1 DEF SesFields
  <2> QED
    BY <1>2, <2>1, <2>2 DEF PageTaken, SesTyped
<1>13. PICK m : m = [u EXCEPT !.ses = t, !.reloads = n, !.due = @ \cup {"window"},
                              !.timer = IF @ = "live" THEN "stale" ELSE @, !.marker = "none"]
  OBVIOUS
<1>14. r = GoOn(EndRequest(m))
  <2>1. PICK v : v = [u EXCEPT !.ses = s, !.reloads = n]
    OBVIOUS
  <2>2. v = [u EXCEPT !.ses.deque = a.deque, !.ses.loaded = TRUE, !.ses.snap = snap, !.ses.page = page,
                      !.ses.paused = FALSE, !.reloads = n]
    BY <1>10, <2>1
  <2>3. r = GoOn(EndRequest(Commit(v, w)))
    <3>1. [u EXCEPT !.ses.deque = Admitted(u).deque, !.ses.loaded = TRUE,
                    !.ses.snap = u.req.reply.snap, !.ses.page = QueryPage(u), !.ses.paused = FALSE,
                    !.reloads = IF u.req.cause = "reload" THEN 0 ELSE @] = v
      BY <1>3, <1>6, <1>8, <1>9, <2>2
    <3> QED
      BY <1>4, <3>1, Zenon DEF PageIsAdmitted
  <2>4. Commit(v, w) = m
    <3>1. DOMAIN u = Fields
      BY <1>1 DEF Typed
    <3>2. DOMAIN v = Fields /\ v.ses = s /\ v.due = u.due /\ v.timer = u.timer
      BY <2>1, <3>1 DEF Fields
    <3>3. Commit(v, w) = [v EXCEPT !.ses = t, !.due = @ \cup {"window"},
                                   !.timer = IF @ = "live" THEN "stale" ELSE @, !.marker = "none"]
      BY <1>11, <3>2 DEF Commit
    <3>4. PICK x : x = Commit(v, w)
      OBVIOUS
    <3>5. PICK y : y = IF u.timer = "live" THEN "stale" ELSE u.timer
      OBVIOUS
    <3>6. x = [v EXCEPT !.ses = t, !.due = u.due \cup {"window"}, !.timer = y, !.marker = "none"]
      BY <3>2, <3>3, <3>4, <3>5 DEF Fields
    <3>7. m = [u EXCEPT !.ses = t, !.reloads = n, !.due = u.due \cup {"window"}, !.timer = y, !.marker = "none"]
      BY <1>13, <3>1, <3>5 DEF Fields
    <3>8. x = m
      BY <2>1, <3>1, <3>6, <3>7 DEF Fields
    <3> QED
      BY <3>4, <3>8
  <2> QED
    BY <2>3, <2>4
<1>15. /\ m.ses = t /\ m.req = u.req /\ m.turn = u.turn /\ m.marker = "none" /\ m.due = u.due \cup {"window"}
       /\ m.mode = u.mode /\ m.kept = u.kept /\ m.interactive = u.interactive /\ m.shown = u.shown
       /\ Typed(b, m)
  BY <1>1, <1>13 DEF Typed, Fields
<1>16. SesSound(b, t)
  BY <1>2, <1>5, <1>7, <1>8, <1>12, TakenSound
<1>17. /\ t.open = TRUE /\ t.loaded = TRUE /\ t.deque = a.deque /\ t.win = w
       /\ u.ses.win.active # 0 => /\ a.deque # <<>> /\ w.active # 0
                                  /\ w.cache[w.active] = u.ses.win.cache[u.ses.win.active]
                                  /\ w.visible = u.ses.win.visible
  BY <1>5, <1>12 DEF PageTaken, Grows
<1>18. TurnSound(m)
  <2> SUFFICES ASSUME u.turn # NoTurn PROVE TurnSound(m)
    BY <1>15 DEF TurnSound
  <2>1. /\ DOMAIN u.turn = TurnFields
        /\ u.turn.dir \in Dirs /\ u.turn.stride \in Nat \ {0} /\ u.turn.tries \in Nat /\ u.turn.live \in BOOLEAN
        /\ u.ses.loaded /\ u.ses.deque # <<>> /\ u.turn.stride <= u.ses.win.visible
        /\ u.shown.bundles # <<>>
        /\ u.shown.bundles[Len(u.shown.bundles)] = u.ses.win.cache[u.ses.win.active]
    BY <1>1 DEF TurnSound
  <2>2. u.ses.win.active # 0 /\ m.ses # NoSession
    BY <1>5, <1>15, <1>16, <2>1, OpenIs
  <2> QED
    BY <1>15, <1>17, <2>1, <2>2 DEF TurnSound
<1>19. MarkSound(m)
  BY <1>15 DEF MarkSound
<1>20. Ready(b, m, r)
  <2>1. m.turn # NoTurn => m.interactive
    BY <1>1, <1>15 DEF Waiting
  <2>2. SesSound(b, m.ses) /\ KeptSound(b, m.kept) /\ Typed(b, m)
    BY <1>1, <1>15, <1>16
  <2> QED
    BY <1>14, <1>18, <1>19, <2>1, <2>2, EndGoOnReady
<1>21. PageSound(b, r)
  <2>1. "window" \in r.due /\ r.mode = "exploration"
    BY <1>1, <1>15, <1>20 DEF Ready
  <2>2. ShownSound(r)
    BY <2>1 DEF ShownSound
  <2> QED
    BY <1>20, <2>1, <2>2 DEF Ready, PageSound
<1>22. Focus(m) = Focus(u) \/ Focus(u) = <<>>
  <2>1. u.ses.open = TRUE
    BY <1>2 DEF SesTyped
  <2> QED
    BY <1>15, <1>17, <2>1 DEF Focus
<1>23. Moves(u, r)
  <2>1. u.turn # NoTurn => u.marker = "none"
    BY <1>1 DEF TurnSound
  <2> QED
    BY <1>15, <1>20, <1>22, <2>1 DEF Ready, Moves
<1> QED
  BY <1>21, <1>23 DEF Good

LEMMA ArrivesGood ==
  ASSUME TimelineInv, NEW b \in Scenarios, b = world.bound, PageArrives
  PROVE  Good(b, u, u')
<1>1. PageSound(b, u) /\ u.req # NoRequest /\ u.req.reply.kind = "page"
  BY DEF TimelineInv, PageArrives
<1>2. \/ u' = PageIsRefused(u)
      \/ ~LosesFocus(Synced(u)) /\ u' = PageIsAdmitted(u)
  BY DEF PageArrives
<1> QED
  BY <1>1, <1>2, RefusedGood, AdmittedGood

\* A page with a session that was just opened.
LEMMA FreshPage ==
  ASSUME NEW b \in Scenarios, NEW v, Typed(b, v), KeptSound(b, v.kept), v.req = NoRequest, v.turn = NoTurn,
         v.marker = "none", v.mode = "exploration", "window" \in v.due, SesSound(b, v.ses), ~v.ses.loading,
         v.ses.win.active = 0
  PROVE  PageSound(b, v) /\ Focus(v) = <<>> /\ v.ses # NoSession
<1>1. v.ses # NoSession
  BY OpenIs
<1>2. Sound(b, v)
  BY <1>1 DEF Sound
<1>3. TurnSound(v) /\ Short(v) /\ Waiting(v) /\ MarkSound(v) /\ ShownSound(v)
  BY DEF TurnSound, Short, Waiting, MarkSound, ShownSound
<1> QED
  BY <1>1, <1>2, <1>3 DEF PageSound, Focus

LEMMA NothingKeptIs ==
  ASSUME NEW b
  PROVE  KeptSound(b, NothingKept)
BY DEF KeptSound, NothingKept

\* A request begins on a page where none is under way.
LEMMA LoadGood ==
  ASSUME NEW b \in Scenarios, b = world.bound, NEW v, PageSound(b, v), v.ses # NoSession, v.req = NoRequest,
         NEW cause, NEW dir \in Dirs, IF v.ses.loaded THEN EdgeOpen(v, dir) ELSE dir = "older",
         NEW r, r = BeginLoad(v, cause, dir)
  PROVE  Good(b, v, r) /\ Still(v, r)
<1>1. /\ Typed(b, v) /\ KeptSound(b, v.kept) /\ TurnSound(v) /\ Waiting(v) /\ MarkSound(v) /\ ShownSound(v)
      /\ SesSound(b, v.ses) /\ v.mode = "exploration"
  BY PageParts
<1>2. v.turn = NoTurn
  BY <1>1 DEF Waiting
<1>3. /\ Mild(b, v, r) /\ r.req # NoRequest /\ Asked(b, v.ses, r.req) /\ r.ses.loading
      /\ r.turn = v.turn /\ r.marker = v.marker
  BY <1>1, BeginLoadMild
<1>4. TurnSound(r) /\ Short(r) /\ Waiting(r)
  BY <1>2, <1>3 DEF TurnSound, Short, Waiting
<1>5. MarkSound(r)
  BY <1>1, <1>3, EndMark
<1>6. (r.req # NoRequest => Asked(b, v.ses, r.req)) /\ (r.ses.loading <=> r.req # NoRequest)
  BY <1>3
<1>7. Ready(b, v, r)
  BY <1>1, <1>3, <1>4, <1>5, <1>6, MildReady
<1>8. Focus(r) = Focus(v)
  BY <1>3, SameFocus DEF Mild
<1> QED
  BY <1>1, <1>3, <1>7, <1>8, ReadyGood DEF Still

\* The server's timeline is another one: a new session.
LEMMA ChangedGood ==
  ASSUME TimelineInv, NEW b \in Scenarios, b = world.bound, SnapshotChanged
  PROVE  Good(b, u, u')
<1>0. PageSound(b, u) /\ u.req # NoRequest
  BY DEF TimelineInv, SnapshotChanged
<1>1. Typed(b, u) /\ KeptSound(b, u.kept) /\ TurnSound(u) /\ u.mode = "exploration"
  BY <1>0, PageParts
<1>2. PICK l : l = LeaveSession(u)
  OBVIOUS
<1>3. /\ Typed(b, l) /\ l.req = NoRequest /\ l.turn = NoTurn /\ l.marker = "none"
      /\ l.mode = u.mode /\ l.kept = u.kept /\ l.cfg = u.cfg /\ "window" \in l.due
  BY <1>1, <1>2, LeaveIs DEF TurnSound
<1>4. PICK s : s = EmptySession(Config(u))
  OBVIOUS
<1>5. SesSound(b, s) /\ ~s.loading /\ s.win.active = 0
  BY <1>1, <1>4, FreshIs
<1>6. PICK n : n = u.reloads + 1
  OBVIOUS
<1>7. PICK o : o = IF u.reloads = 0 THEN "on" ELSE "off"
  OBVIOUS
<1>8. u' = [l EXCEPT !.ses = s, !.reloads = n, !.reload = o]
  BY <1>2, <1>4, <1>6, <1>7 DEF SnapshotChanged
<1>9. /\ Typed(b, u') /\ u'.ses = s /\ u'.req = NoRequest /\ u'.turn = NoTurn /\ u'.marker = "none"
      /\ u'.mode = "exploration" /\ u'.kept = u.kept /\ "window" \in u'.due
  BY <1>1, <1>3, <1>8 DEF Typed, Fields
<1>10. PageSound(b, u') /\ Focus(u') = <<>>
  <2>1. PICK v : v = u'
    OBVIOUS
  <2>2. PageSound(b, v) /\ Focus(v) = <<>>
    BY <1>1, <1>5, <1>9, <2>1, FreshPage
  <2> QED
    BY <2>1, <2>2
<1> QED
  BY <1>10 DEF Good, Moves

\* The one attempt to fill it.
LEMMA ReloadGood ==
  ASSUME TimelineInv, NEW b \in Scenarios, b = world.bound, ReloadTimer
  PROVE  Good(b, u, u')
<1>0. PageSound(b, u) /\ Typed(b, u)
  BY PageParts DEF TimelineInv
<1>1. PICK f : f = [u EXCEPT !.reload = "off"]
  OBVIOUS
<1>2. u' = IF MayLoad(f, "source-entry", "older") /\ ~u.ses.loaded THEN BeginLoad(f, "reload", "older") ELSE f
  BY <1>1 DEF ReloadTimer
<1>3. Typed(b, f) /\ Untouched(u, f)
  BY <1>0, <1>1 DEF Typed, Fields, Untouched
<1>4. PageSound(b, f) /\ Still(u, f) /\ Good(b, u, f)
  BY <1>0, <1>3, SamePage
<1>5. CASE ~(MayLoad(f, "source-entry", "older") /\ ~u.ses.loaded)
  BY <1>2, <1>4, <1>5
<1>6. CASE MayLoad(f, "source-entry", "older") /\ ~u.ses.loaded
  <2>1. f.ses # NoSession /\ f.req = NoRequest /\ (IF f.ses.loaded THEN EdgeOpen(f, "older") ELSE "older" = "older")
    BY <1>4, <1>6, PageParts DEF MayLoad
  <2>2. u' = BeginLoad(f, "reload", "older")
    BY <1>2, <1>6
  <2>3. Good(b, f, u')
    BY <1>4, <2>1, <2>2, LoadGood DEF Dirs
  <2> QED
    BY <1>4, <2>3, MovesOn
<1> QED
  BY <1>5, <1>6

\* A source is opened.
LEMMA ActivateGood ==
  ASSUME TimelineInv, NEW b \in Scenarios, b = world.bound, ActivateSource
  PROVE  Good(b, u, u')
<1>0. PageSound(b, u)
  BY DEF TimelineInv
<1>1. Typed(b, u) /\ TurnSound(u)
  BY <1>0, PageParts
<1>2. PICK l : l = LeaveSession(u)
  OBVIOUS
<1>3. /\ Typed(b, l) /\ l.req = NoRequest /\ l.turn = NoTurn /\ l.marker = "none"
      /\ l.cfg = u.cfg /\ "window" \in l.due
  BY <1>1, <1>2, LeaveIs DEF TurnSound
<1>4. PICK s : s = EmptySession(Config(u))
  OBVIOUS
<1>5. SesSound(b, s) /\ s # NoSession /\ ~s.loading /\ ~s.loaded /\ s.win.active = 0
  BY <1>1, <1>4, FreshIs
<1>6. PICK f : f = [l EXCEPT !.kept = NothingKept, !.mode = "exploration", !.nav = "origin", !.ses = s]
  OBVIOUS
<1>7. u' = BeginLoad(f, "source-entry", "older")
  BY <1>2, <1>4, <1>6 DEF ActivateSource
<1>8. /\ Typed(b, f) /\ f.ses = s /\ f.req = NoRequest /\ f.turn = NoTurn /\ f.marker = "none"
      /\ f.mode = "exploration" /\ f.kept = NothingKept /\ "window" \in f.due
  BY <1>3, <1>6 DEF Typed, Fields
<1>9. PageSound(b, f) /\ Focus(f) = <<>>
  BY <1>5, <1>8, FreshPage, NothingKeptIs
<1>10. Good(b, f, u') /\ Still(f, u')
  BY <1>5, <1>7, <1>8, <1>9, LoadGood DEF Dirs
<1> QED
  BY <1>9, <1>10 DEF Good, Still, Moves

\* What changes nothing the invariant speaks of.
LEMMA AsideGood ==
  ASSUME TimelineInv, NEW b \in Scenarios, b = world.bound,
         \/ TimelineChanges \/ Dive \/ TogglePlayback \/ ToggleOrder \/ Unlock \/ ChangeFilter \/ ChangeSettings
  PROVE  Good(b, u, u')
<1>0. PageSound(b, u) /\ Typed(b, u)
  BY PageParts DEF TimelineInv
<1> SUFFICES ASSUME NEW r, r = u' PROVE Typed(b, r) /\ Untouched(u, r)
  BY <1>0, SamePage
<1>1. CASE TimelineChanges
  <2>1. r = u
    BY <1>1 DEF TimelineChanges
  <2> QED
    BY <1>0, <2>1 DEF Untouched
<1>2. CASE Dive
  <2>1. r = [u EXCEPT !.nav = "away"]
    BY <1>2 DEF Dive
  <2> QED
    BY <1>0, <2>1 DEF Untouched, Typed, Fields
<1>3. CASE TogglePlayback
  <2>1. r = [u EXCEPT !.playing = ~@, !.locked = @ /\ u.playing]
    BY <1>3 DEF TogglePlayback
  <2>2. PICK p \in BOOLEAN, q \in BOOLEAN : p = ~u.playing /\ q = (u.locked /\ u.playing)
    OBVIOUS
  <2>3. r = [u EXCEPT !.playing = p, !.locked = q]
    BY <2>1, <2>2
  <2> QED
    BY <1>0, <2>2, <2>3 DEF Untouched, Typed, Fields
<1>4. CASE ToggleOrder
  <2>1. r = [u EXCEPT !.playing = FALSE, !.order = IF @ = "reverse" THEN "chronological" ELSE "reverse"]
    BY <1>4 DEF ToggleOrder
  <2> QED
    BY <1>0, <2>1 DEF Untouched, Typed, Fields
<1>5. CASE Unlock
  <2>1. r = [u EXCEPT !.locked = FALSE, !.due = @ \cup {"prefetch"}]
    BY <1>5 DEF Unlock
  <2> QED
    BY <1>0, <2>1 DEF Untouched, Typed, Fields
<1>6. CASE ChangeFilter
  <2>1. r = [u EXCEPT !.due = @ \cup {"filter", "prefetch"}]
    BY <1>6 DEF ChangeFilter
  <2> QED
    BY <1>0, <2>1 DEF Untouched, Typed, Fields
<1>7. CASE ChangeSettings
  <2>1. u.cfg < Len(b.settings) /\ r = [u EXCEPT !.cfg = @ + 1, !.due = @ \cup {"window", "prefetch"}]
    BY <1>7 DEF ChangeSettings
  <2>2. u.cfg \in DOMAIN b.settings /\ b.settings \in Seq(Preferences)
    BY <1>0, TimelineAssumption DEF Typed
  <2>3. PICK n : n = u.cfg + 1
    OBVIOUS
  <2>4. n \in DOMAIN b.settings
    BY <2>1, <2>2, <2>3
  <2>5. r = [u EXCEPT !.cfg = n, !.due = @ \cup {"window", "prefetch"}]
    BY <2>1, <2>3
  <2> QED
    BY <1>0, <2>4, <2>5 DEF Untouched, Typed, Fields
<1> QED
  BY <1>1, <1>2, <1>3, <1>4, <1>5, <1>6, <1>7

\* An entrance or a turn is over: the window is settled.
LEMMA OverGood ==
  ASSUME TimelineInv, NEW b \in Scenarios, b = world.bound, SceneFinishes \/ SettleTimer
  PROVE  Good(b, u, u')
<1>0. PageSound(b, u) /\ Typed(b, u)
  BY PageParts DEF TimelineInv
<1> DEFINE Fires(f) == Typed(b, f) /\ Untouched(u, f) /\ u' \in {f, CommitSettled(f)} /\ (u' # f => f.ses.open)
<1>1. ASSUME SceneFinishes PROVE \E f : Fires(f)
  <2>1. PICK i : i = [u EXCEPT !.scene = "idle"]
    OBVIOUS
  <2>2. PICK f : f = [i EXCEPT !.timer = "off"]
    OBVIOUS
  <2>3. u' = IF u.ses.open /\ u.ses.win.phase = "transitioning" THEN CommitSettled(f) ELSE i
    BY <1>1, <2>1, <2>2 DEF SceneFinishes
  <2>4. Typed(b, i) /\ Untouched(u, i) /\ Typed(b, f) /\ Untouched(u, f) /\ f.ses = u.ses
    BY <1>0, <2>1, <2>2 DEF Typed, Fields, Untouched
  <2>5. Fires(i) \/ Fires(f)
    BY <2>3, <2>4
  <2> HIDE DEF Fires
  <2> QED
    BY <2>5, Zenon
<1>2. ASSUME SettleTimer PROVE \E f : Fires(f)
  <2>1. PICK f : f = [u EXCEPT !.timer = "off"]
    OBVIOUS
  <2>2. u' = IF u.timer = "live" /\ u.ses.open THEN CommitSettled(f) ELSE f
    BY <1>2, <2>1 DEF SettleTimer
  <2>3. Typed(b, f) /\ Untouched(u, f) /\ f.ses = u.ses
    BY <1>0, <2>1 DEF Typed, Fields, Untouched
  <2>4. Fires(f)
    BY <2>2, <2>3
  <2> HIDE DEF Fires
  <2> QED
    BY <2>4, Zenon
<1>3. PICK f : Fires(f)
  <2> HIDE DEF Fires
  <2>1. \E f : Fires(f)
    BY <1>1, <1>2, Zenon
  <2> QED
    BY <2>1
<1>4. PageSound(b, f) /\ Still(u, f) /\ Good(b, u, f)
  BY <1>0, <1>3, SamePage
<1>5. CASE u' = f
  BY <1>4, <1>5
<1>6. CASE u' # f
  <2>1. f.ses # NoSession /\ u' = CommitSettled(f)
    BY <1>3, <1>4, <1>6, PageParts
  <2>2. Good(b, f, u')
    BY <1>4, <2>1, SettledPage
  <2> QED
    BY <1>4, <2>2, MovesOn
<1> QED
  BY <1>5, <1>6

\* The page under way is given up, if there is one.
LEMMA AbortGood ==
  ASSUME NEW b \in Scenarios, b = world.bound, NEW v, PageSound(b, v), v.ses # NoSession, NEW r, r = Abort(v)
  PROVE  Good(b, v, r)
<1>1. /\ Sound(b, v) /\ TurnSound(v) /\ Short(v) /\ Waiting(v) /\ MarkSound(v) /\ ShownSound(v)
      /\ v.mode = "exploration"
  BY PageParts
<1>2. Ready(b, v, r)
  BY <1>1, AbortReady DEF Waiting
<1> QED
  BY <1>1, <1>2, ReadyGood

LEMMA LockGood ==
  ASSUME TimelineInv, NEW b \in Scenarios, b = world.bound, Lock
  PROVE  Good(b, u, u')
<1>0. PageSound(b, u) /\ Typed(b, u)
  BY PageParts DEF TimelineInv
<1>1. PICK h : h = [u EXCEPT !.locked = TRUE, !.playing = FALSE, !.due = @ \cup {"prefetch"}]
  OBVIOUS
<1>2. u' = IF Entry(u.req) THEN h ELSE Abort(h)
  BY <1>1 DEF Lock
<1>3. Typed(b, h) /\ Untouched(u, h) /\ h.ses = u.ses
  BY <1>0, <1>1 DEF Typed, Fields, Untouched
<1>4. PageSound(b, h) /\ Still(u, h) /\ Good(b, u, h)
  BY <1>0, <1>3, SamePage
<1>5. h.ses # NoSession
  BY <1>0, <1>3, PageParts DEF Lock, JourneyEnabled
<1>6. CASE Entry(u.req)
  BY <1>2, <1>4, <1>6
<1>7. CASE ~Entry(u.req)
  <2>1. Good(b, h, u')
    BY <1>2, <1>4, <1>5, <1>7, AbortGood
  <2> QED
    BY <1>4, <2>1, MovesOn
<1> QED
  BY <1>6, <1>7

LEMMA OriginGood ==
  ASSUME TimelineInv, NEW b \in Scenarios, b = world.bound, ReturnToOrigin
  PROVE  Good(b, u, u')
<1>0. PageSound(b, u) /\ Typed(b, u)
  BY PageParts DEF TimelineInv
<1>1. PICK h : h = [u EXCEPT !.playing = FALSE, !.locked = FALSE, !.due = @ \cup {"prefetch"}]
  OBVIOUS
<1>2. PICK f : f = IF Entry(u.req) THEN h ELSE Abort(h)
  OBVIOUS
<1>3. PICK o : o = [f EXCEPT !.timer = "off", !.cuts = TRUE]
  OBVIOUS
<1>4. u' = IF u.nav = "origin" \/ u.shown.bundles = <<>> THEN o ELSE [CancelTransition(o) EXCEPT !.nav = "origin"]
  BY <1>1, <1>2, <1>3 DEF ReturnToOrigin
<1>5. Typed(b, h) /\ Untouched(u, h) /\ h.ses = u.ses
  BY <1>0, <1>1 DEF Typed, Fields, Untouched
<1>6. PageSound(b, h) /\ Still(u, h) /\ Good(b, u, h)
  BY <1>0, <1>5, SamePage
<1>7. h.ses # NoSession
  BY <1>0, <1>5, PageParts DEF ReturnToOrigin
<1>8. Good(b, u, f)
  <2>1. CASE Entry(u.req)
    BY <1>2, <1>6, <2>1
  <2>2. CASE ~Entry(u.req)
    <3>1. Good(b, h, f)
      BY <1>2, <1>6, <1>7, <2>2, AbortGood
    <3> QED
      BY <1>6, <3>1, MovesOn
  <2> QED
    BY <2>1, <2>2
<1>9. PageSound(b, f) /\ Typed(b, f)
  BY <1>8, PageParts DEF Good
<1>10. Typed(b, o) /\ Untouched(f, o)
  BY <1>3, <1>9 DEF Typed, Fields, Untouched
<1>11. PageSound(b, o) /\ Still(f, o)
  BY <1>9, <1>10, SamePage
<1>12. Good(b, u, o)
  BY <1>8, <1>11, GoodStill
<1>13. CASE u' = o
  BY <1>12, <1>13
<1>14. CASE u' = [CancelTransition(o) EXCEPT !.nav = "origin"]
  <2>1. PICK c : c = CancelTransition(o)
    OBVIOUS
  <2>2. PageSound(b, c) /\ Still(o, c)
    BY <1>11, <2>1, CancelPage
  <2>3. Good(b, u, c)
    BY <1>12, <2>2, GoodStill
  <2>4. Typed(b, c)
    BY <2>2, PageParts
  <2>5. Typed(b, u') /\ Untouched(c, u')
    BY <1>14, <2>1, <2>4 DEF Typed, Fields, Untouched
  <2>6. PageSound(b, u') /\ Still(c, u')
    <3>1. PICK r : r = u'
      OBVIOUS
    <3>2. PageSound(b, r) /\ Still(c, r)
      BY <2>2, <2>5, <3>1, SamePage
    <3> QED
      BY <3>1, <3>2
  <2> QED
    BY <2>3, <2>6, GoodStill
<1> QED
  BY <1>4, <1>13, <1>14

\* The reader goes home, or the manifest names a new version.
LEMMA HomeGood ==
  ASSUME TimelineInv, NEW b \in Scenarios, b = world.bound, Home
  PROVE  Good(b, u, u')
<1>0. PageSound(b, u) /\ Typed(b, u) /\ TurnSound(u)
  BY PageParts DEF TimelineInv
<1>1. PICK v : v = [u EXCEPT !.playing = FALSE]
  OBVIOUS
<1>2. Typed(b, v) /\ v.turn = u.turn
  BY <1>0, <1>1 DEF Typed, Fields
<1>3. PICK l : l = LeaveSession(v)
  OBVIOUS
<1>4. /\ Typed(b, l) /\ l.ses = NoSession /\ l.req = NoRequest /\ l.turn = NoTurn /\ l.marker = "none"
  BY <1>0, <1>2, <1>3, LeaveIs DEF TurnSound
<1>5. PICK h : h = [l EXCEPT !.kept = NothingKept, !.mode = "home", !.nav = "origin"]
  OBVIOUS
<1>6. h = ResetScene(v)
  BY <1>3, <1>5 DEF ResetScene
<1>7. /\ Typed(b, h) /\ h.ses = NoSession /\ h.req = NoRequest /\ h.turn = NoTurn /\ h.marker = "none"
      /\ h.mode = "home" /\ h.kept = NothingKept
  BY <1>4, <1>5 DEF Typed, Fields
<1>8. u' = CancelTransition(h)
  BY <1>1, <1>6 DEF Home
<1>9. PageSound(b, h) /\ Focus(h) = <<>>
  BY <1>7, AwaySound, NoFocus, NothingKeptIs
<1>10. PageSound(b, u') /\ Still(h, u')
  BY <1>8, <1>9, CancelPage
<1> QED
  BY <1>9, <1>10 DEF Good, Still, Moves

\* What a page turn starts from.
Begun(v, dir, by) ==
  [v EXCEPT !.nav = "away", !.scene = "awaiting-result", !.ses.prefer = dir,
            !.turn = [dir |-> dir, stride |-> Stride(v), tries |-> 0, live |-> TRUE, by |-> by]]
LEMMA TurnBegins ==
  ASSUME NEW b \in Scenarios, b = world.bound, NEW v, PageSound(b, v), v.due = {}, v.interactive, v.turn = NoTurn,
         v.ses # NoSession, v.ses.win.cache # <<>>, NEW dir \in Dirs, NEW by, NEW t, t = Begun(v, dir, by)
  PROVE  /\ Sound(b, t) /\ t.ses # NoSession /\ TurnSound(t) /\ MarkSound(t) /\ ShownSound(t)
         /\ t.interactive /\ t.mode = "exploration" /\ Still(v, t)
<1>1. /\ Typed(b, v) /\ KeptSound(b, v.kept) /\ MarkSound(v) /\ ShownSound(v)
      /\ v.mode = "exploration" /\ SesSound(b, v.ses)
      /\ v.req # NoRequest => Asked(b, v.ses, v.req)
      /\ v.ses.loading = (v.req # NoRequest)
  BY PageParts
<1>2. SesTyped(v.ses) /\ WinTyped(v.ses.win) /\ v.ses.page \in {0} \cup PageSizes(b)
  BY <1>1, OpenIs DEF SesSound
<1>3. v.marker = "none"
  BY <1>1 DEF MarkSound, Typed
<1>4. PICK n : n = Stride(v)
  OBVIOUS
<1>5. n \in Nat \ {0} /\ n <= v.ses.win.visible
  <2>1. PICK p \in Nat \ {0} : p = QueryPage(v)
    BY <1>1, <1>2, QueryPageIs
  <2>2. PICK m \in Nat \ {0} : m = v.ses.win.visible
    BY <1>2 DEF WinTyped
  <2>3. n = Least(p, m)
    BY <1>4, <2>1, <2>2 DEF Stride
  <2>4. n \in Nat \ {0} /\ n <= m
    BY <2>3 DEF Least
  <2> QED
    BY <2>2, <2>4
<1>6. PICK x : x = [dir |-> dir, stride |-> n, tries |-> 0, live |-> TRUE, by |-> by]
  OBVIOUS
<1>7. /\ DOMAIN x = TurnFields /\ x.dir = dir /\ x.stride = n /\ x.tries = 0 /\ x.live = TRUE
  BY <1>6 DEF TurnFields
<1>8. PICK s : s = [v.ses EXCEPT !.prefer = dir]
  OBVIOUS
<1>9. SameSes(v.ses, s) /\ s.loading = v.ses.loading
  <2>1. SameWin(v.ses.win, v.ses.win)
    BY <1>2, SameWinRefl
  <2>2. DOMAIN v.ses = SesFields
    BY <1>2 DEF SesTyped
  <2>3. /\ DOMAIN s = SesFields /\ s.open = v.ses.open /\ s.loaded = v.ses.loaded /\ s.deque = v.ses.deque
        /\ s.snap = v.ses.snap /\ s.page = v.ses.page /\ s.prefer = dir /\ s.loading = v.ses.loading
        /\ s.paused = v.ses.paused /\ s.win = v.ses.win /\ s.shown = v.ses.shown
    BY <1>8, <2>2 DEF SesFields
  <2> QED
    BY <1>2, <2>1, <2>3 DEF SameSes, SesTyped
<1>10. t = [v EXCEPT !.nav = "away", !.scene = "awaiting-result", !.ses = s, !.turn = x]
  BY <1>4, <1>6, <1>8 DEF Begun
<1>11. /\ Typed(b, t) /\ t.ses = s /\ t.mode = v.mode /\ t.kept = v.kept /\ t.interactive = v.interactive
       /\ t.cfg = v.cfg /\ t.shown = v.shown /\ t.due = v.due /\ t.marker = v.marker /\ t.turn = x
       /\ t.req = v.req
  <2>1. DOMAIN v = Fields
    BY <1>1, Zenon DEF Typed
  <2>2. /\ DOMAIN t = Fields /\ t.ses = s /\ t.mode = v.mode /\ t.kept = v.kept /\ t.interactive = v.interactive
        /\ t.cfg = v.cfg /\ t.shown = v.shown /\ t.due = v.due /\ t.marker = v.marker /\ t.turn = x
        /\ t.req = v.req /\ t.timer = v.timer /\ t.locked = v.locked /\ t.playing = v.playing
        /\ t.scene = "awaiting-result"
    BY <1>10, <2>1 DEF Fields
  <2> QED
    BY <1>1, <2>2 DEF Typed
<1>12. Mild(b, v, t)
  BY <1>9, <1>11 DEF Mild
<1>13. Sound(b, t)
  <2>1. t.req # NoRequest => Asked(b, v.ses, t.req)
    BY <1>1, <1>11
  <2>2. t.ses.loading <=> t.req # NoRequest
    BY <1>1, <1>9, <1>11
  <2> QED
    BY <1>1, <1>12, <2>1, <2>2, MildSound
<1>14. SesSound(b, s) /\ s # NoSession
  BY <1>1, <1>9, SameSesSound
<1>15. /\ Visible(s.win) = Visible(v.ses.win) /\ s.win.cache = v.ses.win.cache
       /\ s.win.active = v.ses.win.active /\ s.win.visible = v.ses.win.visible
       /\ s.loaded = v.ses.loaded /\ s.deque = v.ses.deque
  BY <1>9 DEF SameSes, SameWin
<1>16. v.ses.loaded /\ Filled(b, v.ses)
  BY <1>1 DEF SesSound, Blank
<1>17. PICK T \in Int : T = Total(b, v.ses.snap)
  BY <1>2, TotalIs DEF SesTyped
<1>18. Slice(v.ses.deque, T) /\ Lies(v.ses.win, v.ses.deque)
  BY <1>16, <1>17 DEF Filled
<1>19. PICK d : d = v.ses.deque
  OBVIOUS
<1>20. PICK w : w = v.ses.win
  OBVIOUS
<1>21. d # <<>>
  <2>1. Slice(d, T) /\ WinTyped(w) /\ Lies(w, d) /\ w.cache # <<>>
    BY <1>2, <1>18, <1>19, <1>20
  <2> QED
    BY <2>1, CacheOf
<1>22. Visible(w) # <<>> /\ Visible(w)[Len(Visible(w))] = w.cache[w.active]
  <2>1. Slice(d, T) /\ WinTyped(w) /\ Lies(w, d)
    BY <1>2, <1>18, <1>19, <1>20
  <2> QED
    BY <1>21, <2>1, VisibleOf
<1>23. v.shown.bundles = Visible(w)
  BY <1>1, <1>20 DEF ShownSound
<1>24. TurnSound(t)
  <2>1. t.shown.bundles # <<>> /\ t.shown.bundles[Len(t.shown.bundles)] = t.ses.win.cache[t.ses.win.active]
    BY <1>11, <1>15, <1>20, <1>22, <1>23
  <2>2. t.ses # NoSession /\ t.ses.loaded /\ t.ses.deque # <<>> /\ t.turn.stride <= t.ses.win.visible
    BY <1>5, <1>7, <1>11, <1>14, <1>15, <1>16, <1>19, <1>21
  <2>3. /\ DOMAIN t.turn = TurnFields /\ t.turn.dir \in Dirs /\ t.turn.stride \in Nat \ {0} /\ t.turn.tries \in Nat
        /\ t.turn.live \in BOOLEAN
    <3>1. x.live \in BOOLEAN
      BY <1>7
    <3>2. x.tries \in Nat /\ x.stride \in Nat \ {0}
      BY <1>5, <1>7
    <3>3. DOMAIN x = TurnFields /\ x.dir \in Dirs
      BY <1>7
    <3>4. t.turn = x
      BY <1>11
    <3> QED
      BY <3>1, <3>2, <3>3, <3>4
  <2>4. t.marker = "none"
    BY <1>3, <1>11
  <2> QED
    BY <2>1, <2>2, <2>3, <2>4 DEF TurnSound
<1>25. MarkSound(t)
  BY <1>3, <1>11 DEF MarkSound
<1>26. ShownSound(t)
  BY <1>11, <1>15, <1>20, <1>23 DEF ShownSound
<1>27. Still(v, t)
  BY <1>9, <1>11, SameFocus DEF Still
<1> QED
  BY <1>1, <1>11, <1>13, <1>14, <1>24, <1>25, <1>26, <1>27

LEMMA TurnedGood ==
  ASSUME NEW b \in Scenarios, b = world.bound, NEW v, PageSound(b, v), v.due = {}, NEW dir \in Dirs, MayMove(v, dir),
         NEW by, NEW r, r = Turned(v, dir, by)
  PROVE  Good(b, v, r)
<1>1. v.interactive /\ v.turn = NoTurn /\ v.ses # NoSession /\ v.ses.win.cache # <<>>
  BY PageParts DEF MayMove, JourneyEnabled, SceneIsBusy
<1>2. PICK t : t = Begun(v, dir, by)
  OBVIOUS
<1>3. /\ Sound(b, t) /\ t.ses # NoSession /\ TurnSound(t) /\ MarkSound(t) /\ ShownSound(t)
      /\ t.interactive /\ t.mode = "exploration" /\ Still(v, t)
  BY <1>1, <1>2, TurnBegins
<1>4. r \in {GoOn(EndRequest(t)), GoOn(t)}
  BY <1>2 DEF Turned, Begun
<1>5. Ready(b, t, r)
  <2>1. CASE r = GoOn(EndRequest(t))
    <3>1. Typed(b, t) /\ SesSound(b, t.ses) /\ KeptSound(b, t.kept)
      BY <1>3, SoundParts
    <3> QED
      BY <1>3, <2>1, <3>1, EndGoOnReady
  <2>2. CASE r = GoOn(t)
    BY <1>3, <2>2, GoOnReady
  <2> QED
    BY <1>4, <2>1, <2>2
<1>6. Good(b, t, r)
  BY <1>3, <1>5, ReadyGood
<1> QED
  BY <1>3, <1>6, MovesOn

\* A page turn of the reader, or of the playback.
LEMMA MoveGood ==
  ASSUME TimelineInv, NEW b \in Scenarios, b = world.bound, (\E dir \in Dirs : MoveTimeline(dir)) \/ PlaybackFires
  PROVE  Good(b, u, u')
<1>0. PageSound(b, u) /\ Typed(b, u) /\ u.due = {}
  BY PageParts DEF TimelineInv, MoveTimeline, PlaybackFires, Quiet
<1>1. PICK f : f = [u EXCEPT !.playing = FALSE]
  OBVIOUS
<1>2. Typed(b, f) /\ Untouched(u, f) /\ f.due = u.due /\ f.ses = u.ses /\ f.interactive = u.interactive
      /\ f.mode = u.mode /\ f.locked = u.locked /\ f.scene = u.scene /\ f.turn = u.turn
  BY <1>0, <1>1 DEF Typed, Fields, Untouched
<1>3. PageSound(b, f) /\ Still(u, f) /\ Good(b, u, f)
  BY <1>0, <1>2, SamePage
<1>4. ASSUME NEW dir \in Dirs, MoveTimeline(dir)
      PROVE  Good(b, u, u')
  <2>1. MayMove(u, dir) /\ u' = Turned(f, dir, "reader")
    BY <1>1, <1>4 DEF MoveTimeline
  <2>2. MayMove(f, dir)
    BY <1>2, <2>1 DEF MayMove, JourneyEnabled, SceneIsBusy, HasNext, HasPrevious
  <2>3. Good(b, f, u')
    BY <1>0, <1>2, <1>3, <2>1, <2>2, TurnedGood
  <2> QED
    BY <1>3, <2>3, MovesOn
<1>5. CASE PlaybackFires
  <2>1. PICK dir \in Dirs : u' = IF MayMove(u, dir) THEN Turned(u, dir, "playback") ELSE f
    BY <1>1, <1>5 DEF PlaybackFires, Dirs
  <2>2. CASE MayMove(u, dir)
    BY <1>0, <2>1, <2>2, TurnedGood
  <2>3. CASE ~MayMove(u, dir)
    BY <1>3, <2>1, <2>3
  <2> QED
    BY <2>2, <2>3
<1> QED
  BY <1>4, <1>5

\* The session is put aside.
LEMMA ContextGood ==
  ASSUME TimelineInv, NEW b \in Scenarios, b = world.bound, EnterContext
  PROVE  Good(b, u, u')
<1>0. PageSound(b, u) /\ Typed(b, u) /\ TurnSound(u)
  BY PageParts DEF TimelineInv
<1>1. PICK v : v = [u EXCEPT !.playing = FALSE]
  OBVIOUS
<1>2. Typed(b, v) /\ v.turn = u.turn
  BY <1>0, <1>1 DEF Typed, Fields
<1>3. PICK l : l = LeaveSession(v)
  OBVIOUS
<1>4. /\ Typed(b, l) /\ l.ses = NoSession /\ l.req = NoRequest /\ l.turn = NoTurn /\ l.marker = "none"
  BY <1>0, <1>2, <1>3, LeaveIs DEF TurnSound
<1>5. PICK c : c = CancelTransition(l)
  OBVIOUS
<1>6. /\ Typed(b, c) /\ c.ses = NoSession /\ c.req = NoRequest /\ c.turn = NoTurn /\ c.marker = "none"
  BY <1>4, <1>5, CancelIs
<1>7. PICK a : a = IF u.ses.open THEN [u.ses EXCEPT !.loading = FALSE, !.win = Settle(@)] ELSE NoSession
  OBVIOUS
<1>8. PICK k : k = [is |-> TRUE, ses |-> a]
  OBVIOUS
<1>9. KeptSound(b, k)
  <2>1. CASE ~u.ses.open
    BY <1>7, <1>8, <2>1 DEF KeptSound
  <2>2. CASE u.ses.open
    <3>1. u.ses # NoSession /\ SesSound(b, u.ses)
      BY <1>0, <2>2, PageParts
    <3>2. SesTyped(u.ses) /\ WinTyped(u.ses.win)
      BY <3>1, OpenIs
    <3>3. PICK w : w = Settle(u.ses.win)
      OBVIOUS
    <3>4. SameWin(u.ses.win, w) /\ w.phase \in {"idle", "complete"}
      BY <3>2, <3>3, SettledWin
    <3>5. a = [u.ses EXCEPT !.loading = FALSE, !.win = w]
      BY <1>7, <2>2, <3>3
    <3>6. DOMAIN u.ses = SesFields
      BY <3>2 DEF SesTyped
    <3>7. /\ DOMAIN a = SesFields /\ a.open = u.ses.open /\ a.loaded = u.ses.loaded /\ a.deque = u.ses.deque
          /\ a.snap = u.ses.snap /\ a.page = u.ses.page /\ a.prefer = u.ses.prefer /\ a.loading = FALSE
          /\ a.paused = u.ses.paused /\ a.win = w /\ a.shown = u.ses.shown
      BY <3>5, <3>6 DEF SesFields
    <3>8. SameSes(u.ses, a)
      BY <3>2, <3>4, <3>7 DEF SameSes, SesTyped
    <3>9. SesSound(b, a)
      BY <3>1, <3>8, SameSesSound
    <3> QED
      BY <1>8, <3>4, <3>7, <3>9 DEF KeptSound
  <2> QED
    BY <2>1, <2>2
<1>10. u' = [c EXCEPT !.kept = k, !.mode = "context", !.nav = "origin"]
  BY <1>1, <1>3, <1>5, <1>7, <1>8 DEF EnterContext
<1>11. PICK r : r = u'
  OBVIOUS
<1>12. /\ Typed(b, r) /\ r.ses = NoSession /\ r.req = NoRequest /\ r.turn = NoTurn /\ r.marker = "none"
       /\ r.mode = "context" /\ r.kept = k
  BY <1>6, <1>10, <1>11 DEF Typed, Fields
<1>13. PageSound(b, r) /\ Focus(r) = <<>>
  BY <1>9, <1>12, AwaySound, NoFocus
<1> QED
  BY <1>11, <1>13 DEF Good, Moves

\* It is taken up again.
LEMMA ResumeGood ==
  ASSUME TimelineInv, NEW b \in Scenarios, b = world.bound, ResumeExploration
  PROVE  Good(b, u, u')
<1>0. PageSound(b, u) /\ u.mode = "context"
  BY DEF TimelineInv, ResumeExploration
<1>1. u.ses = NoSession /\ Typed(b, u) /\ KeptSound(b, u.kept)
  BY <1>0, PageParts
<1>2. u.req = NoRequest /\ u.turn = NoTurn /\ u.marker = "none" /\ Focus(u) = <<>>
  BY <1>0, <1>1, PageParts, NoFocus
<1>3. PICK m : m = IF u.kept.ses.open THEN "exploration" ELSE "home"
  OBVIOUS
<1>4. u' = [u EXCEPT !.ses = u.kept.ses, !.kept = NothingKept, !.mode = m, !.restoring = TRUE, !.nav = "away",
                     !.due = @ \cup {"window", "prefetch"}]
  BY <1>3 DEF ResumeExploration
<1>5. PICK r : r = u'
  OBVIOUS
<1>6. /\ Typed(b, r) /\ r.ses = u.kept.ses /\ r.kept = NothingKept /\ r.mode = m /\ "window" \in r.due
      /\ r.req = NoRequest /\ r.turn = NoTurn /\ r.marker = "none"
  BY <1>1, <1>2, <1>3, <1>4, <1>5 DEF Typed, Fields
<1>7. PageSound(b, r)
  <2>1. CASE u.kept.ses = NoSession
    <3>1. ~u.kept.ses.open
      BY <2>1 DEF NoSession
    <3> QED
      BY <1>3, <1>6, <2>1, <3>1, AwaySound, NothingKeptIs
  <2>2. CASE u.kept.ses # NoSession
    <3>1. SesSound(b, r.ses) /\ ~r.ses.loading
      BY <1>1, <1>6, <2>2 DEF KeptSound
    <3>2. r.ses # NoSession /\ r.ses.open = TRUE
      BY <3>1, OpenIs
    <3>3. r.mode = "exploration"
      BY <1>3, <1>6, <3>2
    <3>4. Sound(b, r)
      BY <1>6, <3>1, <3>2, NothingKeptIs DEF Sound
    <3>5. TurnSound(r) /\ Short(r) /\ Waiting(r) /\ MarkSound(r) /\ ShownSound(r)
      BY <1>6 DEF TurnSound, Short, Waiting, MarkSound, ShownSound
    <3> QED
      BY <3>2, <3>3, <3>4, <3>5 DEF PageSound
  <2> QED
    BY <2>1, <2>2
<1> QED
  BY <1>2, <1>5, <1>7 DEF Good, Moves

\* The universe wakes up: React renders it again.
LEMMA WakeGood ==
  ASSUME TimelineInv, NEW b \in Scenarios, b = world.bound, WakeUp
  PROVE  Good(b, u, u')
<1>0. PageSound(b, u) /\ ~u.interactive
  BY DEF TimelineInv, WakeUp
<1>1. /\ Typed(b, u) /\ KeptSound(b, u.kept) /\ Waiting(u) /\ MarkSound(u) /\ Sound(b, u)
      /\ u.ses # NoSession <=> u.mode = "exploration"
  BY <1>0, PageParts
<1>2. u.turn = NoTurn /\ u.marker = "none"
  BY <1>0, <1>1 DEF Waiting, MarkSound, Typed
<1>3. PICK r : r = u'
  OBVIOUS
<1>4. r = [u EXCEPT !.interactive = TRUE, !.due = @ \cup {"filter", "prefetch"}]
  BY <1>3 DEF WakeUp
<1>5. /\ Typed(b, r) /\ r.ses = u.ses /\ r.kept = u.kept /\ r.req = u.req /\ r.turn = u.turn /\ r.marker = u.marker
      /\ r.mode = u.mode /\ r.due # {}
  BY <1>1, <1>4 DEF Typed, Fields
<1>6. Sound(b, r)
  BY <1>1, <1>5 DEF Sound
<1>7. TurnSound(r) /\ Short(r) /\ Waiting(r) /\ MarkSound(r) /\ ShownSound(r)
  BY <1>2, <1>5 DEF TurnSound, Short, Waiting, MarkSound, ShownSound
<1>8. PageSound(b, r)
  BY <1>1, <1>5, <1>6, <1>7 DEF PageSound
<1>9. Still(u, r)
  BY <1>5 DEF Still, Focus
<1> QED
  BY <1>3, <1>8, <1>9, StillGood

\* The universe is covered while a page turn may wait for its page.
LEMMA CoveredGood ==
  ASSUME NEW b \in Scenarios, b = world.bound, NEW v, PageSound(b, v), NEW e,
         Typed(b, e), e.ses = v.ses, e.kept = v.kept, e.req = v.req, e.turn = v.turn, e.mode = v.mode,
         ~e.interactive, e.marker = "none", e.shown = v.shown, NEW r, r = Abort(CancelTransition(e))
  PROVE  PageSound(b, r) /\ Focus(r) = Focus(v)
<1>1. /\ Typed(b, v) /\ KeptSound(b, v.kept) /\ Sound(b, v) /\ TurnSound(v) /\ Short(v) /\ Waiting(v)
      /\ v.ses = NoSession => v.req = NoRequest /\ v.turn = NoTurn
      /\ v.ses # NoSession <=> v.mode = "exploration"
  BY PageParts
<1>2. PICK c : c = CancelTransition(e)
  OBVIOUS
<1>3. /\ Typed(b, c) /\ c.ses = v.ses /\ c.req = v.req /\ c.marker = "none"
      /\ c.mode = v.mode /\ c.kept = v.kept /\ ~c.interactive /\ c.shown = v.shown
      /\ c.turn = NoTurn <=> v.turn = NoTurn
      /\ v.turn # NoTurn => /\ DOMAIN c.turn = TurnFields /\ c.turn.dir = v.turn.dir
                            /\ c.turn.stride = v.turn.stride /\ c.turn.tries = v.turn.tries
                            /\ c.turn.live \in BOOLEAN
  <2>1. e.turn # NoTurn => DOMAIN e.turn = TurnFields
    BY <1>1 DEF TurnSound
  <2>2. /\ Typed(b, c) /\ c.ses = e.ses /\ c.req = e.req /\ c.marker = e.marker
        /\ c.mode = e.mode /\ c.kept = e.kept /\ c.interactive = e.interactive /\ c.shown = e.shown
        /\ c.turn = NoTurn <=> e.turn = NoTurn
        /\ e.turn # NoTurn => /\ DOMAIN c.turn = TurnFields /\ c.turn.dir = e.turn.dir
                              /\ c.turn.stride = e.turn.stride /\ c.turn.tries = e.turn.tries
                              /\ c.turn.live \in BOOLEAN
    BY <1>2, <2>1, CancelIs
  <2> QED
    BY <2>2
<1>4. Sound(b, c)
  BY <1>1, <1>3 DEF Sound
<1>5. TurnSound(c)
  BY <1>1, <1>3 DEF TurnSound
<1>6. Short(c)
  BY <1>1, <1>3 DEF Short, EdgeOpen
<1>7. MarkSound(c) /\ ShownSound(c)
  BY <1>3 DEF MarkSound, ShownSound
<1>8. Focus(c) = Focus(v)
  BY <1>3 DEF Focus
<1>9. CASE v.ses = NoSession
  <2>1. r = c
    BY <1>1, <1>2, <1>3, <1>9 DEF Abort
  <2>2. PageSound(b, c)
    BY <1>1, <1>3, <1>9, AwaySound
  <2> QED
    BY <1>8, <2>1, <2>2
<1>10. CASE v.ses # NoSession
  <2>1. c.turn # NoTurn => c.req # NoRequest
    BY <1>1, <1>3 DEF Waiting
  <2>2. r = Abort(c)
    BY <1>2
  <2>3. Ready(b, c, r)
    BY <1>3, <1>4, <1>5, <1>6, <1>7, <1>10, <2>1, <2>2, AbortReady
  <2>4. Good(b, c, r)
    BY <1>1, <1>3, <1>5, <1>7, <1>10, <2>3, ReadyGood
  <2>5. r.marker # "live"
    BY <1>3, <2>3 DEF Ready, MarkSound
  <2> QED
    BY <1>8, <2>3, <2>4, <2>5 DEF Good, Ready
<1> QED
  BY <1>9, <1>10

LEMMA SuspendGood ==
  ASSUME TimelineInv, NEW b \in Scenarios, b = world.bound, Suspend
  PROVE  Good(b, u, u')
<1>0. PageSound(b, u)
  BY DEF TimelineInv
<1>1. PICK s : s = IF u.ses.open THEN CommitSettled(u) ELSE u
  OBVIOUS
<1>2. PageSound(b, s) /\ Focus(s) = Focus(u)
  <2>1. CASE ~u.ses.open
    BY <1>0, <1>1, <2>1
  <2>2. CASE u.ses.open
    <3>1. u.ses # NoSession /\ s = CommitSettled(u)
      BY <1>0, <1>1, <2>2, PageParts
    <3>2. Good(b, u, s) /\ Mild(b, u, s)
      BY <1>0, <3>1, SettledPage
    <3> QED
      BY <3>2, SameFocus DEF Good, Mild
  <2> QED
    BY <2>1, <2>2
<1>3. Typed(b, s)
  BY <1>2, PageParts
<1>4. PICK e : e = [s EXCEPT !.interactive = FALSE, !.timer = "off", !.marker = "none", !.locked = FALSE,
                             !.playing = FALSE, !.reload = "off", !.nav = "origin"]
  OBVIOUS
<1>5. /\ Typed(b, e) /\ e.ses = s.ses /\ e.kept = s.kept /\ e.req = s.req /\ e.turn = s.turn /\ e.mode = s.mode
      /\ ~e.interactive /\ e.marker = "none" /\ e.shown = s.shown
  <2>1. DOMAIN s = Fields
    BY <1>3 DEF Typed
  <2>2. /\ DOMAIN e = Fields /\ e.ses = s.ses /\ e.kept = s.kept /\ e.req = s.req /\ e.turn = s.turn
        /\ e.mode = s.mode /\ e.interactive = FALSE /\ e.marker = "none" /\ e.shown = s.shown
        /\ e.timer = "off" /\ e.locked = FALSE /\ e.playing = FALSE /\ e.cfg = s.cfg /\ e.due = s.due
        /\ e.scene = s.scene
    BY <1>4, <2>1 DEF Fields
  <2> QED
    BY <1>3, <2>2 DEF Typed
<1>6. u' = Abort(CancelTransition(e))
  BY <1>1, <1>4 DEF Suspend
<1>7. PageSound(b, u') /\ Focus(u') = Focus(s)
  BY <1>2, <1>5, <1>6, CoveredGood
<1> QED
  BY <1>2, <1>7 DEF Good, Moves

(***************************************************************************)
(* What React runs.                                                        *)
(***************************************************************************)
\* The scene may forget a turn; nothing else happens.
Off(b, v, r) ==
  /\ Typed(b, r) /\ r.ses = v.ses /\ r.req = v.req /\ r.marker = v.marker
  /\ r.mode = v.mode /\ r.kept = v.kept /\ r.interactive = v.interactive /\ r.shown = v.shown
  /\ r.turn = NoTurn <=> v.turn = NoTurn
  /\ v.turn # NoTurn => /\ DOMAIN r.turn = TurnFields /\ r.turn.dir = v.turn.dir
                        /\ r.turn.stride = v.turn.stride /\ r.turn.tries = v.turn.tries
                        /\ r.turn.live \in BOOLEAN

LEMMA OffStays ==
  ASSUME NEW b, NEW v, Typed(b, v), TurnSound(v)
  PROVE  Off(b, v, v)
BY DEF Off, TurnSound

LEMMA OffAgain ==
  ASSUME NEW b, NEW v, NEW w, Off(b, v, w), NEW r, r = CancelTransition(w)
  PROVE  Off(b, v, r)
<1>1. Typed(b, w) /\ (w.turn # NoTurn => DOMAIN w.turn = TurnFields)
  BY DEF Off
<1>2. /\ Typed(b, r) /\ r.ses = w.ses /\ r.req = w.req /\ r.marker = w.marker
      /\ r.due = w.due /\ r.mode = w.mode /\ r.kept = w.kept /\ r.interactive = w.interactive
      /\ r.cfg = w.cfg /\ r.shown = w.shown
      /\ r.turn = NoTurn <=> w.turn = NoTurn
      /\ w.turn # NoTurn => /\ DOMAIN r.turn = TurnFields /\ r.turn.dir = w.turn.dir
                            /\ r.turn.stride = w.turn.stride /\ r.turn.tries = w.turn.tries
                            /\ r.turn.live \in BOOLEAN
  BY <1>1, CancelIs
<1> QED
  BY <1>2 DEF Off

LEMMA ShownIs ==
  ASSUME NEW b \in Scenarios, NEW v, PageSound(b, v)
  PROVE  /\ ShownNow(v) \in Seq(Nat)
         /\ v.ses # NoSession => ShownNow(v) = Visible(v.ses.win)
         /\ v.turn # NoTurn => /\ ShownNow(v) # <<>>
                               /\ ShownNow(v)[Len(ShownNow(v))] = v.ses.win.cache[v.ses.win.active]
<1>1. CASE v.ses = NoSession
  <2>1. ~v.ses.open /\ v.turn = NoTurn
    BY <1>1, PageParts
  <2> QED
    BY <1>1, <2>1 DEF ShownNow
<1>2. CASE v.ses # NoSession
  <2>1. v.ses.open /\ SesSound(b, v.ses) /\ TurnSound(v)
    BY <1>2, PageParts
  <2>2. SesTyped(v.ses) /\ WinTyped(v.ses.win)
    BY <2>1, OpenIs
  <2>3. PICK w : w = v.ses.win
    OBVIOUS
  <2>4. PICK d : d = v.ses.deque
    OBVIOUS
  <2>5. PICK T \in Int : T = Total(b, v.ses.snap)
    BY <2>2, TotalIs DEF SesTyped
  <2>6. ShownNow(v) = Visible(w)
    BY <2>1, <2>3 DEF ShownNow
  <2>7. d # <<>> => v.ses.loaded
    BY <2>1, <2>4 DEF SesSound, Blank
  <2>8. v.ses.loaded => Slice(d, T) /\ Lies(w, d) /\ WinTyped(w)
    BY <2>1, <2>2, <2>3, <2>4, <2>5 DEF SesSound, Filled
  <2>9. CASE d # <<>>
    <3>1. Visible(w) \in Seq(Nat) /\ Visible(w) # <<>> /\ Visible(w)[Len(Visible(w))] = w.cache[w.active]
      BY <2>7, <2>8, <2>9, VisibleOf
    <3> QED
      BY <1>2, <2>3, <2>6, <3>1
  <2>10. CASE d = <<>>
    <3>1. w.active = 0
      BY <2>1, <2>3, <2>8, <2>10 DEF SesSound, Blank, Lies
    <3>2. Visible(w) = <<>>
      BY <3>1 DEF Visible
    <3>3. v.turn = NoTurn
      BY <2>1, <2>4, <2>10 DEF TurnSound
    <3> QED
      BY <1>2, <2>3, <2>6, <3>2, <3>3
  <2> QED
    BY <2>9, <2>10
<1> QED
  BY <1>1, <1>2

\* The scene has what was rendered.
Delivered(b, v, r) ==
  /\ Typed(b, r) /\ r.ses = v.ses /\ r.req = v.req /\ r.marker = "none"
  /\ r.mode = v.mode /\ r.kept = v.kept /\ r.interactive = v.interactive
  /\ r.turn = NoTurn <=> v.turn = NoTurn
  /\ v.turn # NoTurn => /\ DOMAIN r.turn = TurnFields /\ r.turn.dir = v.turn.dir
                        /\ r.turn.stride = v.turn.stride /\ r.turn.tries = v.turn.tries
                        /\ r.turn.live \in BOOLEAN
  /\ v.interactive => r.shown.bundles = ShownNow(v)

LEMMA DeliverIs ==
  ASSUME NEW b \in Scenarios, NEW v, PageSound(b, v), NEW r, r = Deliver(v)
  PROVE  Delivered(b, v, r)
<1>1. Typed(b, v) /\ TurnSound(v) /\ MarkSound(v)
  BY PageParts
<1>2. ShownNow(v) \in Seq(Nat)
  BY ShownIs
<1> DEFINE off     == IF v.shown.enabled /\ ~JourneyEnabled(v) THEN CancelTransition(v) ELSE v
           changed == ShownNow(v) # v.shown.bundles \/ "filter" \in v.due
           cut     == IF /\ v.marker # "live"
                         /\ off.scene = "entering" \/ (changed /\ off.scene # "idle")
                      THEN CancelTransition(off) ELSE off
           taken   == [cut EXCEPT !.shown = [bundles |-> ShownNow(v), enabled |-> JourneyEnabled(v)],
                                  !.scene = IF JourneyEnabled(v) /\ ~v.restoring THEN "entering" ELSE @,
                                  !.restoring = FALSE]
<1>3. r = CASE ~v.interactive -> off
            [] v.interactive /\ changed -> [taken EXCEPT !.marker = "none"]
            [] OTHER -> [off EXCEPT !.shown.enabled = JourneyEnabled(v), !.restoring = FALSE]
  BY DEF Deliver
<1>4. Off(b, v, off)
  <2>1. Off(b, v, v)
    BY <1>1, OffStays
  <2> QED
    BY <2>1, OffAgain
<1>5. Off(b, v, cut)
  <2> HIDE DEF off
  <2> QED
    BY <1>4, OffAgain
<1>6. v.marker = "live" => v.interactive /\ ShownNow(v) # v.shown.bundles
  BY <1>1, ShownIs DEF MarkSound
<1>7. v.marker \in {"none", "live"}
  BY <1>1 DEF Typed
<1>8. ASSUME NEW o, Off(b, v, o), NEW e, NEW q, q = [o EXCEPT !.shown = [bundles |-> ShownNow(v), enabled |-> e],
                                                             !.scene = IF JourneyEnabled(v) /\ ~v.restoring THEN "entering" ELSE @,
                                                             !.restoring = FALSE, !.marker = "none"]
      PROVE  Delivered(b, v, q)
  <2>1. DOMAIN o = Fields
    BY <1>8 DEF Off, Typed
  <2>2. PICK s : s = IF JourneyEnabled(v) /\ ~v.restoring THEN "entering" ELSE o.scene
    OBVIOUS
  <2>3. s \in {"idle", "awaiting-result", "awaiting-data", "entering"}
    BY <1>8, <2>2 DEF Off, Typed
  <2>4. /\ DOMAIN q = Fields /\ q.ses = o.ses /\ q.kept = o.kept /\ q.req = o.req /\ q.turn = o.turn
        /\ q.mode = o.mode /\ q.interactive = o.interactive /\ q.marker = "none"
        /\ q.shown = [bundles |-> ShownNow(v), enabled |-> e]
        /\ q.timer = o.timer /\ q.locked = o.locked /\ q.playing = o.playing /\ q.cfg = o.cfg /\ q.due = o.due
        /\ q.scene = s
    BY <1>8, <2>1, <2>2 DEF Fields
  <2>5. Typed(b, q)
    BY <1>2, <1>8, <2>3, <2>4 DEF Off, Typed
  <2> QED
    BY <1>8, <2>4, <2>5 DEF Off, Delivered
<1>9. CASE ~v.interactive
  <2>1. r = off
    BY <1>3, <1>9
  <2> HIDE DEF off
  <2> QED
    BY <1>4, <1>6, <1>7, <1>9, <2>1 DEF Off, Delivered
<1>10. CASE v.interactive /\ changed
  <2>1. r = [taken EXCEPT !.marker = "none"]
    BY <1>3, <1>10
  <2> HIDE DEF cut, off, changed
  <2>2. r = [cut EXCEPT !.shown = [bundles |-> ShownNow(v), enabled |-> JourneyEnabled(v)],
                        !.scene = IF JourneyEnabled(v) /\ ~v.restoring THEN "entering" ELSE @,
                        !.restoring = FALSE, !.marker = "none"]
    BY <2>1
  <2> QED
    BY <1>5, <1>8, <2>2
<1>11. CASE v.interactive /\ ~changed
  <2>1. r = [off EXCEPT !.shown.enabled = JourneyEnabled(v), !.restoring = FALSE]
    BY <1>3, <1>11
  <2>2. ShownNow(v) = v.shown.bundles /\ v.marker = "none"
    BY <1>6, <1>7, <1>11
  <2> HIDE DEF off, changed
  <2>3. DOMAIN off = Fields /\ DOMAIN off.shown = {"bundles", "enabled"} /\ off.shown = v.shown
    BY <1>4 DEF Off, Typed
  <2>4. PICK h : h = [off.shown EXCEPT !.enabled = JourneyEnabled(v)]
    OBVIOUS
  <2>5. DOMAIN h = {"bundles", "enabled"} /\ h.bundles = ShownNow(v)
    BY <2>2, <2>3, <2>4
  <2>6. r = [off EXCEPT !.shown = h, !.restoring = FALSE]
    BY <2>1, <2>4
  <2>7. /\ DOMAIN r = Fields /\ r.ses = off.ses /\ r.kept = off.kept /\ r.req = off.req /\ r.turn = off.turn
        /\ r.mode = off.mode /\ r.interactive = off.interactive /\ r.marker = off.marker /\ r.shown = h
        /\ r.timer = off.timer /\ r.locked = off.locked /\ r.playing = off.playing /\ r.cfg = off.cfg
        /\ r.due = off.due /\ r.scene = off.scene
    BY <2>3, <2>6 DEF Fields
  <2>8. Typed(b, r)
    BY <1>2, <1>4, <2>5, <2>7 DEF Off, Typed
  <2> QED
    BY <1>4, <2>2, <2>5, <2>7, <2>8 DEF Off, Delivered
<1> QED
  BY <1>9, <1>10, <1>11

\* A page after its render.
Rendered(v, p) == [Deliver(v) EXCEPT !.due = {}, !.playing = p]
LEMMA DeliverPage ==
  ASSUME NEW b \in Scenarios, NEW v, PageSound(b, v), NEW p \in BOOLEAN,
         NEW d, d = Rendered(v, p)
  PROVE  PageSound(b, d) /\ Focus(d) = Focus(v) /\ d.due = {} /\ d.ses = v.ses /\ d.marker = "none"
<1>1. PICK r : r = Deliver(v)
  OBVIOUS
<1>2. Delivered(b, v, r)
  BY <1>1, DeliverIs
<1>3. d = [r EXCEPT !.due = {}, !.playing = p]
  BY <1>1 DEF Rendered
<1>4. /\ d.ses = v.ses /\ d.req = v.req /\ d.marker = "none"
      /\ d.mode = v.mode /\ d.kept = v.kept /\ d.interactive = v.interactive /\ d.shown = r.shown
      /\ d.turn = r.turn /\ d.due = {} /\ Typed(b, d)
  <2>1. DOMAIN r = Fields
    BY <1>2 DEF Delivered, Typed
  <2>2. /\ DOMAIN d = Fields /\ d.ses = r.ses /\ d.kept = r.kept /\ d.req = r.req /\ d.turn = r.turn
        /\ d.mode = r.mode /\ d.interactive = r.interactive /\ d.marker = r.marker /\ d.shown = r.shown
        /\ d.timer = r.timer /\ d.locked = r.locked /\ d.playing = p /\ d.cfg = r.cfg /\ d.due = {}
        /\ d.scene = r.scene
    BY <1>3, <2>1 DEF Fields
  <2> QED
    BY <1>2, <2>2 DEF Delivered, Typed
<1>5. /\ KeptSound(b, v.kept) /\ Sound(b, v) /\ TurnSound(v) /\ Short(v) /\ Waiting(v)
      /\ v.ses # NoSession <=> v.mode = "exploration"
  BY PageParts
<1>6. Sound(b, d)
  BY <1>4, <1>5 DEF Sound
<1>7. TurnSound(d)
  <2> SUFFICES ASSUME d.turn # NoTurn PROVE TurnSound(d)
    BY DEF TurnSound
  <2>1. v.turn # NoTurn /\ v.interactive
    BY <1>2, <1>4, <1>5 DEF Delivered, Waiting
  <2>2. d.shown.bundles # <<>> /\ d.shown.bundles[Len(d.shown.bundles)] = v.ses.win.cache[v.ses.win.active]
    BY <1>2, <1>4, <2>1, ShownIs DEF Delivered
  <2> QED
    BY <1>2, <1>4, <1>5, <2>1, <2>2 DEF Delivered, TurnSound
<1>8. Short(d)
  BY <1>2, <1>4, <1>5 DEF Delivered, Short, EdgeOpen
<1>9. Waiting(d)
  BY <1>2, <1>4, <1>5 DEF Delivered, Waiting
<1>10. MarkSound(d)
  BY <1>4 DEF MarkSound
<1>11. ShownSound(d)
  BY <1>2, <1>4, ShownIs DEF Delivered, ShownSound
<1>12. Focus(d) = Focus(v)
  BY <1>4 DEF Focus
<1> QED
  BY <1>4, <1>5, <1>6, <1>7, <1>8, <1>9, <1>10, <1>11, <1>12 DEF PageSound

\* What the configured limits make of a session.
Brought(b, s, to) ==
  /\ WinTyped(to.win) /\ to.deque \in Seq(Cells) /\ Range(Visible(to.win)) \subseteq Nat
  /\ IF s.loaded
     THEN /\ Slice(to.deque, Total(b, s.snap)) /\ Lies(to.win, to.deque)
          /\ Seen(to.win, s.shown \cup Range(Visible(to.win)))
          /\ to.win.exhausted <=> ~HasOlder(to.deque)
     ELSE /\ to.deque = <<>> /\ to.win.cache = <<>> /\ to.win.active = 0
          /\ to.win.visited = 0 /\ to.win.start = 0 /\ ~to.win.exhausted
  /\ s.win.active # 0 => to.win.active # 0 /\ to.win.cache[to.win.active] = s.win.cache[s.win.active]
  /\ s.win.active = 0 => to.win.active = 0

\* New limits keep the focused bundle.
LimitsSet(w, visible, limit) == [w EXCEPT !.visible = visible, !.limit = limit]
LEMMA LimitsKeep ==
  ASSUME NEW T, NEW d, NEW w, NEW shown, Browsed(T, d, w, shown), NEW visible \in Nat \ {0},
         NEW limit \in Nat, limit >= visible, NEW q, q = LimitsSet(w, visible, limit)
  PROVE  Browsed(T, d, q, shown) /\ q.cache = w.cache /\ q.active = w.active /\ q.start = w.start
<1>1. WinTyped(w)
  BY DEF Browsed
<1>2. /\ DOMAIN q = WinFields /\ q.cache = w.cache /\ q.active = w.active /\ q.visited = w.visited
      /\ q.exhausted = w.exhausted /\ q.phase = w.phase /\ q.start = w.start /\ q.rewind = w.rewind
      /\ q.visible = visible /\ q.limit = limit
  BY <1>1 DEF LimitsSet, WinTyped, WinFields
<1>3. WinTyped(q)
  BY <1>1, <1>2 DEF WinTyped
<1> QED
  BY <1>2, <1>3 DEF Browsed, Lies, Seen

LEMMA ResizedGrows ==
  ASSUME NEW T, NEW d, NEW w, NEW shown, Browsed(T, d, w, shown), NEW visible \in Nat \ {0},
         NEW reserve \in Nat, NEW limit \in Nat, limit >= visible + reserve,
         NEW small, small = Resize(d, limit, w.active, visible, reserve),
         NEW a, a = [deque |-> small.deque, evictedNewer |-> small.evictedNewer, prepended |-> 0],
         NEW q, q = SyncWindow(LimitsSet(w, visible, limit), FALSE, a)
  PROVE  Grows(T, LimitsSet(w, visible, limit), shown, a, q)
<1>1. PICK z : z = LimitsSet(w, visible, limit)
  OBVIOUS
<1>2. Browsed(T, d, z, shown) /\ z.cache = w.cache /\ z.active = w.active /\ z.start = w.start
  <2>1. limit >= visible
    OBVIOUS
  <2> QED
    BY <1>1, <2>1, LimitsKeep
<1>3. T \in Int /\ Slice(d, T) /\ w.active \in 1..Len(d) /\ z.cache[z.active] = d[w.active].ord
      /\ d[1].ord = z.start /\ z.start \in Nat
  BY <1>2, BrowsedIs DEF Browsed
<1>4. /\ Slice(small.deque, T) /\ small.evictedNewer \in Nat /\ small.deque # <<>>
      /\ small.deque[1].ord = d[1].ord + small.evictedNewer
      /\ PlaceOf(d[w.active].ord, Ords(small.deque)) # 0
  BY <1>3, ResizeIs
<1>5. a.deque = small.deque /\ a.evictedNewer = small.evictedNewer /\ a.prepended = 0
  OBVIOUS
<1>6. a.deque[1].ord = Monus(z.start + a.evictedNewer, a.prepended)
  <2>1. PICK n \in Nat : n = z.start
    BY <1>3
  <2>2. PICK m \in Nat : m = small.evictedNewer
    BY <1>4
  <2>3. Monus(n + m, 0) = n + m
    BY MonusIs
  <2> QED
    BY <1>3, <1>4, <1>5, <2>1, <2>2, <2>3
<1>7. PlaceOf(z.cache[z.active], Ords(a.deque)) # 0 /\ Slice(a.deque, T)
  BY <1>3, <1>4, <1>5
<1>8. q = SyncWindow(z, FALSE, a)
  BY <1>1
<1>9. Grows(T, z, shown, a, q)
  BY <1>2, <1>6, <1>7, <1>8, SyncGrows
<1> QED
  BY <1>1, <1>9

LEMMA ResizedIs ==
  ASSUME NEW b \in Scenarios, b = world.bound, NEW v, Typed(b, v), SesSound(b, v.ses),
         NEW to, to = Resized(v)
  PROVE  Brought(b, v.ses, to)
<1> DEFINE cfg   == Config(v)
           w     == v.ses.win
           small == Resize(v.ses.deque, cfg.capacity, w.active, cfg.visible, QueryPage(v))
           a     == [deque |-> small.deque, evictedNewer |-> small.evictedNewer, prepended |-> 0]
           q     == SyncWindow(LimitsSet(w, cfg.visible, cfg.capacity), FALSE, a)
           p     == IF ~HasOlder(small.deque) /\ PlaceOf(w.cache[w.active], Ords(small.deque)) = Len(small.deque)
                    THEN "complete" ELSE "idle"
<1>1. SesTyped(v.ses) /\ WinTyped(w) /\ v.ses.page \in {0} \cup PageSizes(b)
  BY OpenIs DEF SesSound
<1>2. cfg.visible \in Nat \ {0} /\ cfg.capacity \in Nat /\ QueryPage(v) \in Nat
      /\ cfg.capacity >= cfg.visible + QueryPage(v)
  BY <1>1, ConfigIs, QueryPageIs
<1>3. to = IF w.active = 0
           THEN [win |-> Reconfigure(w, cfg.visible, cfg.capacity), deque |-> v.ses.deque]
           ELSE [win |-> [q EXCEPT !.phase = p], deque |-> small.deque]
  BY DEF Resized, LimitsSet
<1>4. CASE w.active = 0
  <2> HIDE DEF cfg, w
  <2>1. to.win = Reconfigure(w, cfg.visible, cfg.capacity) /\ to.deque = v.ses.deque
    BY <1>3, <1>4
  <2>2. /\ WinTyped(to.win) /\ to.win.cache = w.cache /\ to.win.active = w.active /\ to.win.visited = w.visited
        /\ to.win.start = w.start /\ to.win.exhausted = w.exhausted
    <3>1. PICK visible \in Nat \ {0} : visible = cfg.visible
      BY <1>2
    <3>2. PICK limit \in Nat : limit = cfg.capacity
      BY <1>2
    <3>3. PICK x : x = w
      OBVIOUS
    <3>4. to.win = Reconfigure(x, visible, limit) /\ WinTyped(x)
      BY <1>1, <2>1, <3>1, <3>2, <3>3
    <3> QED
      BY <3>3, <3>4, ReconfigureIs
  <2>3. Visible(to.win) = <<>>
    BY <1>4, <2>2 DEF Visible
  <2>4. Range(Visible(to.win)) = {}
    BY <2>3 DEF Range
  <2>5. CASE v.ses.loaded
    <3>1. Filled(b, v.ses)
      BY <2>5 DEF SesSound
    <3>2. Seen(to.win, v.ses.shown \cup Range(Visible(to.win)))
      BY <2>2, <3>1, SeenStays DEF Filled, w
    <3> QED
      BY <1>1, <1>4, <2>1, <2>2, <2>4, <2>5, <3>1, <3>2 DEF Brought, Filled, Lies, SesTyped, w
  <2>6. CASE ~v.ses.loaded
    BY <1>1, <1>4, <2>1, <2>2, <2>4, <2>6 DEF Brought, SesSound, SesTyped, Blank, w
  <2> QED
    BY <2>5, <2>6
<1>5. CASE w.active # 0
  <2>1. PICK T \in Int : T = Total(b, v.ses.snap)
    BY <1>1, TotalIs DEF SesTyped
  <2>2. v.ses.loaded /\ Filled(b, v.ses)
    BY <1>5 DEF SesSound, Blank
  <2>3. Browsed(T, v.ses.deque, w, v.ses.shown)
    BY <1>1, <1>5, <2>1, <2>2 DEF Filled, Lies, Browsed
  <2>4. to.win = [q EXCEPT !.phase = p] /\ to.deque = small.deque
    BY <1>3, <1>5
  <2>5. p \in Phases
    BY DEF Phases
  <2> HIDE DEF cfg, w, small, p
  <2>6. Grows(T, LimitsSet(w, cfg.visible, cfg.capacity), v.ses.shown, a, q)
    BY <1>2, <2>3, ResizedGrows DEF small
  <2>7. a.deque = small.deque
    OBVIOUS
  <2>8. LimitsSet(w, cfg.visible, cfg.capacity).active = w.active
        /\ LimitsSet(w, cfg.visible, cfg.capacity).cache = w.cache
    <3>1. PICK visible \in Nat \ {0} : visible = cfg.visible
      BY <1>2
    <3>2. PICK limit \in Nat : limit = cfg.capacity /\ limit >= visible
      BY <1>2, <3>1
    <3> QED
      BY <2>3, <3>1, <3>2, LimitsKeep
  <2> HIDE DEF a, q
  <2>9. /\ Slice(a.deque, T) /\ WinTyped(q) /\ Lies(q, a.deque) /\ Seen(q, v.ses.shown \cup Range(Visible(q)))
        /\ q.exhausted <=> ~HasOlder(a.deque)
        /\ a.deque # <<>> /\ q.active # 0 /\ q.cache[q.active] = w.cache[w.active]
    BY <1>5, <2>6, <2>8 DEF Grows
  <2>10. Range(Visible(q)) \subseteq Nat
    BY <2>9, VisibleOf
  <2>11. PICK x : x = to.win
    OBVIOUS
  <2>12. /\ WinTyped(x) /\ x.cache = q.cache /\ x.active = q.active /\ x.visited = q.visited
         /\ x.exhausted = q.exhausted /\ x.start = q.start /\ Visible(x) = Visible(q)
    BY <2>4, <2>5, <2>9, <2>11, PhaseOnly
  <2>13. Lies(x, a.deque) /\ Seen(x, v.ses.shown \cup Range(Visible(x)))
    BY <2>9, <2>12 DEF Lies, Seen
  <2>14. a.deque \in Seq(Cells)
    BY <2>9 DEF Slice
  <2> QED
    BY <1>5, <2>1, <2>2, <2>4, <2>7, <2>9, <2>10, <2>11, <2>12, <2>13, <2>14 DEF Brought, w
<1> QED
  BY <1>4, <1>5

\* The session after its limits: the window is committed where it changed.
Resettled(s, to, t) ==
  /\ DOMAIN t = SesFields
  /\ t.open = s.open /\ t.loaded = s.loaded /\ t.deque = to.deque /\ t.snap = s.snap /\ t.page = s.page
  /\ t.prefer = s.prefer /\ t.loading = s.loading /\ t.paused = FALSE /\ t.win = to.win
  /\ \/ to.win = s.win /\ t.shown = s.shown
     \/ t.shown = s.shown \cup Range(Visible(to.win))

LEMMA ResettledSound ==
  ASSUME NEW b \in Scenarios, NEW s, SesSound(b, s), NEW to, Brought(b, s, to), NEW t, Resettled(s, to, t)
  PROVE  SesSound(b, t) /\ (t.win.active # 0 <=> s.win.active # 0)
         /\ (s.win.active # 0 => t.win.cache[t.win.active] = s.win.cache[s.win.active])
<1>1. SesTyped(s)
  BY OpenIs
<1>2. SesTyped(t)
  BY <1>1 DEF SesTyped, Resettled, Brought
<1>3. CASE s.loaded
  <2>1. Filled(b, s) /\ t.loaded
    BY <1>3 DEF SesSound, Resettled
  <2>2. Seen(t.win, t.shown)
    <3>1. CASE to.win = s.win /\ t.shown = s.shown
      BY <2>1, <3>1 DEF Filled, Resettled
    <3>2. CASE t.shown = s.shown \cup Range(Visible(to.win))
      BY <1>3, <3>2 DEF Brought, Resettled
    <3> QED
      BY <3>1, <3>2 DEF Resettled
  <2>3. Filled(b, t)
    BY <1>3, <2>1, <2>2 DEF Filled, Resettled, Brought
  <2> QED
    BY <1>2, <2>1, <2>3 DEF SesSound, Resettled, Brought
<1>4. CASE ~s.loaded
  <2>1. Blank(s) /\ ~t.loaded
    BY <1>4 DEF SesSound, Resettled
  <2>2. Blank(t)
    BY <1>4, <2>1 DEF Blank, Resettled, Brought
  <2> QED
    BY <1>2, <2>1, <2>2 DEF SesSound, Resettled, Brought
<1> QED
  BY <1>3, <1>4 DEF SesSound, SesTyped

\* A page without a request or a turn, in which only the session was settled anew.
OnlySettled(b, v, r) ==
  /\ Typed(b, r) /\ r.kept = v.kept /\ r.req = v.req /\ r.turn = v.turn /\ r.marker = "none"
  /\ r.mode = v.mode /\ r.interactive = v.interactive /\ r.shown = v.shown
  /\ \/ "window" \in r.due
     \/ r.due = v.due /\ r.ses.win = v.ses.win

LEMMA CommitIs ==
  ASSUME NEW b, NEW v, Typed(b, v), DOMAIN v.ses = SesFields, NEW w, NEW r, r = Commit(v, w)
  PROVE  /\ Typed(b, r) /\ r.kept = v.kept /\ r.req = v.req /\ r.turn = v.turn /\ r.marker = "none"
         /\ r.mode = v.mode /\ r.interactive = v.interactive /\ r.shown = v.shown /\ "window" \in r.due
         /\ DOMAIN r.ses = SesFields
         /\ r.ses.open = v.ses.open /\ r.ses.loaded = v.ses.loaded /\ r.ses.deque = v.ses.deque
         /\ r.ses.snap = v.ses.snap /\ r.ses.page = v.ses.page
         /\ r.ses.prefer = v.ses.prefer /\ r.ses.loading = v.ses.loading /\ r.ses.paused = v.ses.paused
         /\ r.ses.win = w /\ r.ses.shown = v.ses.shown \cup Range(Visible(w))
<1>1. PICK t : t = [v.ses EXCEPT !.win = w, !.shown = @ \cup Range(Visible(w))]
  OBVIOUS
<1>2. PICK x : x = IF v.timer = "live" THEN "stale" ELSE v.timer
  OBVIOUS
<1>3. DOMAIN v = Fields
  BY DEF Typed
<1>4. r = [v EXCEPT !.ses = t, !.due = @ \cup {"window"}, !.timer = x, !.marker = "none"]
  BY <1>1, <1>2, <1>3 DEF Commit, Fields
<1>5. /\ DOMAIN r = Fields /\ r.ses = t /\ r.kept = v.kept /\ r.req = v.req /\ r.turn = v.turn
      /\ r.mode = v.mode /\ r.interactive = v.interactive /\ r.marker = "none" /\ r.shown = v.shown
      /\ r.timer = x /\ r.locked = v.locked /\ r.playing = v.playing /\ r.cfg = v.cfg
      /\ r.due = v.due \cup {"window"} /\ r.scene = v.scene
  BY <1>3, <1>4 DEF Fields
<1>6. x \in {"off", "live", "stale"} /\ v.due \cup {"window"} \subseteq {"window", "prefetch", "filter"}
  BY <1>2 DEF Typed
<1>7. Typed(b, r)
  BY <1>5, <1>6 DEF Typed
<1>8. /\ DOMAIN t = SesFields
      /\ t.open = v.ses.open /\ t.loaded = v.ses.loaded /\ t.deque = v.ses.deque
      /\ t.snap = v.ses.snap /\ t.page = v.ses.page
      /\ t.prefer = v.ses.prefer /\ t.loading = v.ses.loading /\ t.paused = v.ses.paused
      /\ t.win = w /\ t.shown = v.ses.shown \cup Range(Visible(w))
  BY <1>1 DEF SesFields
<1> QED
  BY <1>5, <1>7, <1>8

LEMMA ReconfigureGood ==
  ASSUME NEW b \in Scenarios, b = world.bound, NEW v, PageSound(b, v), v.marker = "none",
         NEW r, r = ReconfigureEffect(v)
  PROVE  PageSound(b, r) /\ Focus(r) = Focus(v)
<1> DEFINE to == Resized(v)
           in == [v EXCEPT !.ses.deque = to.deque, !.ses.paused = FALSE]
<1>1. CASE ~v.ses.open \/ v.ses.loading \/ v.ses.win.phase = "transitioning"
  BY <1>1 DEF ReconfigureEffect
<1>2. CASE ~(~v.ses.open \/ v.ses.loading \/ v.ses.win.phase = "transitioning")
  <2>1. r = IF to.win = v.ses.win THEN in ELSE Commit(in, to.win)
    BY <1>2 DEF ReconfigureEffect
  <2>2. /\ v.ses # NoSession /\ SesSound(b, v.ses) /\ v.req = NoRequest /\ v.turn = NoTurn /\ ~v.ses.loading
        /\ Typed(b, v) /\ KeptSound(b, v.kept) /\ v.mode = "exploration" /\ ShownSound(v)
    <3>1. Waiting(v) /\ v.ses # NoSession
      BY <1>2, PageParts
    <3>2. v.req = NoRequest
      BY <1>2, <3>1, PageParts
    <3> QED
      BY <1>2, <3>1, <3>2, PageParts DEF Waiting
  <2>3. Brought(b, v.ses, to)
    BY <2>2, ResizedIs
  <2> HIDE DEF to
  <2>4. DOMAIN v = Fields /\ DOMAIN v.ses = SesFields
    BY <2>2, OpenIs DEF Typed, SesTyped
  <2>5. PICK t : t = [v.ses EXCEPT !.deque = to.deque, !.paused = FALSE]
    OBVIOUS
  <2>6. /\ DOMAIN t = SesFields
        /\ t.open = v.ses.open /\ t.loaded = v.ses.loaded /\ t.deque = to.deque
        /\ t.snap = v.ses.snap /\ t.page = v.ses.page
        /\ t.prefer = v.ses.prefer /\ t.loading = v.ses.loading /\ t.paused = FALSE
        /\ t.win = v.ses.win /\ t.shown = v.ses.shown
    BY <2>4, <2>5 DEF SesFields
  <2>7. PICK i : i = in
    OBVIOUS
  <2>8. i = [v EXCEPT !.ses = t]
    BY <2>4, <2>5, <2>7 DEF Fields
  <2>9. /\ Typed(b, i) /\ i.ses = t /\ i.kept = v.kept /\ i.req = v.req /\ i.turn = v.turn /\ i.marker = "none"
        /\ i.mode = v.mode /\ i.interactive = v.interactive /\ i.shown = v.shown /\ i.due = v.due
    <3>1. /\ DOMAIN i = Fields /\ i.ses = t /\ i.kept = v.kept /\ i.req = v.req /\ i.turn = v.turn
          /\ i.mode = v.mode /\ i.interactive = v.interactive /\ i.marker = v.marker /\ i.shown = v.shown
          /\ i.timer = v.timer /\ i.locked = v.locked /\ i.playing = v.playing /\ i.cfg = v.cfg
          /\ i.due = v.due /\ i.scene = v.scene
      BY <2>4, <2>8 DEF Fields
    <3> QED
      BY <2>2, <3>1 DEF Typed
  <2>10. r = IF to.win = v.ses.win THEN i ELSE Commit(i, to.win)
    BY <2>1, <2>7
  <2> HIDE DEF in
  <2>11. OnlySettled(b, v, r) /\ Resettled(v.ses, to, r.ses)
    <3>1. CASE to.win = v.ses.win
      BY <2>6, <2>9, <2>10, <3>1 DEF OnlySettled, Resettled
    <3>2. CASE to.win # v.ses.win
      <4>1. r = Commit(i, to.win) /\ DOMAIN i.ses = SesFields
        BY <2>6, <2>9, <2>10, <3>2
      <4>2. /\ Typed(b, r) /\ r.kept = i.kept /\ r.req = i.req /\ r.turn = i.turn /\ r.marker = "none"
            /\ r.mode = i.mode /\ r.interactive = i.interactive /\ r.shown = i.shown /\ "window" \in r.due
            /\ DOMAIN r.ses = SesFields
            /\ r.ses.open = i.ses.open /\ r.ses.loaded = i.ses.loaded /\ r.ses.deque = i.ses.deque
            /\ r.ses.snap = i.ses.snap /\ r.ses.page = i.ses.page
            /\ r.ses.prefer = i.ses.prefer /\ r.ses.loading = i.ses.loading /\ r.ses.paused = i.ses.paused
            /\ r.ses.win = to.win /\ r.ses.shown = i.ses.shown \cup Range(Visible(to.win))
        BY <2>9, <4>1, CommitIs
      <4> QED
        BY <2>6, <2>9, <4>2 DEF OnlySettled, Resettled
    <3> QED
      BY <3>1, <3>2
  <2>12. /\ SesSound(b, r.ses) /\ (r.ses.win.active # 0 <=> v.ses.win.active # 0)
         /\ (v.ses.win.active # 0 => r.ses.win.cache[r.ses.win.active] = v.ses.win.cache[v.ses.win.active])
    BY <2>2, <2>3, <2>11, ResettledSound
  <2>13. r.ses # NoSession /\ r.ses.open = TRUE /\ ~r.ses.loading /\ v.ses.open = TRUE
    BY <2>2, <2>11, <2>12, OpenIs DEF Resettled
  <2>14. Focus(r) = Focus(v)
    BY <2>12, <2>13 DEF Focus
  <2>15. Sound(b, r)
    BY <2>2, <2>11, <2>12, <2>13 DEF Sound, OnlySettled
  <2>16. TurnSound(r) /\ Short(r) /\ Waiting(r) /\ MarkSound(r)
    BY <2>2, <2>11 DEF OnlySettled, TurnSound, Short, Waiting, MarkSound
  <2>17. ShownSound(r)
    BY <2>2, <2>11 DEF OnlySettled, ShownSound
  <2> QED
    BY <2>2, <2>11, <2>13, <2>14, <2>15, <2>16, <2>17 DEF PageSound, OnlySettled
<1> QED
  BY <1>1, <1>2

LEMMA PlanIs ==
  ASSUME NEW w, NEW d, NEW page, NEW pages, NEW prefer, NEW dir, dir = PlanPrefetch(w, d, page, pages, prefer)
  PROVE  dir \in {"newer", "older", "none"}
<1> DEFINE newerDeficit == HasNewer(d) /\ Monus(w.active, w.visible) < page * Least(3, pages)
           olderDeficit == HasOlder(d) /\ Len(w.cache) - w.active < page * Least(3, pages)
<1>1. dir = CASE newerDeficit /\ (prefer = "newer" \/ ~olderDeficit) -> "newer"
              [] olderDeficit /\ (prefer = "older" \/ ~newerDeficit) -> "older"
              [] OTHER                                               -> "none"
  BY DEF PlanPrefetch
<1> HIDE DEF newerDeficit, olderDeficit
<1> QED
  BY <1>1

LEMMA PrefetchGood ==
  ASSUME NEW b \in Scenarios, b = world.bound, NEW v, PageSound(b, v), NEW phase,
         NEW r, r = PrefetchEffect(v, phase)
  PROVE  PageSound(b, r) /\ Focus(r) = Focus(v)
<1>1. PICK dir : dir = PlanPrefetch(v.ses.win, v.ses.deque, QueryPage(v), Config(v).pages, v.ses.prefer)
  OBVIOUS
<1>2. dir \in {"newer", "older", "none"}
  BY <1>1, PlanIs
<1>3. r = v \/ (dir # "none" /\ MayLoad(v, "prefetch", dir) /\ r = BeginLoad(v, "prefetch", dir))
  BY <1>1 DEF PrefetchEffect
<1>4. CASE r = v
  BY <1>4
<1>5. CASE dir # "none" /\ MayLoad(v, "prefetch", dir) /\ r = BeginLoad(v, "prefetch", dir)
  <2>1. dir \in Dirs /\ v.ses # NoSession /\ v.req = NoRequest
    BY <1>2, <1>5, PageParts DEF MayLoad, Dirs
  <2>2. IF v.ses.loaded THEN EdgeOpen(v, dir) ELSE dir = "older"
    BY <1>5 DEF MayLoad
  <2>3. Good(b, v, r) /\ Still(v, r)
    <3>1. PICK cause : cause = "prefetch"
      OBVIOUS
    <3>2. r = BeginLoad(v, cause, dir)
      BY <1>5, <3>1
    <3> QED
      BY <2>1, <2>2, <3>2, LoadGood
  <2> QED
    BY <2>3 DEF Good, Still
<1> QED
  BY <1>3, <1>4, <1>5

LEMMA RenderGood ==
  ASSUME TimelineInv, NEW b \in Scenarios, b = world.bound, Render
  PROVE  Good(b, u, u')
<1>0. PageSound(b, u)
  BY DEF TimelineInv
<1>1. PICK p : p = (Deliver(u).playing /\ ~PlaybackStops(u))
  OBVIOUS
<1>2. PICK d : d = [Deliver(u) EXCEPT !.due = {}, !.playing = @ /\ ~PlaybackStops(u)]
  OBVIOUS
<1>3. PICK r : r = IF "window" \in u.due THEN ReconfigureEffect(d) ELSE d
  OBVIOUS
<1>4. u' = IF u.ses.open THEN PrefetchEffect(r, u.ses.win.phase) ELSE r
  BY <1>2, <1>3 DEF Render
<1>5. DOMAIN Deliver(u) = Fields
  BY <1>0, DeliverIs DEF Delivered, Typed
<1>6. d = [Deliver(u) EXCEPT !.due = {}, !.playing = p] /\ p \in BOOLEAN
  BY <1>1, <1>2, <1>5 DEF Fields
<1>7. PageSound(b, d) /\ Focus(d) = Focus(u) /\ d.marker = "none"
  <2>1. PICK y \in BOOLEAN : y = p
    BY <1>6
  <2>2. d = Rendered(u, y)
    BY <1>6, <2>1 DEF Rendered
  <2> QED
    BY <1>0, <2>2, DeliverPage
<1>8. PageSound(b, r) /\ Focus(r) = Focus(u)
  <2>1. CASE "window" \in u.due
    <3>1. PageSound(b, r) /\ Focus(r) = Focus(d)
      BY <1>3, <1>7, <2>1, ReconfigureGood
    <3> QED
      BY <1>7, <3>1
  <2>2. CASE "window" \notin u.due
    BY <1>3, <1>7, <2>2
  <2> QED
    BY <2>1, <2>2
<1>9. PageSound(b, u') /\ Focus(u') = Focus(u)
  <2>1. CASE u.ses.open
    <3>1. PageSound(b, u') /\ Focus(u') = Focus(r)
      <4>1. PICK phase : phase = u.ses.win.phase
        OBVIOUS
      <4>2. PICK q : q = u'
        OBVIOUS
      <4>3. q = PrefetchEffect(r, phase)
        BY <1>4, <2>1, <4>1, <4>2
      <4> QED
        BY <1>8, <4>2, <4>3, PrefetchGood
    <3> QED
      BY <1>8, <3>1
  <2>2. CASE ~u.ses.open
    BY <1>4, <1>8, <2>2
  <2> QED
    BY <2>1, <2>2
<1> QED
  BY <1>9 DEF Good, Moves

(***************************************************************************)
(* The steps.                                                              *)
(***************************************************************************)
LEMMA TimelineInit == Init => TimelineInv
<1> SUFFICES ASSUME Init PROVE TimelineInv
  OBVIOUS
<1>1. PICK b \in Scenarios : world = [bound |-> b, version |-> 1, left |-> b.budget]
  BY DEF Init
<1>2. WorldSound(world) /\ world.bound = b
  BY <1>1 DEF WorldSound
<1>3. 1 \in DOMAIN b.settings
  BY TimelineAssumption, EmptySeq
<1>4. /\ DOMAIN u = Fields /\ u.mode = "home" /\ u.ses = NoSession /\ u.kept = NothingKept /\ u.req = NoRequest
      /\ u.turn = NoTurn /\ u.timer = "off" /\ u.marker = "none" /\ u.locked = FALSE /\ u.interactive = TRUE
      /\ u.playing = FALSE /\ u.cfg = 1 /\ u.due = {} /\ u.scene = "idle"
      /\ u.shown = [bundles |-> <<>>, enabled |-> FALSE]
  BY DEF Init, Fields
<1>5. Typed(b, u)
  <2>1. DOMAIN u.shown = {"bundles", "enabled"} /\ u.shown.bundles \in Seq(Nat)
    BY <1>4, EmptySeq
  <2> QED
    BY <1>3, <1>4, <2>1 DEF Typed
<1>6. PageSound(b, u)
  BY <1>4, <1>5, NothingKeptIs, AwaySound
<1> QED
  BY <1>2, <1>6 DEF TimelineInv

LEMMA TimelineSteps ==
  ASSUME TimelineInv, NEW b \in Scenarios, b = world.bound, Next
  PROVE  Good(b, u, u')
<1>1. CASE Render
  BY <1>1, RenderGood
<1>2. CASE ServerReplies
  BY <1>2, RepliesGood
<1>3. CASE RequestFails
  BY <1>3, FailsGood
<1>4. CASE PageArrives
  BY <1>4, ArrivesGood
<1>5. CASE SnapshotChanged
  BY <1>5, ChangedGood
<1>6. CASE ReloadTimer
  BY <1>6, ReloadGood
<1>7. CASE ActivateSource
  BY <1>7, ActivateGood
<1>8. CASE TimelineChanges \/ Dive \/ TogglePlayback \/ ToggleOrder \/ Unlock \/ ChangeFilter \/ ChangeSettings
  BY <1>8, AsideGood
<1>9. CASE (\E dir \in Dirs : MoveTimeline(dir)) \/ PlaybackFires
  BY <1>9, MoveGood
<1>10. CASE SceneFinishes \/ SettleTimer
  BY <1>10, OverGood
<1>11. CASE Lock
  BY <1>11, LockGood
<1>12. CASE ReturnToOrigin
  BY <1>12, OriginGood
<1>13. CASE Home
  BY <1>13, HomeGood
<1>14. CASE EnterContext
  BY <1>14, ContextGood
<1>15. CASE ResumeExploration
  BY <1>15, ResumeGood
<1>16. CASE Suspend
  BY <1>16, SuspendGood
<1>17. CASE WakeUp
  BY <1>17, WakeGood
<1> QED
  BY <1>1, <1>2, <1>3, <1>4, <1>5, <1>6, <1>7, <1>8, <1>9, <1>10, <1>11, <1>12, <1>13, <1>14, <1>15, <1>16,
     <1>17 DEF Next, Dirs

\* Of the world a step changes what is left, or the version.
LEMMA NextWorld ==
  ASSUME Next
  PROVE  world' = world \/ (\E act : Spend(act)) \/ TimelineChanges
<1>1. CASE \/ Render \/ ServerReplies \/ SnapshotChanged \/ ReloadTimer \/ Dive \/ PlaybackFires
           \/ (\E dir \in {"older", "newer"} : MoveTimeline(dir)) \/ SceneFinishes \/ SettleTimer \/ Unlock
           \/ ResumeExploration \/ WakeUp
  BY <1>1 DEF Render, ServerReplies, SnapshotChanged, ReloadTimer, Dive, PlaybackFires, MoveTimeline,
              SceneFinishes, SettleTimer, Unlock, ResumeExploration, WakeUp
<1>2. CASE RequestFails
  BY <1>2 DEF RequestFails
<1>3. CASE TimelineChanges
  BY <1>3
<1>4. CASE PageArrives
  BY <1>4 DEF PageArrives
<1>5. CASE ActivateSource
  BY <1>5 DEF ActivateSource
<1>6. CASE TogglePlayback
  BY <1>6 DEF TogglePlayback
<1>7. CASE ToggleOrder
  BY <1>7 DEF ToggleOrder
<1>8. CASE Lock
  BY <1>8 DEF Lock
<1>9. CASE ReturnToOrigin
  BY <1>9 DEF ReturnToOrigin
<1>10. CASE Home
  BY <1>10 DEF Home
<1>11. CASE ChangeSettings
  BY <1>11 DEF ChangeSettings
<1>12. CASE ChangeFilter
  BY <1>12 DEF ChangeFilter
<1>13. CASE EnterContext
  BY <1>13 DEF EnterContext
<1>14. CASE Suspend
  BY <1>14 DEF Suspend
<1> QED
  BY <1>1, <1>2, <1>3, <1>4, <1>5, <1>6, <1>7, <1>8, <1>9, <1>10, <1>11, <1>12, <1>13, <1>14 DEF Next

LEMMA TimelineStep == TimelineInv /\ [Next]_vars => TimelineInv' /\ Moves(u, u')
<1> SUFFICES ASSUME TimelineInv, [Next]_vars PROVE TimelineInv' /\ Moves(u, u')
  OBVIOUS
<1>1. WorldSound(world) /\ PageSound(world.bound, u)
  BY DEF TimelineInv
<1>2. PICK b \in Scenarios : b = world.bound
  BY <1>1 DEF WorldSound
<1>3. CASE Next
  <2>1. Good(b, u, u')
    BY <1>2, <1>3, TimelineSteps
  <2>2. WorldSound(world') /\ world'.bound = b
    BY <1>1, <1>2, <1>3, NextWorld, WorldKept
  <2>3. PageSound(world'.bound, u') /\ Moves(u, u')
    BY <2>1, <2>2 DEF Good
  <2>4. TimelineInv' <=> WorldSound(world') /\ PageSound(world'.bound, u')
    BY DEF TimelineInv, WorldSound, PageSound, Sound, Typed, KeptSound, SesSound, SesTyped, Filled, Blank, Asked,
           TurnSound, Short, Waiting, MarkSound, ShownSound, EdgeOpen
  <2> QED
    BY <2>2, <2>3, <2>4
<1>4. CASE UNCHANGED vars
  <2>1. u' = u /\ world' = world
    BY <1>4 DEF vars
  <2> QED
    BY <2>1 DEF TimelineInv, Moves
<1> QED
  BY <1>3, <1>4

LEMMA SliceIs ==
  ASSUME NEW b \in Scenarios, b = world.bound, NEW s, SesSound(b, s)
  PROVE  SliceOf(s) /\ 0..(s.win.visited - 1) \subseteq s.shown
<1>1. SesTyped(s) /\ WinTyped(s.win)
  BY OpenIs
<1>2. CASE s.loaded
  <2>1. PICK T \in Int : T = Total(b, s.snap)
    BY <1>1, TotalIs DEF SesTyped
  <2>2. T = world.bound.events - Monus(s.snap, 1)
    BY <2>1 DEF Total
  <2>3. PICK d : d = s.deque
    OBVIOUS
  <2>4. PICK w : w = s.win
    OBVIOUS
  <2>5. Slice(d, T) /\ Lies(w, d) /\ Seen(w, s.shown) /\ WinTyped(w) /\ (w.exhausted <=> ~HasOlder(d))
    BY <1>1, <1>2, <2>1, <2>3, <2>4 DEF SesSound, Filled
  <2>6. /\ Len(d) \in Nat /\ w.cache = Ords(d)
        /\ \A i \in 1..Len(d) : w.cache[i] = d[i].ord /\ w.cache[i] = w.start + i - 1
    BY <2>5, CacheOf DEF Lies
  <2>7. \A i \in 1..Len(d) : w.cache[i] = w.start + i - 1 /\ w.cache[i] < T
    BY <2>5, <2>6 DEF Slice
  <2>8. ASSUME Len(d) > 0
        PROVE  /\ w.active \in 1..Len(d) /\ (d[1].before <=> w.start > 0)
               /\ ~HasOlder(d) => w.start + Len(d) = T
    <3>1. 1 \in 1..Len(d) /\ Len(d) \in 1..Len(d) /\ d \in Seq(Cells)
      BY <2>5, <2>6, <2>8 DEF Slice
    <3>2. w.active \in 1..Len(d) /\ d[1].ord = w.start
      BY <2>5, <2>8, <3>1, NotEmpty DEF Lies
    <3>3. d[1].before <=> w.start > 0
      BY <2>5, <3>1, <3>2 DEF Slice
    <3>4. ASSUME ~HasOlder(d) PROVE w.start + Len(d) = T
      <4>1. ~d[Len(d)].after
        BY <2>8, <3>1, <3>4, EdgesOf
      <4>2. d[Len(d)].ord = T - 1
        BY <2>5, <3>1, <4>1 DEF Slice
      <4>3. d[Len(d)].ord = w.start + Len(d) - 1 /\ w.start \in Nat
        BY <2>5, <2>6, <3>1 DEF WinTyped
      <4>4. PICK n \in Nat : n = Len(d)
        BY <2>6
      <4>5. PICK x \in Nat : x = w.start
        BY <4>3
      <4>6. PICK y : y = d[Len(d)].ord
        OBVIOUS
      <4>7. y = T - 1 /\ y = x + n - 1
        BY <4>2, <4>3, <4>4, <4>5, <4>6
      <4>8. x + n = T
        BY <4>7
      <4> QED
        BY <4>4, <4>5, <4>8
    <3> QED
      BY <3>2, <3>3, <3>4
  <2>9. SliceOf(s)
    BY <2>2, <2>3, <2>4, <2>5, <2>6, <2>7, <2>8 DEF SliceOf
  <2> QED
    BY <2>4, <2>5, <2>9 DEF Seen
<1>3. CASE ~s.loaded
  <2>1. s.win.visited = 0
    BY <1>3 DEF SesSound, Blank
  <2> QED
    BY <1>3, <2>1 DEF SliceOf
<1> QED
  BY <1>2, <1>3

LEMMA TimelineIs == TimelineInv => TimelineConsistent
<1> SUFFICES ASSUME TimelineInv PROVE TimelineConsistent
  OBVIOUS
<1>1. WorldSound(world) /\ PageSound(world.bound, u)
  BY DEF TimelineInv
<1>2. PICK b \in Scenarios : b = world.bound
  BY <1>1 DEF WorldSound
<1>3. /\ Typed(b, u) /\ KeptSound(b, u.kept)
      /\ u.ses # NoSession <=> u.mode = "exploration"
      /\ u.ses # NoSession => SesSound(b, u.ses) /\ u.ses.loading = (u.req # NoRequest)
      /\ u.ses # NoSession <=> u.ses.open
  BY <1>1, <1>2, PageParts
<1>4. u.kept.ses.open => SesSound(b, u.kept.ses) /\ ~u.kept.ses.loading /\ u.kept.ses.win.phase \in {"idle", "complete"}
  BY <1>3 DEF KeptSound, NoSession
<1>5. TypeOK
  <2>1. u.ses.open => u.ses.win.phase \in Phases
    BY <1>3, OpenIs DEF WinTyped
  <2>2. u.ses.open => (u.ses.loading <=> u.req # NoRequest)
    BY <1>3
  <2> QED
    BY <1>3, <1>4, <2>1, <2>2 DEF TypeOK, Typed
<1>6. CacheMatchesTimeline
  BY <1>2, <1>3, <1>4, SliceIs DEF CacheMatchesTimeline
<1>7. NoEventSkipped
  BY <1>2, <1>3, SliceIs DEF NoEventSkipped
<1> QED
  BY <1>5, <1>6, <1>7 DEF TimelineConsistent

(* The session, its cache and its window tell one story: the cache is one  *)
(* gapless slice of the timeline, an edge is closed only where the         *)
(* timeline ends, the deque and the window hold the same bundles, and no   *)
(* event the reader has gone past was left out of the scene                *)
(* (universe-timeline-deque.ts, universe-timeline-window.ts and            *)
(* knowledge-universe.tsx), whatever the length of the timeline, the page  *)
(* sizes and the limits.                                                   *)
THEOREM TimelineHolds == Spec => []TimelineConsistent
<1>1. Spec => []TimelineInv
  BY TimelineInit, TimelineStep, PTL DEF Spec
<1> QED
  BY <1>1, TimelineIs, PTL

(* The focused event changes by a page turn only: pages that arrive or are *)
(* refused, new limits, renders and every interruption leave it where it   *)
(* is (syncTimelineWindow and advanceTimelineWindow).                      *)
THEOREM FocusHolds == Spec => FocusStays
<1>1. Spec => []TimelineInv
  BY TimelineInit, TimelineStep, PTL DEF Spec
<1>2. TimelineInv /\ [Next]_vars =>
        [\/ Focus(u') \in {Focus(u), <<>>} \/ Focus(u) = <<>>
         \/ u.marker = "none" /\ u'.marker = "live"]_vars
  BY TimelineStep DEF Moves
<1> QED
  BY <1>1, <1>2, PTL DEF Spec, FocusStays

=============================================================================
