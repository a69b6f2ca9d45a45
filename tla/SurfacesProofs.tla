--------------------------- MODULE SurfacesProofs ---------------------------
(* The surfaces around the universe, for every number of processes, starts,    *)
(* folders, files, sources, documents, forms and gestures: what the desktop     *)
(* application and the runner of a developer start is stopped by somebody, the  *)
(* import of a folder sends what it read, the list of sources, the page of a     *)
(* source and its feed follow what the server holds, and the forms and cards of  *)
(* the settings tell what is under way.                                          *)
EXTENDS MCSurfaces, FiniteSetTheorems, WellFoundedInduction, TLAPS

(***************************************************************************)
(* The desktop application (DesktopApp).                                   *)
(***************************************************************************)
Starts == [n : 1..MaxBoots, step : {"api", "web", "wait"}, web : BOOLEAN, api : BOOLEAN, port : {0} \cup WebPorts]
Children == [boot : 1..MaxBoots, launch : 1..MaxLaunches, kind : {"web", "api"}, port : {ApiPort} \cup WebPorts,
             phase : {"starting", "up", "closing"}, killed : BOOLEAN]
Applications ==
  [up : BOOLEAN, launch : 0..MaxLaunches, darwin : BOOLEAN, foreign : BOOLEAN, install : Installs,
   quitting : BOOLEAN, relaunch : BOOLEAN, splash : {"none", "shown", "error", "closed"},
   main : {"none", "loading", "shown"}, runtime : 0..MaxBoots, boots : SUBSET Starts, count : 0..MaxBoots,
   overlap : BOOLEAN, cut : BOOLEAN, ipc : BOOLEAN, lost : Nat, updaters : Nat,
   update : {"none", "failed", "checking", "downloading", "downloaded", "installed"},
   checkpoint : {"none", "asked", "untold", "made", "missing", "told"}]

\* A process in somebody's hands: told to stop, of an earlier launch, of the
\* runtime or of a start that waits for it.
HandsOn(a, p) == (p.launch = a.launch /\ ~p.killed) =>
                    p.boot = a.runtime \/ \E b \in a.boots : b.n = p.boot /\ b.step = "wait"

\* What the application knows of its starts.
StartsAgree(a) ==
  /\ \A b \in a.boots : b.n <= a.count /\ b.n # a.runtime
  /\ a.runtime <= a.count
  /\ \A b, c \in a.boots : b.n = c.n => b = c
  /\ a.up => a.launch > 0
  /\ ~a.up => a.boots = {} /\ a.runtime = 0 /\ a.main = "none" /\ ~a.quitting
  /\ ~a.overlap => (a.boots # {} => a.runtime = 0 /\ a.main = "none")
  /\ ~a.overlap => \A b, c \in a.boots : b = c
  /\ (a.quitting /\ ~a.cut) => a.boots = {} /\ a.runtime = 0
  /\ a.runtime # 0 => a.ipc
  /\ (a.up /\ ~a.quitting /\ a.main # "none") => a.runtime # 0

ChildrenHeld(a, ps) ==
  /\ \A p \in ps : p.boot <= a.count /\ p.launch <= a.launch
  /\ (a.up /\ ~a.overlap) => \A p \in ps : HandsOn(a, p)
  /\ (~a.up /\ ~a.cut /\ ~a.overlap) => \A p \in ps : p.launch = a.launch => p.killed

Held(a, ps) == a \in Applications /\ ps \subseteq Children /\ StartsAgree(a) /\ ChildrenHeld(a, ps)
DesktopCorrect == Held(app, procs)

LEMMA CorrectIsConsistent == DesktopCorrect => DesktopConsistent
  BY DEF DesktopCorrect, Held, ChildrenHeld, HandsOn, StartsAgree, Applications, Starts, Children,
         DesktopConsistent, DesktopTypeOK, ProcessesAreHeld, NothingOutlives, WindowIsServed

LEMMA LeastPort ==
  ASSUME NEW S, S \subseteq Nat, S # {}
  PROVE  Min(S) \in S
<1>1. PICK x \in S : \A y \in S : ~(<<y, x>> \in OpToRel(<, Nat))
  BY NatLessThanWellFounded, WFMin
<1>2. \A y \in S : <<y, x>> \in Nat \X Nat /\ <<y, x>>[1] = y /\ <<y, x>>[2] = x
  OBVIOUS
<1>3. \A y \in S : ~(y < x)
  BY <1>1, <1>2, Zenon DEF OpToRel
<1>4. \A y \in S : x <= y
  BY <1>3
<1> QED
  BY <1>4 DEF Min

-----------------------------------------------------------------------------
\* Processes that end, or are told to stop, leave everything in order.
LEMMA ChildrenGoOn ==
  ASSUME NEW a, NEW ps, NEW qs, Held(a, ps), qs \subseteq Children,
         \A q \in qs : \E p \in ps : q.boot = p.boot /\ q.launch = p.launch /\ (p.killed => q.killed)
  PROVE  Held(a, qs)
<1>1. ChildrenHeld(a, ps)
  BY DEF Held
<1>2. \A q \in qs : q.boot <= a.count /\ q.launch <= a.launch
  BY <1>1 DEF ChildrenHeld
<1>3. ASSUME a.up, ~a.overlap, NEW q \in qs
      PROVE  HandsOn(a, q)
  BY <1>1, <1>3 DEF ChildrenHeld, HandsOn
<1>4. ASSUME ~a.up, ~a.cut, ~a.overlap, NEW q \in qs, q.launch = a.launch
      PROVE  q.killed
  BY <1>1, <1>4 DEF ChildrenHeld
<1>5. ChildrenHeld(a, qs)
  BY <1>2, <1>3, <1>4 DEF ChildrenHeld
<1> QED
  BY <1>5 DEF Held

LEMMA SignalHolds ==
  ASSUME NEW a, NEW ps, NEW n, Held(a, ps)
  PROVE  /\ Held(a, Signalled(ps, n))
         /\ \A q \in Signalled(ps, n) : q.boot = n => q.killed
<1> DEFINE Tells(q, p) == /\ q \in Children /\ q.boot = p.boot /\ q.launch = p.launch
                          /\ p.killed => q.killed
                          /\ q.boot = n => q.killed
<1>1. ASSUME NEW q \in Signalled(ps, n)
      PROVE  \E p \in ps : Tells(q, p)
  <2>1. PICK p \in ps : q = IF p.boot = n THEN [p EXCEPT !.killed = TRUE] ELSE p
    BY DEF Signalled
  <2>2. p \in Children
    BY DEF Held
  <2>3. Tells(q, p)
    BY <2>1, <2>2 DEF Children
  <2> QED
    BY <2>3
<1>2. Signalled(ps, n) \subseteq Children
  BY <1>1
<1>3. \A q \in Signalled(ps, n) : \E p \in ps : q.boot = p.boot /\ q.launch = p.launch /\ (p.killed => q.killed)
  BY <1>1
<1>4. Held(a, Signalled(ps, n))
  BY <1>2, <1>3, ChildrenGoOn
<1> QED
  BY <1>1, <1>4

\* What is neither a start nor what it began may change.
LEMMA AsideHolds ==
  ASSUME NEW a, NEW c, NEW ps, Held(a, ps), c \in Applications,
         c.up = a.up, c.launch = a.launch, c.boots = a.boots, c.runtime = a.runtime, c.count = a.count,
         c.overlap = a.overlap, c.cut = a.cut, c.quitting = a.quitting, c.ipc = a.ipc,
         c.main # a.main => c.main = "none" \/ (a.up /\ (a.main # "none" \/ a.runtime # 0))
  PROVE  Held(c, ps)
<1>1. ChildrenHeld(c, ps)
  BY DEF Held, ChildrenHeld, HandsOn
<1>2. a.runtime # 0 /\ ~a.overlap => a.boots = {}
  BY DEF Held, StartsAgree
<1>3. StartsAgree(c)
  BY <1>2 DEF Held, StartsAgree
<1> QED
  BY <1>1, <1>3 DEF Held

LEMMA NewBootHolds ==
  ASSUME NEW a, NEW ps, Held(a, ps), a.up, a.count < MaxBoots, ~a.quitting, a.main = "none", a.runtime = 0
  PROVE  Held(NewBoot(a), ps)
<1> DEFINE c == NewBoot(a)
           b0 == [n |-> a.count + 1, step |-> "api", web |-> FALSE, api |-> FALSE, port |-> 0]
<1>1. a \in Applications
  BY DEF Held
<1>2. /\ c.boots = a.boots \cup {b0} /\ c.count = a.count + 1 /\ (~c.overlap => ~a.overlap /\ a.boots = {})
      /\ c.up = a.up /\ c.launch = a.launch /\ c.runtime = 0 /\ c.cut = a.cut /\ c.quitting = a.quitting
      /\ c.ipc = a.ipc /\ c.main = "none"
  BY <1>1 DEF NewBoot, Applications
<1>a. (a.overlap \/ a.boots # {}) \in BOOLEAN
  OBVIOUS
<1>3. b0 \in Starts /\ a.count \in Nat /\ a.count + 1 \in 1..MaxBoots
  BY <1>1, DesktopAssumption DEF Starts, Applications
<1>4. c \in Applications
  <2>1. ASSUME NEW B \in SUBSET Starts, NEW n \in 0..MaxBoots, NEW o \in BOOLEAN, NEW l \in Nat
        PROVE  [a EXCEPT !.boots = B, !.count = n, !.overlap = o, !.lost = l, !.splash = "shown"] \in Applications
    BY <1>1 DEF Applications
  <2>2. a.boots \cup {b0} \in SUBSET Starts
    BY <1>1, <1>3 DEF Applications
  <2>3. a.count + 1 \in 0..MaxBoots
    BY <1>3
  <2>4. (IF a.splash \in {"shown", "error"} THEN a.lost + 1 ELSE a.lost) \in Nat
    BY <1>1 DEF Applications
  <2> QED
    BY <2>1, <2>2, <2>3, <2>4, <1>a, Zenon DEF NewBoot
<1>5. \A b \in a.boots : b.n <= a.count /\ b.n \in Nat
  BY <1>1 DEF Held, StartsAgree, Applications, Starts
<1> HIDE DEF c, b0
<1>6. b0.n = a.count + 1
  BY DEF b0
<1>7. StartsAgree(c)
  BY <1>2, <1>3, <1>5, <1>6 DEF Held, StartsAgree
<1>8. \A p \in ps : p.boot <= a.count /\ p.boot \in Nat /\ p.launch <= a.launch
  BY DEF Held, ChildrenHeld, Children
<1>9. ChildrenHeld(c, ps)
  BY <1>2, <1>3, <1>8 DEF Held, ChildrenHeld, HandsOn
<1> QED
  BY <1>4, <1>7, <1>9 DEF Held, c

-----------------------------------------------------------------------------
\* A start that is over, or has failed.
LEMMA BootOverHolds ==
  ASSUME NEW a, NEW ps, NEW b \in a.boots, Held(a, ps), NEW c \in Applications,
         c.up = a.up, c.launch = a.launch, c.boots = a.boots \ {b}, c.runtime = a.runtime, c.count = a.count,
         c.overlap = a.overlap, c.cut = a.cut, c.quitting = a.quitting, c.ipc = a.ipc, c.main = a.main,
         \A p \in ps : p.boot = b.n => p.killed
  PROVE  Held(c, ps)
<1>1. StartsAgree(c)
  BY DEF Held, StartsAgree
<1>2. ChildrenHeld(c, ps)
  BY DEF Held, ChildrenHeld, HandsOn
<1> QED
  BY <1>1, <1>2 DEF Held

LEMMA FailHolds ==
  ASSUME NEW b \in app.boots, DesktopCorrect, Fails(b)
  PROVE  DesktopCorrect'
<1> DEFINE ps == Signalled(procs, b.n)
<1>1. Held(app, ps) /\ \A q \in ps : q.boot = b.n => q.killed
  BY SignalHolds DEF DesktopCorrect
<1>2. app \in Applications
  BY DEF DesktopCorrect, Held
<1>3. app' = [app EXCEPT !.boots = @ \ {b}, !.splash = IF @ = "shown" THEN "error" ELSE @] /\ procs' = ps
  BY DEF Fails
<1>4. /\ app' \in Applications
      /\ app'.up = app.up /\ app'.launch = app.launch /\ app'.boots = app.boots \ {b}
      /\ app'.runtime = app.runtime /\ app'.count = app.count /\ app'.overlap = app.overlap
      /\ app'.cut = app.cut /\ app'.quitting = app.quitting /\ app'.ipc = app.ipc /\ app'.main = app.main
  BY <1>2, <1>3 DEF Applications
<1> HIDE DEF ps
<1>5. Held(app', ps)
  BY <1>1, <1>4, BootOverHolds
<1> QED
  BY <1>3, <1>5 DEF DesktopCorrect
\* A step of a start.
LEMMA StepHolds ==
  ASSUME NEW b \in app.boots, NEW c \in Starts, DesktopCorrect, Steps(b, c), c.n = b.n,
         b.step = "wait" => c.step = "wait"
  PROVE  Held(app', procs) /\ c \in app'.boots /\ app'.launch = app.launch /\ app'.count = app.count
<1>1. app \in Applications /\ Held(app, procs)
  BY DEF DesktopCorrect, Held
<1>2. app' = [app EXCEPT !.boots = (@ \ {b}) \cup {c}]
  BY DEF Steps
<1>3. /\ app' \in Applications
      /\ app'.up = app.up /\ app'.launch = app.launch /\ app'.boots = (app.boots \ {b}) \cup {c}
      /\ app'.runtime = app.runtime /\ app'.count = app.count /\ app'.overlap = app.overlap
      /\ app'.cut = app.cut /\ app'.quitting = app.quitting /\ app'.ipc = app.ipc /\ app'.main = app.main
  BY <1>1, <1>2 DEF Applications
<1>4. StartsAgree(app')
  BY <1>1, <1>3 DEF Held, StartsAgree
<1>5. ChildrenHeld(app', procs)
  BY <1>1, <1>3 DEF Held, ChildrenHeld, HandsOn
<1> QED
  BY <1>1, <1>3, <1>4, <1>5 DEF Held

LEMMA CheckApiPortHolds == DesktopCorrect /\ CheckApiPort => DesktopCorrect'
<1> SUFFICES ASSUME DesktopCorrect, CheckApiPort
             PROVE  DesktopCorrect'
  OBVIOUS
<1>1. PICK b \in app.boots : /\ b.step = "api"
                             /\ \/ Fails(b)
                                \/ Steps(b, [b EXCEPT !.step = "web"]) /\ procs' = procs
  BY DEF CheckApiPort
<1>2. b \in Starts
  BY DEF DesktopCorrect, Held, Applications
<1>3. [b EXCEPT !.step = "web"] \in Starts /\ [b EXCEPT !.step = "web"].n = b.n
  BY <1>2 DEF Starts
<1> QED
  BY <1>1, <1>3, FailHolds, StepHolds DEF DesktopCorrect

LEMMA AnswerHolds == DesktopCorrect /\ (WebAnswers \/ ApiAnswers) => DesktopCorrect'
<1> SUFFICES ASSUME DesktopCorrect, WebAnswers \/ ApiAnswers
             PROVE  DesktopCorrect'
  OBVIOUS
<1>1. PICK b \in app.boots : /\ Steps(b, [b EXCEPT !.web = TRUE]) \/ Steps(b, [b EXCEPT !.api = TRUE])
                             /\ procs' = procs
  BY DEF WebAnswers, ApiAnswers
<1>2. b \in Starts
  BY DEF DesktopCorrect, Held, Applications
<1>3. \A c \in {[b EXCEPT !.web = TRUE], [b EXCEPT !.api = TRUE]} : c \in Starts /\ c.n = b.n /\ c.step = b.step
  BY <1>2 DEF Starts
<1> QED
  BY <1>1, <1>3, StepHolds DEF DesktopCorrect

LEMMA StartTimesOutHolds == DesktopCorrect /\ StartTimesOut => DesktopCorrect'
  BY FailHolds DEF StartTimesOut

LEMMA StartProcessesHolds == DesktopCorrect /\ StartProcesses => DesktopCorrect'
<1> SUFFICES ASSUME DesktopCorrect, StartProcesses
             PROVE  DesktopCorrect'
  OBVIOUS
<1>1. PICK b \in app.boots : /\ app.up /\ b.step = "web"
                             /\ IF FreePorts = {} \/ app.install = "no web" THEN Fails(b)
                                ELSE LET web == Process(b, "web", Min(FreePorts))
                                     IN  IF app.install = "no api"
                                         THEN /\ app' = [app EXCEPT !.boots = @ \ {b}, !.splash = IF @ = "shown" THEN "error" ELSE @]
                                              /\ procs' = procs \cup {[web EXCEPT !.killed = TRUE]}
                                         ELSE /\ Steps(b, [b EXCEPT !.step = "wait", !.port = web.port])
                                              /\ procs' = procs \cup {web, Process(b, "api", ApiPort)}
  BY DEF StartProcesses
<1> DEFINE web == Process(b, "web", Min(FreePorts))
           api == Process(b, "api", ApiPort)
<1>2. /\ b \in Starts /\ app \in Applications /\ Held(app, procs)
      /\ b.n <= app.count /\ app.launch \in 1..MaxLaunches /\ b.n \in 1..MaxBoots
  <2>1. b \in Starts /\ app \in Applications /\ Held(app, procs)
    BY DEF DesktopCorrect, Held, Applications
  <2>2. b.n <= app.count /\ app.launch > 0
    BY <1>1, <2>1 DEF Held, StartsAgree
  <2>3. app.launch \in 0..MaxLaunches
    BY <2>1 DEF Applications
  <2>4. b.n \in 1..MaxBoots
    BY <2>1 DEF Starts
  <2> QED
    BY <2>1, <2>2, <2>3, <2>4, DesktopAssumption
<1>3. CASE FreePorts = {} \/ app.install = "no web"
  BY <1>1, <1>3, FailHolds
<1>4. CASE FreePorts # {} /\ app.install # "no web"
  <2>1. Min(FreePorts) \in WebPorts
    BY <1>4, LeastPort, DesktopAssumption DEF FreePorts
  <2>2. /\ web \in Children /\ web.boot = b.n /\ web.launch = app.launch /\ web.port \in WebPorts
        /\ api \in Children /\ api.boot = b.n /\ api.launch = app.launch
    BY <1>2, <2>1 DEF Process, Children
  <2>3. CASE app.install = "no api"
    <3> DEFINE killed == [web EXCEPT !.killed = TRUE]
    <3>1. killed \in Children /\ killed.boot = b.n /\ killed.launch = app.launch /\ killed.killed
      BY <2>2 DEF Children
    <3>2. /\ app' = [app EXCEPT !.boots = @ \ {b}, !.splash = IF @ = "shown" THEN "error" ELSE @]
          /\ procs' = procs \cup {killed}
      BY <1>1, <1>4, <2>3
    <3>3. /\ app' \in Applications
          /\ app'.up = app.up /\ app'.launch = app.launch /\ app'.boots = app.boots \ {b}
          /\ app'.runtime = app.runtime /\ app'.count = app.count /\ app'.overlap = app.overlap
          /\ app'.cut = app.cut /\ app'.quitting = app.quitting /\ app'.ipc = app.ipc /\ app'.main = app.main
      BY <1>2, <3>2 DEF Applications
    <3> HIDE DEF killed, web
    <3>4. StartsAgree(app')
      BY <1>2, <3>3 DEF Held, StartsAgree
    <3>5. ChildrenHeld(app', procs')
      <4>1. \A p \in procs' : p \in procs \/ p = killed
        BY <3>2
      <4>2. \A p \in procs : p.boot <= app.count /\ p.launch <= app.launch
        BY <1>2 DEF Held, ChildrenHeld
      <4>3. \A p \in procs' : p.boot <= app'.count /\ p.launch <= app'.launch
        BY <1>2, <3>1, <3>3, <4>1, <4>2 DEF Children
      <4>4. ASSUME ~app.overlap, NEW p \in procs
            PROVE  HandsOn(app', p)
        BY <1>1, <1>2, <3>3, <4>4 DEF Held, ChildrenHeld, StartsAgree, HandsOn
      <4>5. HandsOn(app', killed)
        BY <3>1 DEF HandsOn
      <4> QED
        BY <1>1, <3>3, <4>1, <4>3, <4>4, <4>5 DEF ChildrenHeld
    <3>6. procs' \subseteq Children
      BY <1>2, <3>1, <3>2 DEF Held
    <3> QED
      BY <3>3, <3>4, <3>5, <3>6 DEF DesktopCorrect, Held
  <2>4. CASE app.install # "no api"
    <3> DEFINE c == [b EXCEPT !.step = "wait", !.port = web.port]
    <3>1. Steps(b, c) /\ procs' = procs \cup {web, api}
      BY <1>1, <1>4, <2>4
    <3>2. c \in Starts /\ c.n = b.n /\ c.step = "wait"
      BY <1>2, <2>2 DEF Starts
    <3> HIDE DEF c, web, api
    <3>3. Held(app', procs) /\ c \in app'.boots /\ app'.launch = app.launch /\ app'.count = app.count
      BY <3>1, <3>2, StepHolds
    <3>4. \A p \in {web, api} : p \in Children /\ p.boot = c.n /\ p.launch = app'.launch /\ HandsOn(app', p)
      BY <2>2, <3>2, <3>3 DEF HandsOn
    <3>5. \A p \in {web, api} : p.boot <= app'.count /\ p.launch <= app'.launch
      BY <1>2, <3>2, <3>3, <3>4
    <3>6. app'.up
      <4>1. app' = [app EXCEPT !.boots = (@ \ {b}) \cup {c}]
        BY <3>1 DEF Steps
      <4> QED
        BY <1>1, <1>2, <4>1 DEF Applications
    <3>7. ChildrenHeld(app', procs')
      BY <3>1, <3>3, <3>4, <3>5, <3>6 DEF Held, ChildrenHeld
    <3> QED
      BY <3>1, <3>3, <3>4, <3>7 DEF DesktopCorrect, Held
  <2> QED
    BY <2>3, <2>4
<1> QED
  BY <1>3, <1>4

LEMMA StartDoneHolds == DesktopCorrect /\ StartDone => DesktopCorrect'
<1> SUFFICES ASSUME DesktopCorrect, StartDone
             PROVE  DesktopCorrect'
  OBVIOUS
<1>1. PICK b \in app.boots :
        /\ app.up /\ procs' = procs
        /\ app' = [app EXCEPT !.boots = @ \ {b}, !.runtime = b.n, !.main = "loading", !.ipc = TRUE,
                              !.lost = IF app.main # "none" THEN @ + 1 ELSE @,
                              !.updaters = @ + 1]
  BY DEF StartDone
<1>2. b \in Starts /\ app \in Applications /\ Held(app, procs) /\ b.n \in 1..MaxBoots
  BY DEF DesktopCorrect, Held, Applications, Starts
<1>3. /\ app' \in Applications
      /\ app'.up = app.up /\ app'.launch = app.launch /\ app'.boots = app.boots \ {b}
      /\ app'.runtime = b.n /\ app'.count = app.count /\ app'.overlap = app.overlap
      /\ app'.cut = app.cut /\ app'.quitting = app.quitting /\ app'.ipc = TRUE /\ app'.main = "loading"
  <2>1. PICK l \in Nat : app' = [app EXCEPT !.boots = @ \ {b}, !.runtime = b.n, !.main = "loading", !.ipc = TRUE,
                                          !.lost = l, !.updaters = @ + 1]
    <3>1. (IF app.main # "none" THEN app.lost + 1 ELSE app.lost) \in Nat
      BY <1>2 DEF Applications
    <3> QED
      BY <1>1, <3>1
  <2>2. app.updaters + 1 \in Nat /\ app.boots \ {b} \in SUBSET Starts /\ b.n \in 0..MaxBoots
    BY <1>2 DEF Applications
  <2> QED
    BY <1>2, <2>1, <2>2 DEF Applications
<1>4. StartsAgree(app')
  BY <1>1, <1>2, <1>3 DEF Held, StartsAgree
<1>5. ChildrenHeld(app', procs)
  <2>1. ASSUME ~app.overlap, NEW p \in procs
        PROVE  HandsOn(app', p)
    <3>1. app.runtime = 0 /\ \A c \in app.boots : c = b
      BY <1>1, <1>2, <2>1 DEF Held, StartsAgree
    <3>2. HandsOn(app, p) /\ p.boot # 0
      BY <1>1, <1>2, <2>1, DesktopAssumption DEF Held, ChildrenHeld, Children
    <3> QED
      BY <1>3, <3>1, <3>2 DEF HandsOn
  <2> QED
    BY <1>1, <1>2, <1>3, <2>1 DEF Held, ChildrenHeld
<1> QED
  BY <1>1, <1>2, <1>3, <1>4, <1>5 DEF DesktopCorrect, Held

-----------------------------------------------------------------------------
LEMMA QuitHolds ==
  ASSUME NEW a, Held(a, procs), a.up, Quits(a)
  PROVE  DesktopCorrect'
<1> DEFINE ps == Signalled(procs, a.runtime)
<1>1. Held(a, ps) /\ \A q \in ps : q.boot = a.runtime => q.killed
  BY SignalHolds
<1>2. app' = [a EXCEPT !.quitting = TRUE, !.runtime = 0, !.updaters = 0, !.cut = a.boots # {}] /\ procs' = ps
  BY DEF Quits
<1>3. a \in Applications
  BY DEF Held
<1>4. (a.boots # {}) \in BOOLEAN
  OBVIOUS
<1>5. /\ app' \in Applications
      /\ app'.up = a.up /\ app'.launch = a.launch /\ app'.boots = a.boots
      /\ app'.runtime = 0 /\ app'.count = a.count /\ app'.overlap = a.overlap
      /\ (~app'.cut => a.boots = {}) /\ app'.quitting = TRUE /\ app'.ipc = a.ipc /\ app'.main = a.main
  <2>1. PICK cut \in BOOLEAN : /\ cut = (a.boots # {})
                               /\ app' = [a EXCEPT !.quitting = TRUE, !.runtime = 0, !.updaters = 0, !.cut = cut]
    BY <1>2, <1>4
  <2>2. 0 \in 0..MaxBoots
    BY DesktopAssumption
  <2> QED
    BY <1>3, <2>1, <2>2 DEF Applications
<1> HIDE DEF ps
<1>6. StartsAgree(app')
  <2>1. \A b \in a.boots : b.n # 0
    BY <1>3 DEF Applications, Starts
  <2>2. 0 <= a.count
    BY <1>3 DEF Applications
  <2> QED
    BY <1>5, <2>1, <2>2 DEF Held, StartsAgree
<1>7. ChildrenHeld(app', ps)
  BY <1>1, <1>5 DEF Held, ChildrenHeld, HandsOn
<1> QED
  BY <1>1, <1>2, <1>5, <1>6, <1>7 DEF DesktopCorrect, Held

\* Nothing of the application is left but its mark that it was stopped early.
LEMMA OffHolds ==
  ASSUME NEW a, NEW ps, NEW qs, NEW c \in {Off(a), [Off(a) EXCEPT !.relaunch = TRUE]}, Held(a, ps), qs \subseteq ps, a.up,
         (~a.cut /\ ~a.overlap) => \A p \in qs : p.launch = a.launch => p.killed
  PROVE  Held(c, qs)
<1>1. a \in Applications
  BY DEF Held
<1>2. /\ c \in Applications
      /\ c.up = FALSE /\ c.launch = a.launch /\ c.boots = {}
      /\ c.runtime = 0 /\ c.count = a.count /\ c.overlap = a.overlap
      /\ c.cut = a.cut /\ c.quitting = FALSE /\ c.main = "none"
  <2>1. 0 \in 0..MaxBoots
    BY DesktopAssumption
  <2>2. PICK u \in {"installed", "none"}, r \in BOOLEAN :
          c = [a EXCEPT !.up = FALSE, !.boots = {}, !.runtime = 0, !.main = "none", !.splash = "none",
                        !.ipc = FALSE, !.updaters = 0, !.lost = 0, !.quitting = FALSE,
                        !.update = u, !.checkpoint = "none", !.relaunch = r]
    <3> DEFINE u == IF a.update = "downloaded" THEN "installed" ELSE "none"
    <3>1. CASE c = Off(a)
      <4>1. Off(a) = [a EXCEPT !.up = FALSE, !.boots = {}, !.runtime = 0, !.main = "none", !.splash = "none",
                        !.ipc = FALSE, !.updaters = 0, !.lost = 0, !.quitting = FALSE,
                        !.update = u, !.checkpoint = "none", !.relaunch = a.relaunch]
        BY <1>1 DEF Off, Applications
      <4>2. a.relaunch \in BOOLEAN
        BY <1>1 DEF Applications
      <4> QED
        BY <3>1, <4>1, <4>2
    <3>2. CASE c = [Off(a) EXCEPT !.relaunch = TRUE]
      <4>1. [Off(a) EXCEPT !.relaunch = TRUE] =
                     [a EXCEPT !.up = FALSE, !.boots = {}, !.runtime = 0, !.main = "none", !.splash = "none",
                        !.ipc = FALSE, !.updaters = 0, !.lost = 0, !.quitting = FALSE,
                        !.update = u, !.checkpoint = "none", !.relaunch = TRUE]
        BY <1>1 DEF Off, Applications
      <4> QED
        BY <3>2, <4>1
    <3> QED
      BY <3>1, <3>2
  <2>3. /\ c.up = FALSE /\ c.boots = {} /\ c.runtime = 0 /\ c.main = "none" /\ c.splash = "none" /\ c.ipc = FALSE
        /\ c.updaters = 0 /\ c.lost = 0 /\ c.quitting = FALSE /\ c.update = u /\ c.checkpoint = "none" /\ c.relaunch = r
    BY <1>1, <2>2 DEF Applications
  <2>4. c.launch = a.launch /\ c.count = a.count /\ c.overlap = a.overlap /\ c.cut = a.cut
    BY <1>1, <2>2 DEF Applications
  <2>5. c \in Applications
    <3> DEFINE d == [a EXCEPT !.up = FALSE, !.boots = {}, !.runtime = 0, !.main = "none", !.splash = "none",
                              !.ipc = FALSE]
    <3>1. d \in Applications
      BY <1>1, <2>1 DEF Applications
    <3>2. c = [d EXCEPT !.updaters = 0, !.lost = 0, !.quitting = FALSE, !.update = u, !.checkpoint = "none",
                        !.relaunch = r]
      BY <1>1, <2>2 DEF Applications
    <3> HIDE DEF d
    <3> QED
      BY <3>1, <3>2 DEF Applications
  <2> QED
    BY <2>3, <2>4, <2>5
<1>3. StartsAgree(c)
  BY <1>1, <1>2 DEF StartsAgree, Applications
<1>4. ChildrenHeld(c, qs)
  BY <1>2 DEF Held, ChildrenHeld
<1> QED
  BY <1>2, <1>3, <1>4 DEF Held

LEMMA ExitHolds == DesktopCorrect /\ Exit => DesktopCorrect'
<1> SUFFICES ASSUME DesktopCorrect, Exit
             PROVE  DesktopCorrect'
  OBVIOUS
<1>1. /\ app.up /\ app.quitting /\ app' = Off(app)
      /\ procs' = {p \in procs : p.kind = "api"} /\ Held(app, procs)
  BY DEF Exit, DesktopCorrect
<1>2. ASSUME ~app.cut, ~app.overlap, NEW p \in procs, p.launch = app.launch
      PROVE  p.killed
  BY <1>1, <1>2 DEF Held, StartsAgree, ChildrenHeld, HandsOn, Children
<1>3. procs' \subseteq procs
  BY <1>1
<1>4. Held(app', procs')
  BY <1>1, <1>2, <1>3, OffHolds
<1> QED
  BY <1>4 DEF DesktopCorrect

LEMMA RestartHolds == DesktopCorrect /\ RestartForMaintenance => DesktopCorrect'
<1> SUFFICES ASSUME DesktopCorrect, RestartForMaintenance
             PROVE  DesktopCorrect'
  OBVIOUS
<1> DEFINE ps == Signalled(procs, app.runtime)
<1>1. /\ app.up /\ app.main = "shown" /\ app' = [Off(app) EXCEPT !.relaunch = TRUE]
      /\ procs' = {p \in ps : p.kind = "api"} /\ Held(app, procs)
  BY DEF RestartForMaintenance, DesktopCorrect
<1>2. Held(app, ps) /\ \A q \in ps : q.boot = app.runtime => q.killed
  BY <1>1, SignalHolds
<1> HIDE DEF ps
<1>3. ASSUME ~app.cut, ~app.overlap, NEW p \in ps, p.launch = app.launch
      PROVE  p.killed
  BY <1>1, <1>2, <1>3 DEF Held, StartsAgree, ChildrenHeld, HandsOn
<1>4. procs' \subseteq ps
  BY <1>1
<1>5. Held(app', procs')
  BY <1>1, <1>2, <1>3, <1>4, OffHolds
<1> QED
  BY <1>5 DEF DesktopCorrect

LEMMA LaunchHolds == DesktopCorrect /\ Launch => DesktopCorrect'
<1> SUFFICES ASSUME DesktopCorrect, Launch
             PROVE  DesktopCorrect'
  OBVIOUS
<1> DEFINE a == [app EXCEPT !.up = TRUE, !.launch = @ + 1, !.relaunch = FALSE, !.overlap = FALSE,
                            !.cut = FALSE, !.update = "none"]
<1>1. /\ ~app.up /\ app.launch < MaxLaunches /\ app.count < MaxBoots
      /\ app' = NewBoot(a) /\ procs' = procs /\ Held(app, procs) /\ app \in Applications
  BY DEF Launch, DesktopCorrect, Held
<1>2. app.launch + 1 \in 0..MaxLaunches /\ app.launch \in Nat
  BY <1>1, DesktopAssumption DEF Applications
<1>3. /\ a \in Applications
      /\ a.up = TRUE /\ a.launch = app.launch + 1 /\ a.boots = app.boots
      /\ a.runtime = app.runtime /\ a.count = app.count /\ a.overlap = FALSE
      /\ a.cut = FALSE /\ a.quitting = app.quitting /\ a.main = app.main
  BY <1>1, <1>2 DEF Applications
<1>4. app.boots = {} /\ app.runtime = 0 /\ app.main = "none" /\ ~app.quitting
  BY <1>1 DEF Held, StartsAgree
<1> HIDE DEF a
<1>5. StartsAgree(a)
  BY <1>1, <1>2, <1>3, <1>4 DEF StartsAgree, Applications
<1>6. \A p \in procs : p.boot <= app.count /\ p.launch <= app.launch /\ p.launch \in Nat
  BY <1>1 DEF Held, ChildrenHeld, Children
<1>7. ChildrenHeld(a, procs)
  <2>1. \A p \in procs : p.boot <= a.count /\ p.launch <= a.launch /\ p.launch # a.launch
    BY <1>2, <1>3, <1>6
  <2> QED
    BY <1>3, <2>1 DEF ChildrenHeld, HandsOn
<1>8. Held(a, procs)
  BY <1>1, <1>3, <1>5, <1>7 DEF Held
<1>9. Held(NewBoot(a), procs)
  BY <1>1, <1>3, <1>4, <1>8, NewBootHolds
<1> QED
  BY <1>1, <1>9 DEF DesktopCorrect

LEMMA CloseHolds == DesktopCorrect /\ (CloseMain \/ CloseSplash \/ Quit \/ InstallNow) => DesktopCorrect'
<1> SUFFICES ASSUME DesktopCorrect, CloseMain \/ CloseSplash \/ Quit \/ InstallNow
             PROVE  DesktopCorrect'
  OBVIOUS
<1> DEFINE Closed == {[app EXCEPT !.main = "none"], [app EXCEPT !.splash = "closed"],
                       [app EXCEPT !.checkpoint = "told"], app}
<1>1. PICK a \in Closed : app.up /\ (Quits(a) \/ (app' = a /\ procs' = procs))
  BY DEF CloseMain, CloseSplash, Quit, InstallNow
<1>2. app \in Applications /\ Held(app, procs)
  BY DEF DesktopCorrect, Held
<1>3. ASSUME NEW c \in Closed
      PROVE  /\ c \in Applications
             /\ c.up = app.up /\ c.launch = app.launch /\ c.boots = app.boots
             /\ c.runtime = app.runtime /\ c.count = app.count /\ c.overlap = app.overlap
             /\ c.cut = app.cut /\ c.quitting = app.quitting /\ c.ipc = app.ipc /\ c.main \in {app.main, "none"}
  <2>1. CASE c = [app EXCEPT !.main = "none"]
    BY <1>2, <2>1 DEF Applications
  <2>2. CASE c = [app EXCEPT !.splash = "closed"]
    BY <1>2, <2>2 DEF Applications
  <2>3. CASE c = [app EXCEPT !.checkpoint = "told"]
    BY <1>2, <2>3 DEF Applications
  <2> QED
    BY <1>2, <2>1, <2>2, <2>3
<1> HIDE DEF Closed
<1>4. Held(a, procs) /\ a.up
  BY <1>1, <1>2, <1>3, AsideHolds
<1> QED
  BY <1>1, <1>4, QuitHolds DEF DesktopCorrect

LEMMA WindowHolds == DesktopCorrect /\ (WindowReady \/ ActivateApp) => DesktopCorrect'
<1> SUFFICES ASSUME DesktopCorrect, WindowReady \/ ActivateApp
             PROVE  DesktopCorrect'
  OBVIOUS
<1>1. app \in Applications /\ Held(app, procs)
  BY DEF DesktopCorrect, Held
<1>2. CASE WindowReady
  <2>1. /\ app' = [app EXCEPT !.main = "shown", !.splash = "none"] /\ procs' = procs
        /\ app.up /\ app.main = "loading"
    BY <1>2 DEF WindowReady
  <2>2. /\ app' \in Applications
        /\ app'.up = app.up /\ app'.launch = app.launch /\ app'.boots = app.boots
        /\ app'.runtime = app.runtime /\ app'.count = app.count /\ app'.overlap = app.overlap
        /\ app'.cut = app.cut /\ app'.quitting = app.quitting /\ app'.ipc = app.ipc
    BY <1>1, <2>1 DEF Applications
  <2>3. Held(app', procs)
    BY <1>1, <2>1, <2>2, AsideHolds
  <2> QED
    BY <2>1, <2>3 DEF DesktopCorrect
<1>3. CASE ActivateApp /\ app.runtime # 0
  <2>1. app' = [app EXCEPT !.main = "loading"] /\ procs' = procs /\ app.up
    BY <1>3 DEF ActivateApp
  <2>2. /\ app' \in Applications
        /\ app'.up = app.up /\ app'.launch = app.launch /\ app'.boots = app.boots
        /\ app'.runtime = app.runtime /\ app'.count = app.count /\ app'.overlap = app.overlap
        /\ app'.cut = app.cut /\ app'.quitting = app.quitting /\ app'.ipc = app.ipc
    BY <1>1, <2>1 DEF Applications
  <2>3. Held(app', procs)
    BY <1>1, <1>3, <2>1, <2>2, AsideHolds
  <2> QED
    BY <2>1, <2>3 DEF DesktopCorrect
<1>4. CASE ActivateApp /\ app.runtime = 0
  <2>1. /\ app' = NewBoot(app) /\ procs' = procs /\ app.up
        /\ app.main = "none" /\ ~app.quitting /\ app.count < MaxBoots
    BY <1>4 DEF ActivateApp
  <2>2. Held(NewBoot(app), procs)
    BY <1>1, <1>4, <2>1, NewBootHolds
  <2> QED
    BY <2>1, <2>2 DEF DesktopCorrect
<1> QED
  BY <1>2, <1>3, <1>4

LEMMA UpdateHolds ==
  DesktopCorrect /\ (CheckForUpdates \/ UpdateFound \/ UpdateDownloaded \/ CheckpointDone \/ InstallLater) => DesktopCorrect'
<1> SUFFICES ASSUME DesktopCorrect,
                    CheckForUpdates \/ UpdateFound \/ UpdateDownloaded \/ CheckpointDone \/ InstallLater
             PROVE  DesktopCorrect'
  OBVIOUS
<1>1. app \in Applications /\ Held(app, procs)
  BY DEF DesktopCorrect, Held
<1>2. PICK u \in {"none", "failed", "checking", "downloading", "downloaded", "installed"},
           c \in {"none", "asked", "untold", "made", "missing", "told"} :
         app' = [app EXCEPT !.update = u, !.checkpoint = c] /\ procs' = procs
  <2>1. app.update \in {"none", "failed", "checking", "downloading", "downloaded", "installed"}
        /\ app.checkpoint \in {"none", "asked", "untold", "made", "missing", "told"}
    BY <1>1 DEF Applications
  <2>2. \A u : [app EXCEPT !.update = u] = [app EXCEPT !.update = u, !.checkpoint = app.checkpoint]
    BY <1>1 DEF Applications
  <2>3. \A c : [app EXCEPT !.checkpoint = c] = [app EXCEPT !.update = app.update, !.checkpoint = c]
    BY <1>1 DEF Applications
  <2>4. CASE CheckForUpdates
    BY <2>1, <2>2, <2>4 DEF CheckForUpdates
  <2>5. CASE UpdateFound
    <3>1. PICK u \in {"none", "failed", "downloading"} : app' = [app EXCEPT !.update = u] /\ procs' = procs
      BY <2>5 DEF UpdateFound
    <3> QED
      <4>1. app' = [app EXCEPT !.update = u, !.checkpoint = app.checkpoint]
        BY <2>2, <3>1
      <4>2. u \in {"none", "failed", "checking", "downloading", "downloaded", "installed"}
        BY <3>1
      <4> QED
        BY <2>1, <3>1, <4>1, <4>2, Zenon
  <2>6. CASE UpdateDownloaded
    BY <2>1, <2>6 DEF UpdateDownloaded
  <2>7. CASE CheckpointDone
    BY <2>1, <2>3, <2>7 DEF CheckpointDone
  <2>8. CASE InstallLater
    BY <2>1, <2>3, <2>8 DEF InstallLater
  <2> QED
    BY <2>4, <2>5, <2>6, <2>7, <2>8
<1>3. /\ app' \in Applications
      /\ app'.up = app.up /\ app'.launch = app.launch /\ app'.boots = app.boots
      /\ app'.runtime = app.runtime /\ app'.count = app.count /\ app'.overlap = app.overlap
      /\ app'.cut = app.cut /\ app'.quitting = app.quitting /\ app'.ipc = app.ipc /\ app'.main = app.main
  BY <1>1, <1>2 DEF Applications
<1>4. Held(app', procs)
  BY <1>1, <1>3, AsideHolds
<1> QED
  BY <1>2, <1>4 DEF DesktopCorrect

LEMMA ProcessHolds == DesktopCorrect /\ (ProcessBinds \/ ProcessCloses \/ ProcessEnds) => DesktopCorrect'
<1> SUFFICES ASSUME DesktopCorrect, ProcessBinds \/ ProcessCloses \/ ProcessEnds
             PROVE  DesktopCorrect'
  OBVIOUS
<1>1. PICK p \in procs, ph \in {"up", "closing"} : /\ procs' \subseteq procs \cup {[p EXCEPT !.phase = ph]}
                                                  /\ app' = app
  <2>1. CASE ProcessBinds
    BY <2>1 DEF ProcessBinds
  <2>2. CASE ProcessCloses
    BY <2>2 DEF ProcessCloses
  <2>3. CASE ProcessEnds
    BY <2>3 DEF ProcessEnds
  <2> QED
    BY <2>1, <2>2, <2>3
<1>2. Held(app, procs) /\ procs \subseteq Children
  BY DEF DesktopCorrect, Held
<1>3. \A q \in procs' : q \in Children /\ \E r \in procs : q.boot = r.boot /\ q.launch = r.launch /\ (r.killed => q.killed)
  <2>1. p \in Children
    BY <1>2
  <2>2. /\ [p EXCEPT !.phase = ph] \in Children /\ [p EXCEPT !.phase = ph].boot = p.boot
        /\ [p EXCEPT !.phase = ph].launch = p.launch /\ [p EXCEPT !.phase = ph].killed = p.killed
    BY <2>1 DEF Children
  <2> QED
    BY <1>1, <1>2, <2>2
<1>4. Held(app, procs')
  BY <1>2, <1>3, ChildrenGoOn
<1> QED
  BY <1>1, <1>4 DEF DesktopCorrect

-----------------------------------------------------------------------------
LEMMA DesktopInitHolds == DesktopInit => DesktopCorrect
<1> SUFFICES ASSUME DesktopInit
             PROVE  DesktopCorrect
  OBVIOUS
<1>1. PICK darwin \in BOOLEAN, foreign \in BOOLEAN, install \in Installs :
       app = [up |-> FALSE, launch |-> 0, darwin |-> darwin, foreign |-> foreign, install |-> install,
              quitting |-> FALSE, relaunch |-> FALSE, splash |-> "none", main |-> "none", runtime |-> 0,
              boots |-> {}, count |-> 0, overlap |-> FALSE, cut |-> FALSE, ipc |-> FALSE, lost |-> 0,
              updaters |-> 0, update |-> "none", checkpoint |-> "none"]
  BY DEF DesktopInit
<1>2. app \in Applications
  BY <1>1, DesktopAssumption DEF Applications
<1>3. procs = {}
  BY DEF DesktopInit
<1>4. StartsAgree(app)
  BY <1>1 DEF StartsAgree
<1> QED
  BY <1>2, <1>3, <1>4 DEF DesktopCorrect, Held, ChildrenHeld

LEMMA DesktopNextHolds == DesktopCorrect /\ [DesktopNext]_desktopVars => DesktopCorrect'
<1>1. DesktopCorrect /\ UNCHANGED desktopVars => DesktopCorrect'
  BY DEF DesktopCorrect, desktopVars, Held, StartsAgree, ChildrenHeld, HandsOn
<1> QED
  BY <1>1, ProcessHolds, CheckApiPortHolds, StartProcessesHolds, AnswerHolds, StartTimesOutHolds, StartDoneHolds,
     LaunchHolds, WindowHolds, CloseHolds, ExitHolds, RestartHolds, UpdateHolds
     DEF DesktopNext

\* What the desktop application starts is stopped by somebody, whatever starts,
\* closes, quits or dies in between (main.ts, runtime.ts).
THEOREM DesktopHolds == DesktopSpec => []DesktopConsistent
<1>1. DesktopSpec => []DesktopCorrect
  BY DesktopInitHolds, DesktopNextHolds, PTL DEF DesktopSpec
<1> QED
  BY <1>1, CorrectIsConsistent, PTL

(***************************************************************************)
(* The runner of a developer (DevRunner).                                  *)
(***************************************************************************)
Processes == [n : Nat, phase : {"starting", "up", "closing"}, told : BOOLEAN]
Runners == [up : BOOLEAN, step : {"api", "web", "wait", "run"}, stopping : BOOLEAN,
            restart : {"none", "down", "ready"}, failed : BOOLEAN,
            apis : SUBSET Processes,
            children : SUBSET Nat, count : Nat, requests : Nat,
            web : {"none", "reused", "starting", "up"}, electron : BOOLEAN]

\* What RunnerConsistent says, of any state of the runner.
RunnerSound(d) ==
  /\ d \in Runners
  /\ \A a \in d.apis : a.n <= d.count
  /\ d.children \subseteq 1..d.count
  /\ d.failed => ~d.up
  /\ ~d.failed => \A a \in d.apis : a.n > 0 => a.told \/ (d.up /\ a.n \in d.children)

LEMMA RunnerSoundIs == /\ RunnerConsistent <=> RunnerSound(dev)
                       /\ RunnerConsistent' <=> RunnerSound(dev')
<1>1. RunnerConsistent <=> RunnerSound(dev)
  BY DEF RunnerConsistent, DevTypeOK, ApisAreChildren, RunnerSound, Runners, Processes
<1>2. RunnerConsistent' <=> RunnerSound(dev')
  BY DEF RunnerConsistent, DevTypeOK, ApisAreChildren, RunnerSound, Runners, Processes
<1> QED
  BY <1>1, <1>2

\* The end of the group tells every child to stop.
LEMMA StopHolds ==
  ASSUME NEW d, RunnerSound(d), d.up
  PROVE  RunnerSound(StopAll(d))
<1> DEFINE e == StopAll(d)
<1>1. /\ e.apis = Told(d.apis, d.children) /\ e.up = FALSE /\ e.failed = d.failed
      /\ e.count = d.count /\ e.children = d.children /\ ~d.failed
  BY DEF StopAll, RunnerSound, Runners
<1>2. \A b \in e.apis : \E a \in d.apis : b.n = a.n /\ (a.told \/ a.n \in d.children => b.told)
  <2>1. ASSUME NEW a \in d.apis
        PROVE  [a EXCEPT !.told = TRUE].n = a.n /\ [a EXCEPT !.told = TRUE].told
    BY DEF RunnerSound, Runners, Processes
  <2> QED
    BY <1>1, <2>1 DEF Told
<1>3. e \in Runners
  <2>1. Told(d.apis, d.children) \in SUBSET Processes
    <3>1. ASSUME NEW a \in d.apis
          PROVE  [a EXCEPT !.told = TRUE] \in Processes /\ a \in Processes
      BY DEF RunnerSound, Runners, Processes
    <3> QED
      BY <3>1 DEF Told
  <2> QED
    BY <2>1 DEF StopAll, RunnerSound, Runners
<1>4. \A b \in e.apis : b.n <= e.count /\ (b.n > 0 => b.told)
  BY <1>1, <1>2 DEF RunnerSound
<1> QED
  BY <1>1, <1>3, <1>4 DEF RunnerSound

\* A new process has a number of its own, and is a child.
LEMMA StartHolds ==
  ASSUME NEW d, RunnerSound(d), d.up
  PROVE  RunnerSound(StartApi(d)) /\ StartApi(d).up
<1> DEFINE e == StartApi(d)
           new == Api(d.count + 1, "starting")
<1>1. /\ e.apis = d.apis \cup {new} /\ e.children = d.children \cup {d.count + 1} /\ e.count = d.count + 1
      /\ e.up = d.up /\ e.failed = d.failed
  BY DEF StartApi, RunnerSound, Runners
<1>2. new \in Processes /\ new.n = d.count + 1
  BY DEF Api, RunnerSound, Runners, Processes
<1>3. e \in Runners
  <2>1. d.apis \cup {new} \in SUBSET Processes /\ d.children \cup {d.count + 1} \in SUBSET Nat /\ d.count + 1 \in Nat
    BY <1>2 DEF RunnerSound, Runners
  <2>2. e = [d EXCEPT !.apis = d.apis \cup {new}, !.count = d.count + 1, !.children = d.children \cup {d.count + 1}]
    BY DEF StartApi, RunnerSound, Runners
  <2> QED
    BY <2>1, <2>2 DEF RunnerSound, Runners
<1>4. \A a \in e.apis : a.n <= e.count /\ (a.n > 0 => a.told \/ a.n \in e.children)
  <2>1. ASSUME NEW a \in d.apis
        PROVE  a.n \in Nat /\ a.n <= d.count /\ d.count \in Nat /\ (a.n > 0 => a.told \/ a.n \in d.children)
    BY DEF RunnerSound, Runners, Processes
  <2>2. ASSUME NEW a \in d.apis
        PROVE  a.n <= d.count + 1
    BY <2>1
  <2>3. new.n <= d.count + 1 /\ new.n \in d.children \cup {d.count + 1}
    BY <1>2 DEF RunnerSound, Runners
  <2>4. \A a \in d.apis \cup {new} :
          a.n <= d.count + 1 /\ (a.n > 0 => a.told \/ a.n \in d.children \cup {d.count + 1})
    BY <2>1, <2>2, <2>3
  <2> HIDE DEF new
  <2> QED
    BY <1>1, <2>4
<1>5. e.children \subseteq 1..e.count
  BY <1>1 DEF RunnerSound, Runners
<1> QED
  BY <1>1, <1>3, <1>4, <1>5 DEF RunnerSound

\* A process that ends, or changes only its phase, is not lost.
LEMMA FewerHold ==
  ASSUME NEW d, RunnerSound(d), NEW as,
         as \in SUBSET Processes,
         \A b \in as : \E a \in d.apis : b.n = a.n /\ b.told = a.told
  PROVE  RunnerSound([d EXCEPT !.apis = as]) /\ [d EXCEPT !.apis = as].up = d.up
  BY DEF RunnerSound, Runners

LEMMA ChildFailsHolds ==
  ASSUME NEW d, RunnerSound(d), d.up
  PROVE  RunnerSound(ChildFails(d))
  BY StopHolds DEF ChildFails

LEMMA RunnerInitHolds == DevInit => RunnerConsistent
<1> SUFFICES ASSUME DevInit PROVE RunnerSound(dev)
  BY RunnerSoundIs, Zenon
<1>1. PICK api, web \in BOOLEAN :
        dev = [up |-> TRUE, step |-> "api", stopping |-> FALSE, restart |-> "none", failed |-> FALSE,
               apis |-> IF api THEN {Api(0, "up")} ELSE {}, children |-> {}, count |-> 0, requests |-> 0,
               web |-> IF web THEN "reused" ELSE "none", electron |-> FALSE]
  BY DEF DevInit
<1>2. Api(0, "up") \in Processes /\ Api(0, "up").n = 0
  BY DEF Api, Processes
<1>3. dev \in Runners
  BY <1>1, <1>2 DEF Runners
<1> QED
  BY <1>1, <1>2, <1>3 DEF RunnerSound

LEMMA RunnerNextHolds == RunnerConsistent /\ [DevNext]_devVars => RunnerConsistent'
<1> SUFFICES ASSUME RunnerSound(dev), [DevNext]_devVars PROVE RunnerSound(dev')
  BY RunnerSoundIs, Zenon
<1>1. CASE EnsureApi
  <2>1. RunnerSound(IF Reachable THEN dev ELSE StartApi(dev))
    BY <1>1, StartHolds DEF EnsureApi
  <2> QED
    BY <1>1, <2>1 DEF EnsureApi, RunnerSound, Runners
<1>2. CASE EnsureWeb \/ WebComes \/ BothAnswer \/ ScriptFails \/ ApiIsReady \/ RestartTimesOut
  BY <1>2 DEF EnsureWeb, WebComes, BothAnswer, ScriptFails, ApiIsReady, RestartTimesOut, RunnerSound, Runners
<1>3. CASE ElectronExits \/ Interrupted
  BY <1>3, StopHolds DEF ElectronExits, Interrupted
<1>4. CASE WebFails
  <2>1. RunnerSound([dev EXCEPT !.web = "none"]) /\ [dev EXCEPT !.web = "none"].up
    BY <1>4 DEF WebFails, RunnerSound, Runners
  <2> QED
    BY <1>4, <2>1, ChildFailsHolds DEF WebFails
<1>5. CASE ApiComes
  <2>1. PICK a \in dev.apis : /\ a.phase = "starting"
          /\ LET d == [dev EXCEPT !.apis = @ \ {a}]
             IN  IF ~Reachable THEN dev' = [d EXCEPT !.apis = @ \cup {[a EXCEPT !.phase = "up"]}]
                 ELSE dev' = IF dev.up /\ a.n > 0 THEN ChildFails(d) ELSE d
    BY <1>5 DEF ApiComes
  <2> DEFINE d == [dev EXCEPT !.apis = dev.apis \ {a}]
  <2>2. RunnerSound(d) /\ d.up = dev.up
    BY FewerHold DEF RunnerSound, Runners
  <2>3. CASE ~Reachable
    <3> DEFINE as == (dev.apis \ {a}) \cup {[a EXCEPT !.phase = "up"]}
    <3>1. as \in SUBSET Processes /\ \A b \in as : \E c \in dev.apis : b.n = c.n /\ b.told = c.told
      BY DEF RunnerSound, Runners, Processes
    <3>2. dev' = [dev EXCEPT !.apis = as]
      BY <2>1, <2>3 DEF RunnerSound, Runners
    <3> QED
      BY <3>1, <3>2, FewerHold
  <2> QED
    BY <2>1, <2>2, <2>3, ChildFailsHolds
<1>6. CASE ApiCloses
  <2>1. PICK a \in dev.apis : dev' = [dev EXCEPT !.apis = (@ \ {a}) \cup {[a EXCEPT !.phase = "closing"]}]
    BY <1>6 DEF ApiCloses
  <2> DEFINE as == (dev.apis \ {a}) \cup {[a EXCEPT !.phase = "closing"]}
  <2>2. as \in SUBSET Processes /\ \A b \in as : \E c \in dev.apis : b.n = c.n /\ b.told = c.told
    BY DEF RunnerSound, Runners, Processes
  <2> QED
    BY <2>1, <2>2, FewerHold
<1>7. CASE ApiStops
  <2>1. PICK a \in dev.apis : dev' = [dev EXCEPT !.apis = dev.apis \ {a}]
    BY <1>7 DEF ApiStops
  <2> QED
    BY <2>1, FewerHold DEF RunnerSound, Runners
<1>8. CASE ApiFails
  <2>1. PICK a \in dev.apis : LET d == [dev EXCEPT !.apis = dev.apis \ {a}]
                              IN  dev' = IF dev.up /\ a.n > 0 THEN ChildFails(d) ELSE d
    BY <1>8 DEF ApiFails
  <2> DEFINE d == [dev EXCEPT !.apis = dev.apis \ {a}]
  <2>2. RunnerSound(d) /\ d.up = dev.up
    BY FewerHold DEF RunnerSound, Runners
  <2> QED
    BY <2>1, <2>2, ChildFailsHolds
<1>9. CASE RequestRestart
  <2> DEFINE d == [dev EXCEPT !.requests = @ + 1]
  <2>1. RunnerSound(d) /\ d.up
    BY <1>9 DEF RequestRestart, RunnerSound, Runners
  <2>2. CASE dev.children = {}
    <3>1. dev' = [StartApi(d) EXCEPT !.restart = "ready"]
      BY <1>9, <2>2 DEF RequestRestart
    <3> QED
      BY <2>1, <3>1, StartHolds DEF RunnerSound, Runners
  <2>3. CASE dev.children # {}
    <3> DEFINE as == Told(dev.apis, ApiChild)
    <3>1. dev' = [d EXCEPT !.restart = "down", !.apis = as, !.children = dev.children \ ApiChild]
      BY <1>9, <2>3 DEF RequestRestart, RunnerSound, Runners
    <3>2. ASSUME NEW a \in dev.apis
          PROVE  [a EXCEPT !.told = TRUE] \in Processes /\ a \in Processes /\ [a EXCEPT !.told = TRUE].n = a.n
      BY DEF RunnerSound, Runners, Processes
    <3>3. /\ as \in SUBSET Processes
          /\ \A b \in as : \E a \in dev.apis : b.n = a.n /\ (a.told \/ a.n \in ApiChild => b.told)
      BY <3>2 DEF Told, Processes
    <3>4. dev' \in Runners
      BY <2>1, <3>1, <3>3 DEF RunnerSound, Runners
    <3> QED
      BY <2>1, <3>1, <3>3, <3>4 DEF RunnerSound, Runners
  <2> QED
    BY <2>2, <2>3
<1>10. CASE ApiIsDown
  <2>1. RunnerSound(StartApi(dev)) /\ StartApi(dev).up
    BY <1>10, StartHolds DEF ApiIsDown
  <2> QED
    BY <1>10, <2>1 DEF ApiIsDown, RunnerSound, Runners
<1>11. CASE UNCHANGED devVars
  BY <1>11 DEF devVars
<1> QED
  BY <1>1, <1>2, <1>3, <1>4, <1>5, <1>6, <1>7, <1>8, <1>9, <1>10, <1>11 DEF DevNext

\* Whatever is restarted, told to stop, fails or times out, an API the runner
\* started is its child or has been told to stop, until a wait that timed out
\* ends the script (dev.mjs: start, stopAll, restartApiForMaintenance).
THEOREM RunnerHolds == DevSpec => []RunnerConsistent
<1> QED
  BY RunnerInitHolds, RunnerNextHolds, PTL DEF DevSpec

(***************************************************************************)
(* The import of a code folder (FolderImport).                             *)
(***************************************************************************)
Readable == {p \in Paths : Wanted(p)}
Scanned == UNION {[S -> Nat] : S \in SUBSET Readable}
Statuses == UNION {[S -> {"new", "unchanged", "changed"}] : S \in SUBSET Readable}
Contents == [Paths -> Nat]
Plans == [root : Roots \cup {NoRoot}, status : Statuses]
Folders == [busy : {"no", "scan", "plan", "send"}, root : Roots \cup {NoRoot}, picked : Contents,
            files : Scanned, plan : Plans, left : SUBSET Paths, sent : Nat,
            told : {"none", "scanFailed", "uploadFailed", "uploaded"}, shrunk : BOOLEAN, edits : Nat, picks : Nat]

FolderTypeOK ==
  /\ disk \in [Roots -> Contents] /\ stock \in [Roots -> Contents]
  /\ folder \in Folders

\* The files that were sent are there, as they were hashed, except those left.
IsSent(left) == ~folder.shrunk =>
  \A p \in Uploadable \ left : stock[folder.root][p] = folder.files[p]

\* The inductive invariant: the plan in front is the one of the files in front,
\* and what a pass has sent so far is there.
FolderCorrect ==
  /\ FolderTypeOK
  /\ folder.busy \in {"scan", "plan"} => folder.root \in Roots /\ folder.plan = NoPlan
  /\ folder.plan # NoPlan => /\ folder.root \in Roots /\ folder.plan.root = folder.root
                             /\ DOMAIN folder.plan.status = DOMAIN folder.files
  /\ \A r \in Roots, p \in Paths : stock[r][p] > 0 => Wanted(p)
  /\ folder.busy = "send" => folder.plan # NoPlan /\ folder.left \subseteq Uploadable /\ IsSent(folder.left)
  /\ folder.told = "uploaded" => folder.busy = "no" /\ folder.plan # NoPlan /\ IsSent({})

LEMMA NoPlanIsEmpty == NoPlan \in Plans /\ NoPlan.status = [p \in {} |-> "new"]
<1>1. [p \in {} |-> "new"] \in [{} -> {"new", "unchanged", "changed"}]
  OBVIOUS
<1>2. {} \in SUBSET Readable
  OBVIOUS
<1> QED
  BY <1>1, <1>2 DEF NoPlan, Plans, Statuses

LEMMA FolderInitHolds == FolderInit => FolderCorrect
<1> SUFFICES ASSUME FolderInit PROVE FolderCorrect
  OBVIOUS
<1>1. [p \in {} |-> 0] \in Scanned
  <2>1. [p \in {} |-> 0] \in [{} -> Nat] /\ {} \in SUBSET Readable
    OBVIOUS
  <2> QED
    BY <2>1 DEF Scanned
<1>2. folder \in Folders
  <2>1. [p \in Paths |-> 0] \in Contents
    BY DEF Contents
  <2> QED
    BY <1>1, <2>1, NoPlanIsEmpty DEF FolderInit, Folders
<1>3. disk \in [Roots -> Contents]
  BY DEF FolderInit, Contents
<1>4. stock \in [Roots -> Contents]
  BY DEF FolderInit, Contents
<1> QED
  BY <1>2, <1>3, <1>4 DEF FolderInit, FolderCorrect, FolderTypeOK

LEMMA FolderNextHolds == FolderCorrect /\ [FolderNext]_folderVars => FolderCorrect'
<1> SUFFICES ASSUME FolderCorrect, [FolderNext]_folderVars PROVE FolderCorrect'
  OBVIOUS
<1> USE FolderAssumption DEF FolderCorrect, FolderTypeOK
<1>0. folder \in Folders /\ disk \in [Roots -> Contents] /\ stock \in [Roots -> Contents]
  OBVIOUS
<1>1. CASE PickFolder
  <2>1. PICK r \in Roots : folder' = [folder EXCEPT !.busy = "scan", !.root = r, !.picked = disk[r],
                                        !.plan = NoPlan, !.told = "none", !.picks = @ + 1]
    BY <1>1 DEF PickFolder
  <2>2. folder' \in Folders
    <3>1. NoPlan \in Plans /\ disk[r] \in Contents
      BY <1>0, NoPlanIsEmpty
    <3> HIDE DEF FolderCorrect, FolderTypeOK, NoPlan
    <3>2. folder' = [busy |-> "scan", root |-> r, picked |-> disk[r], files |-> folder.files, plan |-> NoPlan,
                     left |-> folder.left, sent |-> folder.sent, told |-> "none", shrunk |-> folder.shrunk, edits |-> folder.edits,
                     picks |-> folder.picks + 1]
      BY <1>0, <2>1 DEF Folders
    <3>3. /\ folder.files \in Scanned /\ folder.left \in SUBSET Paths /\ folder.sent \in Nat
          /\ folder.shrunk \in BOOLEAN /\ folder.edits \in Nat /\ folder.picks + 1 \in Nat
      BY <1>0 DEF Folders
    <3> QED
      BY <3>1, <3>2, <3>3 DEF Folders
  <2> QED
    BY <1>1, <2>1, <2>2 DEF PickFolder, Folders
<1>2. CASE ScanReads
  <2>1. [p \in {q \in Paths : Wanted(q)} |-> folder.picked[p]] \in Scanned
    <3>1. [p \in Readable |-> folder.picked[p]] \in [Readable -> Nat]
      BY DEF Readable, Folders, Contents
    <3> QED
      BY <3>1 DEF Scanned, Readable
  <2> QED
    BY <1>2, <2>1 DEF ScanReads, Folders
<1>3. CASE ScanFails
  BY <1>3 DEF ScanFails, Folders
<1>4. CASE PlanArrives
  <2> DEFINE plan == [root |-> folder.root, status |-> [p \in DOMAIN folder.files |-> StatusOf(p)]]
  <2>1. \A p : StatusOf(p) \in {"new", "unchanged", "changed"}
    BY DEF StatusOf
  <2>2. DOMAIN folder.files \in SUBSET Readable
    BY DEF Folders, Scanned
  <2>3. plan \in Plans
    <3>1. plan.status \in [DOMAIN folder.files -> {"new", "unchanged", "changed"}]
      BY <2>1
    <3> QED
      BY <2>2, <3>1 DEF Plans, Statuses, Folders
  <2> QED
    BY <1>4, <2>3 DEF PlanArrives, Folders
<1>5. CASE PlanFails
  BY <1>5 DEF PlanFails, Folders
<1>6. CASE SendPlan
  <2>1. folder.plan # NoPlan
    BY <1>6, NoPlanIsEmpty DEF SendPlan, Uploadable
  <2>2. Uploadable \in SUBSET Paths
    BY DEF Uploadable, Folders, Plans, Statuses, Readable
  <2>3. folder' \in Folders
    <3>1. folder' = [folder EXCEPT !.busy = "send", !.left = Uploadable, !.told = "none", !.shrunk = FALSE, !.sent = @ + 1]
      BY <1>6 DEF SendPlan
    <3> HIDE DEF FolderCorrect, FolderTypeOK, Uploadable
    <3>2. folder' = [busy |-> "send", root |-> folder.root, picked |-> folder.picked, files |-> folder.files,
                     plan |-> folder.plan, left |-> Uploadable, sent |-> folder.sent + 1, told |-> "none",
                     shrunk |-> FALSE, edits |-> folder.edits, picks |-> folder.picks]
      BY <1>0, <3>1 DEF Folders
    <3>3. /\ folder.root \in Roots \cup {NoRoot} /\ folder.picked \in Contents /\ folder.files \in Scanned
          /\ folder.plan \in Plans /\ folder.sent + 1 \in Nat /\ folder.edits \in Nat /\ folder.picks \in Nat
      BY <1>0 DEF Folders
    <3> QED
      BY <2>2, <3>2, <3>3 DEF Folders
  <2> QED
    BY <1>6, <2>1, <2>3 DEF SendPlan, Folders, IsSent, Uploadable
<1>7. CASE SendFile
  <2>1. PICK p \in folder.left :
          /\ folder.busy = "send"
          /\ stock' = [stock EXCEPT ![folder.root][p] = folder.files[p]]
          /\ folder' = [folder EXCEPT !.left = @ \ {p}]
    BY <1>7 DEF SendFile
  <2>2. p \in Uploadable /\ p \in DOMAIN folder.files /\ folder.root \in Roots
    BY <2>1 DEF Uploadable
  <2>3. p \in Paths /\ Wanted(p) /\ folder.files[p] \in Nat
    BY <2>2 DEF Folders, Scanned, Readable
  <2>4. stock' \in [Roots -> Contents]
    BY <2>1, <2>2, <2>3 DEF Contents
  <2>5. folder' \in Folders /\ Uploadable' = Uploadable /\ folder'.left = folder.left \ {p}
    BY <2>1 DEF Folders, Uploadable
  <2>6. IsSent(folder.left)'
    <3>1. SUFFICES ASSUME ~folder.shrunk, NEW q \in Uploadable \ (folder.left \ {p})
                   PROVE  stock'[folder.root][q] = folder.files[q]
      BY <2>1, <2>5 DEF IsSent, Folders
    <3>2. q \in Paths
      BY DEF Uploadable, Folders, Plans, Statuses, Readable
    <3>3. CASE q = p
      BY <2>1, <2>2, <2>3, <3>3 DEF Contents
    <3>4. CASE q # p
      BY <2>1, <2>2, <2>3, <3>1, <3>2, <3>4 DEF IsSent, Contents
    <3> QED
      BY <3>3, <3>4
  <2>7. \A r \in Roots, q \in Paths : stock'[r][q] > 0 => Wanted(q)
    BY <2>1, <2>2, <2>3
  <2> QED
    BY <1>7, <2>1, <2>4, <2>5, <2>6, <2>7 DEF SendFile, Folders
<1>8. CASE SendFileFails
  BY <1>8 DEF SendFileFails, Folders
<1>9. CASE SendEnds
  BY <1>9 DEF SendEnds, Folders, IsSent, Uploadable
<1>10. CASE DiskChanges
  <2>1. disk' \in [Roots -> Contents]
    BY <1>10 DEF DiskChanges, Contents
  <2> QED
    BY <1>10, <2>1 DEF DiskChanges, Folders, IsSent, Uploadable
<1>11. CASE StockShrinks
  <2>1. PICK r \in Roots, p \in Paths :
          stock' = [stock EXCEPT ![r][p] = 0] /\ folder' = [folder EXCEPT !.edits = @ + 1, !.shrunk = TRUE]
    BY <1>11 DEF StockShrinks
  <2>2. stock' \in [Roots -> Contents] /\ \A t \in Roots, q \in Paths : stock'[t][q] > 0 => Wanted(q)
    BY <2>1 DEF Contents
  <2>3. folder' \in Folders /\ Uploadable' = Uploadable
    <3>1. folder.edits + 1 \in Nat
      BY DEF Folders
    <3>2. /\ folder'.plan = folder.plan /\ folder'.files = folder.files /\ folder'.left = folder.left
          /\ folder' = [folder EXCEPT !.edits = folder.edits + 1, !.shrunk = TRUE]
      BY <2>1 DEF Folders
    <3> HIDE DEF FolderCorrect, FolderTypeOK
    <3>3. folder' \in Folders
      BY <1>0, <3>1, <3>2 DEF Folders
    <3> QED
      BY <3>2, <3>3 DEF Uploadable
  <2> QED
    BY <1>11, <2>1, <2>2, <2>3 DEF StockShrinks, Folders, IsSent
<1>12. CASE UNCHANGED folderVars
  BY <1>12 DEF folderVars, IsSent, Uploadable
<1> QED
  BY <1>1, <1>2, <1>3, <1>4, <1>5, <1>6, <1>7, <1>8, <1>9, <1>10, <1>11, <1>12 DEF FolderNext

\* A plan is carried out with the files it was made for, only wanted files reach
\* the server, and a pass reported as done put every file it had to send there
\* (code-folder-import.tsx: handleFiles, handleUpload).
THEOREM FolderHolds == FolderSpec => []FolderConsistent
<1>1. FolderCorrect => FolderConsistent
  BY DEF FolderCorrect, FolderConsistent, IsSent
<1> QED
  BY <1>1, FolderInitHolds, FolderNextHolds, PTL DEF FolderSpec

(***************************************************************************)
(* The list of sources (KnowledgeShelf).                                   *)
(***************************************************************************)
Versions == [Sources -> Nat]
Works == [kind : {"create", "edit", "delete"}, source : Sources, phase : {"sent", "done"}]
Shelves == [compact : BOOLEAN, active : BOOLEAN, items : Versions, loaded : BOOLEAN, known : BOOLEAN,
            error : BOOLEAN, ask : {"none", "sent", "read"}, answer : Versions,
            tick : {"off", "armed", "waiting"}, works : SUBSET Works, edited : Sources \cup {NoSource},
            deleted : Sources \cup {NoSource}, creating : BOOLEAN, open : Sources \cup {NoSource},
            screen : {"documents", "add"}, changes : Nat, lapses : Nat, gestures : Nat]

\* The inductive invariant, of a shelf k: the tick is what ShelfConsistent says,
\* and each dialog is about a card that is there.
ShelfSound(k) ==
  /\ k \in Shelves
  /\ k.active <=> k.tick # "off"
  /\ k.tick = "waiting" => k.ask # "none"
  /\ k.edited # NoSource => k.items[k.edited] > 0
  /\ k.deleted # NoSource => k.items[k.deleted] > 0
ShelfCorrect == held \in Versions /\ ShelfSound(shelf)

(***************************************************************************)
(* The helpers keep a shelf sound.                                         *)
(***************************************************************************)
LEMMA GestureHolds ==
  ASSUME NEW k, ShelfSound(k)
  PROVE  /\ ShelfSound(Gesture(k)) /\ Gesture(k).items = k.items /\ Gesture(k).tick = k.tick
         /\ Gesture(k).active = k.active /\ Gesture(k).ask = k.ask
  BY DEF Gesture, ShelfSound, Shelves

LEMMA AskedHolds ==
  ASSUME NEW k, ShelfSound(k)
  PROVE  ShelfSound(Asked(k)) /\ ShelfSound(AskedOnce(k)) /\ Asked(k).ask # "none" /\ Asked(k).tick = k.tick
  BY DEF Asked, AskedOnce, ShelfSound, Shelves

LEMMA NothingIsVersions == Nothing \in Versions
  BY DEF Nothing, Versions

\* The tick that waited is set again before the request is forgotten.
LEMMA AskOverHolds ==
  ASSUME NEW k, ShelfSound(k)
  PROVE  ShelfSound(AskOver(k))
  BY NothingIsVersions DEF AskOver, ShelfSound, Shelves

LEMMA CardsHold ==
  ASSUME NEW k, ShelfSound(k), NEW items \in Versions
  PROVE  ShelfSound(Cards(k, items)) /\ Cards(k, items).items = items
<1>1. \A s \in Sources : items[s] \in Nat
  BY DEF Versions
<1>2. Cards(k, items) \in Shelves
  BY DEF Cards, ShelfSound, Shelves
<1> QED
  BY <1>1, <1>2 DEF Cards, ShelfSound, Shelves

\* Only the tick, the request, the cards and the dialogs count.
LEMMA LikeHolds ==
  ASSUME NEW k, ShelfSound(k), NEW j \in Shelves,
         j.active = k.active, j.tick = k.tick, j.ask = k.ask,
         j.items = k.items, j.edited = k.edited, j.deleted = k.deleted
  PROVE  ShelfSound(j)
  BY DEF ShelfSound

LEMMA LeaveHolds ==
  ASSUME NEW k, ShelfSound(k)
  PROVE  ShelfSound([k EXCEPT !.active = FALSE, !.tick = "off"])
<1> DEFINE j == [k EXCEPT !.active = FALSE, !.tick = "off"]
<1>1. k \in Shelves
  BY DEF ShelfSound
<1>2. j \in Shelves
  BY <1>1 DEF Shelves
<1>3. ~j.active /\ j.tick = "off"
  BY <1>1 DEF Shelves
<1>4. j.items = k.items /\ j.edited = k.edited /\ j.deleted = k.deleted
  BY <1>1 DEF Shelves
<1> HIDE DEF j
<1>5. ShelfSound(j)
  BY <1>2, <1>3, <1>4 DEF ShelfSound
<1> QED
  BY <1>5 DEF j

LEMMA CreatingHolds ==
  ASSUME NEW k, ShelfSound(k), NEW b \in BOOLEAN
  PROVE  ShelfSound([k EXCEPT !.creating = b])
  BY DEF ShelfSound, Shelves

LEMMA FailedHolds ==
  ASSUME NEW k, ShelfSound(k)
  PROVE  ShelfSound([k EXCEPT !.loaded = TRUE, !.error = TRUE, !.lapses = @ + 1])
<1>1. k.lapses + 1 \in Nat /\ TRUE \in BOOLEAN
  BY DEF ShelfSound, Shelves
<1>2. [k EXCEPT !.loaded = TRUE, !.error = TRUE, !.lapses = k.lapses + 1] \in Shelves
  BY <1>1 DEF ShelfSound, Shelves
<1> QED
  BY <1>2, LikeHolds DEF ShelfSound, Shelves

LEMMA CountHolds ==
  ASSUME NEW k, ShelfSound(k), NEW ws \in SUBSET Works
  PROVE  /\ ShelfSound([k EXCEPT !.works = ws, !.lapses = @ + 1])
         /\ ShelfSound([k EXCEPT !.works = ws, !.changes = @ + 1])
<1>1. k.lapses + 1 \in Nat /\ k.changes + 1 \in Nat
  BY DEF ShelfSound, Shelves
<1>2. [k EXCEPT !.works = ws, !.lapses = k.lapses + 1] \in Shelves
  BY <1>1 DEF ShelfSound, Shelves
<1>3. [k EXCEPT !.works = ws, !.changes = k.changes + 1] \in Shelves
  BY <1>1 DEF ShelfSound, Shelves
<1> QED
  BY <1>2, <1>3, LikeHolds DEF ShelfSound, Shelves

LEMMA CreatedHolds ==
  ASSUME NEW k, ShelfSound(k), NEW open \in Sources \cup {NoSource}, NEW screen \in {"documents", "add"}
  PROVE  ShelfSound([k EXCEPT !.known = TRUE, !.loaded = TRUE, !.error = FALSE, !.creating = FALSE,
                         !.open = open, !.screen = screen])
<1> DEFINE j == [k EXCEPT !.known = TRUE, !.loaded = TRUE, !.error = FALSE, !.creating = FALSE]
<1>1. ShelfSound(j)
  <2>1. j \in Shelves
    BY DEF ShelfSound, Shelves
  <2> QED
    BY <2>1, LikeHolds DEF ShelfSound, Shelves
<1>2. [k EXCEPT !.known = TRUE, !.loaded = TRUE, !.error = FALSE, !.creating = FALSE,
                !.open = open, !.screen = screen] = [j EXCEPT !.open = open, !.screen = screen]
  BY DEF ShelfSound, Shelves
<1> HIDE DEF j
<1>3. [j EXCEPT !.open = open, !.screen = screen] \in Shelves
  BY <1>1 DEF ShelfSound, Shelves
<1> QED
  BY <1>1, <1>2, <1>3, LikeHolds DEF ShelfSound, Shelves

\* What is forgotten, or closes a dialog, disturbs nothing.
LEMMA WorksHold ==
  ASSUME NEW k, ShelfSound(k), NEW ws \in SUBSET Works
  PROVE  ShelfSound([k EXCEPT !.works = ws])
  BY DEF ShelfSound, Shelves

LEMMA ShelfCloseHolds ==
  ASSUME NEW k, ShelfSound(k), NEW s
  PROVE  /\ ShelfSound([k EXCEPT !.edited = IF @ = s THEN NoSource ELSE @])
         /\ ShelfSound([k EXCEPT !.deleted = IF @ = s THEN NoSource ELSE @])
         /\ ShelfSound([k EXCEPT !.edited = NoSource])
         /\ ShelfSound([k EXCEPT !.deleted = NoSource])
  BY DEF ShelfSound, Shelves

LEMMA ShelfInitHolds == ShelfInit => ShelfCorrect
<1> SUFFICES ASSUME ShelfInit PROVE ShelfCorrect
  OBVIOUS
<1>1. held \in Versions
  BY DEF ShelfInit, Versions
<1>2. ShelfSound(shelf)
  BY NothingIsVersions DEF ShelfInit, ShelfSound, Shelves
<1> QED
  BY <1>1, <1>2 DEF ShelfCorrect

(***************************************************************************)
(* One step.                                                               *)
(***************************************************************************)
LEMMA RequestHolds ==
  ASSUME ShelfCorrect, ServerReads \/ AskAnswered \/ AskFails \/ ServerChanges
  PROVE  ShelfCorrect'
<1>1. CASE ServerReads
  BY <1>1 DEF ServerReads, ShelfCorrect, ShelfSound, Shelves
<1>2. CASE AskAnswered
  <2> DEFINE k == [shelf EXCEPT !.loaded = TRUE, !.known = TRUE, !.error = FALSE]
  <2>0. k \in Shelves
    BY DEF ShelfCorrect, ShelfSound, Shelves
  <2>1. ShelfSound(k) /\ shelf.answer \in Versions
    BY <2>0, LikeHolds DEF ShelfCorrect, ShelfSound, Shelves
  <2>2. ShelfSound(AskOver(Cards(k, shelf.answer)))
    BY <2>1, CardsHold, AskOverHolds
  <2> QED
    BY <1>2, <2>2 DEF AskAnswered, ShelfCorrect
<1>3. CASE AskFails
  <2> DEFINE k == [shelf EXCEPT !.loaded = TRUE, !.error = TRUE, !.lapses = @ + 1]
  <2>1. ShelfSound(k)
    BY FailedHolds DEF ShelfCorrect
  <2> QED
    BY <1>3, <2>1, AskOverHolds DEF AskFails, ShelfCorrect
<1>4. CASE ServerChanges
  <2>1. held' \in Versions
    BY <1>4 DEF ServerChanges, ShelfCorrect, Versions
  <2>2. ShelfSound([shelf EXCEPT !.changes = @ + 1])
    BY DEF ShelfCorrect, ShelfSound, Shelves
  <2> QED
    BY <1>4, <2>1, <2>2 DEF ServerChanges, ShelfCorrect
<1> QED
  BY <1>1, <1>2, <1>3, <1>4

LEMMA WorkspaceHolds ==
  ASSUME ShelfCorrect,
         EnterShelf \/ LeaveShelf \/ TickFires \/ RefreshShelf \/ OpenSource \/ BackToShelf
  PROVE  ShelfCorrect'
<1> DEFINE g == Gesture(shelf)
<1>0. ShelfSound(shelf) /\ ShelfSound(g)
  BY GestureHolds DEF ShelfCorrect
<1>1. CASE EnterShelf
  <2> DEFINE k == [shelf EXCEPT !.active = TRUE, !.tick = "armed"]
  <2>1. ShelfSound(k)
    BY <1>0 DEF ShelfSound, Shelves
  <2>2. ShelfSound(Asked(AskedOnce(k)))
    BY <2>1, AskedHolds
  <2> QED
    BY <1>1, <2>2 DEF EnterShelf, ShelfCorrect
<1>2. CASE LeaveShelf
  <2>1. ShelfSound([g EXCEPT !.active = FALSE, !.tick = "off"])
    BY <1>0, LeaveHolds
  <2> QED
    BY <1>2, <2>1 DEF LeaveShelf, ShelfCorrect
<1>3. CASE TickFires
  <2> DEFINE k == [shelf EXCEPT !.tick = "waiting"]
  <2>1. shelf' = Asked(k) /\ shelf.tick = "armed"
    BY <1>3 DEF TickFires
  <2>2. ShelfSound(Asked(k))
    BY <1>0, <2>1 DEF Asked, ShelfSound, Shelves
  <2> QED
    BY <1>3, <2>1, <2>2 DEF TickFires, ShelfCorrect
<1>4. CASE RefreshShelf
  BY <1>0, <1>4, AskedHolds DEF RefreshShelf, ShelfCorrect
<1>5. CASE OpenSource
  <2>1. PICK s \in Sources : shelf' = [g EXCEPT !.open = s, !.screen = "documents"]
    BY <1>5 DEF OpenSource
  <2>2. ShelfSound(shelf')
    BY <1>0, <2>1 DEF ShelfSound, Shelves
  <2> QED
    BY <1>5, <2>2 DEF OpenSource, ShelfCorrect
<1>6. CASE BackToShelf
  <2>1. ShelfSound([g EXCEPT !.screen = "documents"]) /\ ShelfSound([g EXCEPT !.open = NoSource])
    BY <1>0 DEF ShelfSound, Shelves
  <2> QED
    BY <1>6, <2>1 DEF BackToShelf, ShelfCorrect
<1> QED
  BY <1>1, <1>2, <1>3, <1>4, <1>5, <1>6

LEMMA FormHolds ==
  ASSUME ShelfCorrect,
         \/ OpenCreate \/ CancelCreate \/ SubmitCreate \/ OpenEdit \/ SubmitEdit \/ CloseEdit
         \/ OpenShelfDelete \/ SubmitDelete \/ CloseDelete
  PROVE  ShelfCorrect'
<1> DEFINE g == Gesture(shelf)
<1>0. ShelfSound(shelf) /\ ShelfSound(g) /\ g.items = shelf.items
  BY GestureHolds DEF ShelfCorrect
<1>1. CASE OpenCreate \/ CancelCreate
  <2>1. ShelfSound([g EXCEPT !.creating = TRUE]) /\ ShelfSound([g EXCEPT !.creating = FALSE])
    BY <1>0, CreatingHolds
  <2> QED
    BY <1>1, <2>1 DEF OpenCreate, CancelCreate, ShelfCorrect
<1>2. CASE SubmitCreate \/ SubmitEdit \/ SubmitDelete
  <2>1. PICK w \in Works : shelf' = [shelf EXCEPT !.works = @ \cup {w}, !.changes = @ + 1]
    <3>1. CASE SubmitCreate
      BY <3>1 DEF SubmitCreate, Work, Works
    <3>2. CASE SubmitEdit
      <4>1. Work("edit", shelf.edited) \in Works
        BY <1>0, <3>2 DEF SubmitEdit, Work, Works, ShelfSound, Shelves
      <4> QED
        BY <3>2, <4>1 DEF SubmitEdit
    <3>3. CASE SubmitDelete
      <4>1. Work("delete", shelf.deleted) \in Works
        BY <1>0, <3>3 DEF SubmitDelete, Work, Works, ShelfSound, Shelves
      <4> QED
        BY <3>3, <4>1 DEF SubmitDelete
    <3> QED
      BY <1>2, <3>1, <3>2, <3>3
  <2>2. shelf.works \cup {w} \in SUBSET Works
    BY <1>0 DEF ShelfSound, Shelves
  <2>3. ShelfSound(shelf')
    BY <1>0, <2>1, <2>2, CountHolds
  <2> QED
    BY <1>2, <2>3 DEF SubmitCreate, SubmitEdit, SubmitDelete, ShelfCorrect
<1>3. CASE OpenEdit
  <2>1. PICK s \in Sources : shelf' = [g EXCEPT !.edited = s] /\ g.items[s] > 0
    BY <1>0, <1>3 DEF OpenEdit
  <2>2. ShelfSound(shelf')
    BY <1>0, <2>1 DEF ShelfSound, Shelves
  <2> QED
    BY <1>3, <2>2 DEF OpenEdit, ShelfCorrect
<1>4. CASE OpenShelfDelete
  <2>1. PICK s \in Sources : shelf' = [g EXCEPT !.deleted = s] /\ g.items[s] > 0
    BY <1>0, <1>4 DEF OpenShelfDelete
  <2>2. ShelfSound(shelf')
    BY <1>0, <2>1 DEF ShelfSound, Shelves
  <2> QED
    BY <1>4, <2>2 DEF OpenShelfDelete, ShelfCorrect
<1>5. CASE CloseEdit \/ CloseDelete
  BY <1>0, <1>5, ShelfCloseHolds DEF CloseEdit, CloseDelete, ShelfCorrect
<1> QED
  BY <1>1, <1>2, <1>3, <1>4, <1>5

LEMMA WorkHolds ==
  ASSUME ShelfCorrect, WorkDone \/ WorkLost \/ WorkAnswered
  PROVE  ShelfCorrect'
<1>0. ShelfSound(shelf) /\ held \in Versions /\ shelf.works \in SUBSET Works
  BY DEF ShelfCorrect, ShelfSound, Shelves
<1>1. CASE WorkDone
  <2>1. PICK w \in shelf.works :
          /\ held' = [held EXCEPT ![w.source] = Made(w.kind, @)]
          /\ shelf' = [shelf EXCEPT !.works = (@ \ {w}) \cup {[w EXCEPT !.phase = "done"]}]
    BY <1>1 DEF WorkDone
  <2>2. w.source \in Sources /\ [w EXCEPT !.phase = "done"] \in Works
    BY <1>0 DEF Works
  <2>3. held' \in Versions
    BY <1>0, <2>1, <2>2 DEF Made, Versions
  <2>4. ShelfSound(shelf')
    BY <1>0, <2>1, <2>2, WorksHold
  <2> QED
    BY <2>3, <2>4 DEF ShelfCorrect
<1>2. CASE WorkLost
  <2>1. PICK w \in shelf.works : shelf' = [shelf EXCEPT !.works = @ \ {w}, !.lapses = @ + 1]
    BY <1>2 DEF WorkLost
  <2>2. shelf.works \ {w} \in SUBSET Works
    BY <1>0
  <2>3. ShelfSound(shelf')
    BY <1>0, <2>1, <2>2, CountHolds
  <2> QED
    BY <1>2, <2>3 DEF WorkLost, ShelfCorrect
<1>3. CASE WorkAnswered
  <2>1. PICK w \in shelf.works :
     LET k == [shelf EXCEPT !.works = @ \ {w}]
     IN  shelf' = CASE w.kind = "create" ->
                         [Cards(k, [k.items EXCEPT ![w.source] = 1]) EXCEPT !.known = TRUE, !.loaded = TRUE, !.error = FALSE,
                            !.creating = FALSE, !.open = IF k.compact THEN w.source ELSE @,
                            !.screen = IF k.compact THEN "add" ELSE @]
                    [] w.kind = "edit" -> Asked([k EXCEPT !.edited = IF @ = w.source THEN NoSource ELSE @])
                    [] OTHER -> Asked([k EXCEPT !.deleted = IF @ = w.source THEN NoSource ELSE @])
    BY <1>3 DEF WorkAnswered
  <2> DEFINE k == [shelf EXCEPT !.works = @ \ {w}]
             c == Cards(k, [k.items EXCEPT ![w.source] = 1])
  <2>2. ShelfSound(k) /\ w.source \in Sources
    BY <1>0, WorksHold DEF Works
  <2>3. k.compact \in BOOLEAN /\ [k.items EXCEPT ![w.source] = 1] \in Versions
    BY <2>2 DEF ShelfSound, Shelves, Versions
  <2>4. ShelfSound(c)
    BY <2>2, <2>3, CardsHold
  <2>5. CASE w.kind = "create"
    <3> HIDE DEF c, k
    <3> DEFINE open == IF k.compact THEN w.source ELSE c.open
               screen == IF k.compact THEN "add" ELSE c.screen
    <3>0. open \in Sources \cup {NoSource} /\ screen \in {"documents", "add"}
      BY <2>2, <2>4 DEF ShelfSound, Shelves
    <3> HIDE DEF open, screen
    <3>1. ShelfSound([c EXCEPT !.known = TRUE, !.loaded = TRUE, !.error = FALSE, !.creating = FALSE,
                          !.open = open, !.screen = screen])
      BY <2>4, <3>0, CreatedHolds
    <3> USE DEF c, k, open, screen
    <3> QED
      BY <1>3, <2>1, <2>5, <3>1 DEF WorkAnswered, ShelfCorrect
  <2>6. CASE w.kind = "edit"
    BY <1>3, <2>1, <2>2, <2>6, AskedHolds, ShelfCloseHolds DEF WorkAnswered, ShelfCorrect
  <2>7. CASE w.kind \notin {"create", "edit"}
    BY <1>3, <2>1, <2>2, <2>7, AskedHolds, ShelfCloseHolds DEF WorkAnswered, ShelfCorrect
  <2> QED
    BY <2>5, <2>6, <2>7
<1> QED
  BY <1>1, <1>2, <1>3

LEMMA ShelfNextHolds == ShelfCorrect /\ [ShelfNext]_shelfVars => ShelfCorrect'
<1> SUFFICES ASSUME ShelfCorrect, [ShelfNext]_shelfVars PROVE ShelfCorrect'
  OBVIOUS
<1>1. CASE UNCHANGED shelfVars
  BY <1>1 DEF shelfVars, ShelfCorrect
<1> QED
  BY <1>1, RequestHolds, WorkspaceHolds, FormHolds, WorkHolds DEF ShelfNext

\* Whatever fails, is lost or is asked by others, a workspace in front has its
\* tick set or waits for a request that is under way, and a dialog is about a
\* card of the list (knowledge-provider.tsx, knowledge-workspace.tsx).
THEOREM ShelfHolds == ShelfSpec => []ShelfConsistent
<1>1. ShelfCorrect => ShelfConsistent
  BY DEF ShelfCorrect, ShelfSound, Shelves, Works, ShelfConsistent, ShelfTypeOK
<1> QED
  BY <1>1, ShelfInitHolds, ShelfNextHolds, PTL DEF ShelfSpec
(***************************************************************************)
(* The documents of a source (SourceDocuments).                            *)
(***************************************************************************)
Standings == Shown \cup {"gone"}
PageReads == [seen : [Docs -> SUBSET Standings], fresh : BOOLEAN]
Batches == [kind : {"none", "pause", "resume", "reprocess"}, left : SUBSET Docs, ok : BOOLEAN, bad : BOOLEAN]
Purges == [via : {"button", "key"}, left : SUBSET Docs, right : BOOLEAN, ok : BOOLEAN, bad : BOOLEAN]
Uploads == [kind : {"none", "files", "folder"}, left : SUBSET Docs, ok : BOOLEAN]
Benches ==
  [trip : Trips, active : BOOLEAN, hidden : BOOLEAN, loaded : BOOLEAN, shown : [Docs -> Standings], error : BOOLEAN,
   reads : SUBSET PageReads, dirty : BOOLEAN, failed : BOOLEAN, clicks : Nat, tab : Tabs, filtered : BOOLEAN,
   selected : SUBSET Docs, rows : SUBSET [kind : RowKinds, doc : Docs], pending : Docs \cup {NoDoc},
   batch : Batches, renaming : Docs \cup {NoDoc}, deleting : Docs \cup {NoDoc},
   deletes : SUBSET [via : {"button", "key"}, doc : Docs, right : BOOLEAN], asking : BOOLEAN,
   purges : SUBSET Purges, upload : Uploads]

\* A bench in order: a read saw something of every document, and what has done
\* something, or has something left, is a run.
BenchOrdered(b) ==
  /\ b \in Benches
  /\ \A r \in b.reads : \A d \in Docs : r.seen[d] # {}
  /\ b.batch.ok \/ b.batch.left # {} => b.batch.kind # "none"
  /\ b.upload.ok \/ b.upload.left # {} => b.upload.kind # "none"

\* What is acknowledged and not shown yet: a run that did something will ask for
\* it, or it has been asked for, or that failed.
Covered(b) ==
  b.dirty => \/ b.batch.ok \/ b.upload.ok \/ b.failed
             \/ \E p \in b.purges : p.ok
             \/ \E r \in b.reads : r.fresh

BenchCorrect == docs \in [Docs -> Standings] /\ BenchOrdered(bench) /\ Covered(bench)

LEMMA BenchIs == BenchCorrect => BenchConsistent
  BY DEF BenchCorrect, BenchOrdered, Covered, Benches, Standings, BenchConsistent, BenchTypeOK, ChangesAreRead, Running, Tabs

LEMMA ToIsStanding ==
  ASSUME NEW kind, NEW status \in Standings
  PROVE  To(kind, status) \in Standings
  BY DEF To, Standings, Shown

\* What the list shows, chooses or asks may change.
LEMMA AsideKeeps ==
  ASSUME NEW b, NEW c \in Benches, BenchOrdered(b), Covered(b),
         c.reads = b.reads, c.dirty = b.dirty, c.failed = b.failed, c.batch = b.batch, c.purges = b.purges,
         c.upload = b.upload
  PROVE  BenchOrdered(c) /\ Covered(c)
  BY DEF BenchOrdered, Covered

LEMMA SeenKeeps ==
  ASSUME NEW r \in PageReads, NEW d \in Docs, NEW status \in Standings, \A e \in Docs : r.seen[e] # {}
  PROVE  LET q == [r EXCEPT !.seen[d] = @ \cup {status}]
         IN  q \in PageReads /\ q.fresh = r.fresh /\ \A e \in Docs : q.seen[e] # {}
<1> DEFINE q == [r EXCEPT !.seen[d] = @ \cup {status}]
           now == [r.seen EXCEPT ![d] = @ \cup {status}]
<1>1. now \in [Docs -> SUBSET Standings] /\ \A e \in Docs : now[e] # {}
  BY DEF PageReads
<1>2. q = [r EXCEPT !.seen = now]
  BY DEF PageReads
<1> HIDE DEF now
<1>3. q \in PageReads /\ q.fresh = r.fresh /\ q.seen = now
  BY <1>1, <1>2 DEF PageReads
<1> QED
  BY <1>1, <1>3

LEMMA ChangedKeeps ==
  ASSUME NEW b, BenchOrdered(b), NEW d \in Docs, NEW status \in Standings
  PROVE  LET c == Changed(b, d, status)
         IN  /\ BenchOrdered(c) /\ (Covered(b) => Covered(c))
             /\ c.batch = b.batch /\ c.purges = b.purges /\ c.upload = b.upload
<1> DEFINE rs == {[r EXCEPT !.seen[d] = @ \cup {status}] : r \in b.reads}
           c == Changed(b, d, status)
<1>1. b \in Benches /\ \A r \in b.reads : r \in PageReads /\ \A e \in Docs : r.seen[e] # {}
  BY DEF BenchOrdered, Benches
<1>2. /\ \A q \in rs : q \in PageReads /\ \A e \in Docs : q.seen[e] # {}
      /\ (\E r \in b.reads : r.fresh) => \E q \in rs : q.fresh
  <2> DEFINE see(r) == [r EXCEPT !.seen[d] = @ \cup {status}]
  <2>1. \A r \in b.reads : see(r) \in PageReads /\ see(r).fresh = r.fresh /\ \A e \in Docs : see(r).seen[e] # {}
    BY <1>1, SeenKeeps
  <2>2. rs = {see(r) : r \in b.reads}
    OBVIOUS
  <2> HIDE DEF see, rs
  <2> QED
    BY <2>1, <2>2
<1>3. c = [b EXCEPT !.reads = rs]
  BY DEF Changed
<1> HIDE DEF rs, c
<1>4. /\ c \in Benches /\ c.reads = rs /\ c.dirty = b.dirty /\ c.failed = b.failed /\ c.batch = b.batch
      /\ c.purges = b.purges /\ c.upload = b.upload
  BY <1>1, <1>2, <1>3 DEF Benches
<1>5. BenchOrdered(c)
  BY <1>2, <1>4 DEF BenchOrdered
<1>6. Covered(b) => Covered(c)
  BY <1>2, <1>4 DEF Covered
<1> QED
  BY <1>4, <1>5, <1>6 DEF c

LEMMA StaleKeeps ==
  ASSUME NEW b, BenchOrdered(b)
  PROVE  LET c == [b EXCEPT !.dirty = TRUE, !.failed = FALSE, !.reads = {[r EXCEPT !.fresh = FALSE] : r \in b.reads}]
         IN  BenchOrdered(c) /\ c.batch = b.batch /\ c.purges = b.purges /\ c.upload = b.upload
<1> DEFINE rs == {[r EXCEPT !.fresh = FALSE] : r \in b.reads}
           c == [b EXCEPT !.dirty = TRUE, !.failed = FALSE, !.reads = rs]
<1>1. b \in Benches /\ \A r \in b.reads : r \in PageReads /\ \A e \in Docs : r.seen[e] # {}
  BY DEF BenchOrdered, Benches
<1>2. \A q \in rs : q \in PageReads /\ \A e \in Docs : q.seen[e] # {}
  BY <1>1 DEF PageReads
<1> HIDE DEF rs
<1>3. c \in Benches /\ c.reads = rs /\ c.batch = b.batch /\ c.purges = b.purges /\ c.upload = b.upload
  BY <1>1, <1>2 DEF Benches
<1> HIDE DEF c
<1>4. BenchOrdered(c)
  BY <1>2, <1>3 DEF BenchOrdered
<1> QED
  BY <1>3, <1>4 DEF c, rs

LEMMA AwareKeeps ==
  ASSUME NEW b, BenchOrdered(b), docs \in [Docs -> Standings], NEW kind, NEW d \in Docs, NEW outcome \in Outcomes
  PROVE  LET c == Aware(b, kind, d, outcome)
         IN  /\ BenchOrdered(c) /\ (outcome # "done" /\ Covered(b) => Covered(c))
             /\ c.batch = b.batch /\ c.purges = b.purges /\ c.upload = b.upload
<1> DEFINE now == Changed(b, d, To(kind, docs[d]))
           c == IF outcome = "refused" THEN b ELSE now
<1>1. /\ BenchOrdered(now) /\ (Covered(b) => Covered(now))
      /\ now.batch = b.batch /\ now.purges = b.purges /\ now.upload = b.upload
  BY ChangedKeeps, ToIsStanding
<1> HIDE DEF now
<1>2. /\ BenchOrdered(c) /\ (Covered(b) => Covered(c))
      /\ c.batch = b.batch /\ c.purges = b.purges /\ c.upload = b.upload
  BY <1>1
<1>3. Aware(b, kind, d, outcome) =
        IF outcome # "done" THEN c
        ELSE [c EXCEPT !.dirty = TRUE, !.failed = FALSE, !.reads = {[r EXCEPT !.fresh = FALSE] : r \in c.reads}]
  BY DEF Aware, now
<1> HIDE DEF c
<1>4. CASE outcome # "done"
  BY <1>2, <1>3, <1>4
<1>5. CASE outcome = "done"
  BY <1>2, <1>3, <1>5, StaleKeeps
<1> QED
  BY <1>4, <1>5

LEMMA RefreshedKeeps ==
  ASSUME NEW b, BenchOrdered(b), NEW now \in [Docs -> Standings]
  PROVE  BenchOrdered(Refreshed(b, now)) /\ Covered(Refreshed(b, now))
<1> DEFINE r0 == [seen |-> [d \in Docs |-> {now[d]}], fresh |-> TRUE]
           c == Refreshed(b, now)
<1>1. r0 \in PageReads /\ r0.fresh /\ \A d \in Docs : r0.seen[d] # {}
  BY DEF PageReads
<1>2. c = [b EXCEPT !.reads = @ \cup {r0}] /\ b \in Benches
  BY DEF Refreshed, BenchOrdered
<1> HIDE DEF r0, c
<1>3. /\ c \in Benches /\ c.reads = b.reads \cup {r0} /\ c.batch = b.batch /\ c.upload = b.upload
  BY <1>1, <1>2 DEF Benches
<1> QED
  BY <1>1, <1>3 DEF BenchOrdered, Covered, c

LEMMA HappensKeeps ==
  ASSUME docs \in [Docs -> Standings], NEW kind, NEW d \in Docs, NEW outcome, Happens(kind, d, outcome)
  PROVE  docs' \in [Docs -> Standings]
<1>1. To(kind, docs[d]) \in Standings
  BY ToIsStanding
<1> QED
  BY <1>1 DEF Happens

LEMMA ClickKeeps ==
  ASSUME BenchCorrect
  PROVE  /\ Clicked \in Benches /\ Clicked.reads = bench.reads /\ Clicked.dirty = bench.dirty
         /\ Clicked.failed = bench.failed /\ Clicked.batch = bench.batch /\ Clicked.purges = bench.purges
         /\ Clicked.upload = bench.upload /\ BenchOrdered(Clicked) /\ Covered(Clicked)
<1>1. /\ Clicked \in Benches /\ Clicked.reads = bench.reads /\ Clicked.dirty = bench.dirty
      /\ Clicked.failed = bench.failed /\ Clicked.batch = bench.batch /\ Clicked.purges = bench.purges
      /\ Clicked.upload = bench.upload
  BY DEF BenchCorrect, BenchOrdered, Benches, Clicked
<1> QED
  BY <1>1, AsideKeeps DEF BenchCorrect

-----------------------------------------------------------------------------
\* Reading, polling, and the server.
LEMMA ReadingKeeps == BenchCorrect /\ (Activate \/ Deactivate \/ Hide \/ Poll \/ Retry \/ ReadDone \/ ReadFails \/ ServerWorks)
                        => BenchCorrect'
<1> SUFFICES ASSUME BenchCorrect
             PROVE  (Activate \/ Deactivate \/ Hide \/ Poll \/ Retry \/ ReadDone \/ ReadFails \/ ServerWorks) => BenchCorrect'
  OBVIOUS
<1>0. docs \in [Docs -> Standings] /\ BenchOrdered(bench) /\ Covered(bench) /\ bench \in Benches
  BY DEF BenchCorrect, BenchOrdered
<1>a. ASSUME NEW k \in BOOLEAN
      PROVE  BenchOrdered(Emptied([Clicked EXCEPT !.active = k])) /\ Covered(Emptied([Clicked EXCEPT !.active = k]))
  <2> DEFINE a == [Clicked EXCEPT !.active = k]
             c == Emptied(a)
  <2>1. /\ a \in Benches /\ a.reads = Clicked.reads /\ a.dirty = Clicked.dirty /\ a.failed = Clicked.failed
        /\ a.batch = Clicked.batch /\ a.purges = Clicked.purges /\ a.upload = Clicked.upload
    BY ClickKeeps DEF Benches
  <2>2. [d \in Docs |-> "gone"] \in [Docs -> Standings]
    BY DEF Standings
  <2>3. /\ c \in Benches /\ c.reads = a.reads /\ c.dirty = a.dirty /\ c.failed = a.failed
        /\ c.batch = a.batch /\ c.purges = a.purges /\ c.upload = a.upload
    BY <2>1, <2>2 DEF Emptied, Benches
  <2> QED
    BY <2>1, <2>3, ClickKeeps, AsideKeeps
<1>1. CASE Activate
  BY <1>0, <1>1, <1>a, RefreshedKeeps DEF Activate, BenchCorrect
<1>2. CASE Deactivate
  BY <1>0, <1>2, <1>a DEF Deactivate, BenchCorrect
<1>3. CASE Hide
  <2>1. bench' = [Clicked EXCEPT !.hidden = ~@] /\ docs' = docs
    BY <1>3 DEF Hide
  <2>2. PICK k \in BOOLEAN : bench' = [Clicked EXCEPT !.hidden = k]
    BY <2>1
  <2>3. /\ bench' \in Benches /\ bench'.reads = Clicked.reads /\ bench'.dirty = Clicked.dirty
        /\ bench'.failed = Clicked.failed /\ bench'.batch = Clicked.batch /\ bench'.purges = Clicked.purges
        /\ bench'.upload = Clicked.upload
    BY <2>2, ClickKeeps DEF Benches
  <2> QED
    BY <1>0, <2>1, <2>3, ClickKeeps, AsideKeeps DEF BenchCorrect
<1>4. CASE Poll \/ Retry
  BY <1>0, <1>4, RefreshedKeeps DEF Poll, Retry, BenchCorrect
<1>5. CASE ReadDone
  <2>1. PICK r \in bench.reads, shown \in [Docs -> Standings] :
          /\ bench' = [bench EXCEPT !.reads = @ \ {r}, !.loaded = TRUE, !.shown = shown, !.error = FALSE,
                                    !.dirty = @ /\ ~r.fresh, !.failed = @ /\ ~r.fresh]
          /\ docs' = docs
    BY <1>5 DEF ReadDone, Standings
  <2>2. PICK dirty \in BOOLEAN, failed \in BOOLEAN :
          /\ bench' = [bench EXCEPT !.reads = @ \ {r}, !.loaded = TRUE, !.shown = shown, !.error = FALSE,
                                    !.dirty = dirty, !.failed = failed]
          /\ dirty = (bench.dirty /\ ~r.fresh) /\ failed = (bench.failed /\ ~r.fresh)
    BY <2>1
  <2>3. /\ bench' \in Benches /\ bench'.reads = bench.reads \ {r} /\ bench'.dirty = dirty
        /\ bench'.failed = failed /\ bench'.batch = bench.batch /\ bench'.purges = bench.purges
        /\ bench'.upload = bench.upload
    <3>1. bench.reads \ {r} \in SUBSET PageReads
      BY <1>0 DEF Benches
    <3> DEFINE e == [bench EXCEPT !.reads = bench.reads \ {r}, !.loaded = TRUE, !.shown = shown, !.error = FALSE]
    <3>2. /\ e \in Benches /\ e.reads = bench.reads \ {r} /\ e.batch = bench.batch /\ e.purges = bench.purges
          /\ e.upload = bench.upload
      BY <1>0, <3>1 DEF Benches
    <3>3. bench' = [e EXCEPT !.dirty = dirty, !.failed = failed]
      BY <1>0, <2>2 DEF Benches
    <3> HIDE DEF e
    <3> QED
      BY <3>2, <3>3 DEF Benches
  <2>4. BenchOrdered(bench')
    BY <1>0, <2>3 DEF BenchOrdered
  <2>5. ASSUME bench'.dirty PROVE bench.dirty /\ ~r.fresh /\ (bench.failed => bench'.failed)
    BY <2>2, <2>3, <2>5
  <2>6. Covered(bench')
    BY <1>0, <2>3, <2>5 DEF Covered
  <2> QED
    BY <1>0, <2>1, <2>4, <2>6 DEF BenchCorrect
<1>6. CASE ReadFails
  <2>1. PICK r \in bench.reads :
          /\ bench' = [bench EXCEPT !.reads = @ \ {r}, !.error = TRUE, !.failed = @ \/ r.fresh]
          /\ docs' = docs
    BY <1>6 DEF ReadFails
  <2>2. PICK failed \in BOOLEAN : /\ bench' = [bench EXCEPT !.reads = @ \ {r}, !.error = TRUE, !.failed = failed]
                                  /\ failed = (bench.failed \/ r.fresh)
    BY <2>1
  <2>3. /\ bench' \in Benches /\ bench'.reads = bench.reads \ {r} /\ bench'.dirty = bench.dirty
        /\ bench'.failed = failed /\ bench'.batch = bench.batch /\ bench'.purges = bench.purges
        /\ bench'.upload = bench.upload
    BY <1>0, <2>2 DEF Benches
  <2>4. BenchOrdered(bench')
    BY <1>0, <2>3 DEF BenchOrdered
  <2>5. bench.failed \/ r.fresh => bench'.failed
    BY <2>2, <2>3
  <2>6. Covered(bench')
    BY <1>0, <2>3, <2>5 DEF Covered
  <2> QED
    BY <1>0, <2>1, <2>4, <2>6 DEF BenchCorrect
<1>7. CASE ServerWorks
  <2>1. PICK d \in Docs, status \in {"ready", "failed"} :
          docs' = [docs EXCEPT ![d] = status] /\ bench' = Changed(bench, d, status)
    BY <1>7 DEF ServerWorks
  <2>2. status \in Standings
    BY DEF Standings, Shown
  <2>3. BenchOrdered(bench') /\ Covered(bench')
    BY <1>0, <2>1, <2>2, ChangedKeeps
  <2> QED
    BY <1>0, <2>1, <2>2, <2>3 DEF BenchCorrect
<1> QED
  BY <1>1, <1>2, <1>3, <1>4, <1>5, <1>6, <1>7

\* The list, its selection and its dialogs.
LEMMA ListKeeps == BenchCorrect /\ (SelectTab \/ Filter \/ Toggle \/ SelectAll \/ ClearSelection \/ StartRow \/ OpenRename
                                     \/ CommitRename \/ CloseRename \/ OpenDelete \/ ConfirmDelete \/ CancelDelete
                                     \/ AskPurge \/ CancelPurge) => BenchCorrect'
<1> SUFFICES ASSUME BenchCorrect,
                    SelectTab \/ Filter \/ Toggle \/ SelectAll \/ ClearSelection \/ StartRow \/ OpenRename
                       \/ CommitRename \/ CloseRename \/ OpenDelete \/ ConfirmDelete \/ CancelDelete
                       \/ AskPurge \/ CancelPurge
             PROVE  BenchCorrect'
  OBVIOUS
<1>0. /\ docs \in [Docs -> Standings] /\ bench \in Benches /\ Clicked \in Benches
      /\ Clicked.reads = bench.reads /\ Clicked.dirty = bench.dirty /\ Clicked.failed = bench.failed
      /\ Clicked.batch = bench.batch /\ Clicked.purges = bench.purges /\ Clicked.upload = bench.upload
      /\ Clicked.deletes = bench.deletes /\ Clicked.rows = bench.rows
      /\ Visible \subseteq Docs /\ Selectable \subseteq Docs
  BY ClickKeeps DEF BenchCorrect, BenchOrdered, Clicked, Benches, Visible, Selectable
<1>1. docs' = docs
  BY DEF SelectTab, Filter, Toggle, SelectAll, ClearSelection, StartRow, OpenRename, CommitRename, CloseRename,
         OpenDelete, ConfirmDelete, CancelDelete, AskPurge, CancelPurge
<1>2. /\ bench' \in Benches /\ bench'.reads = bench.reads /\ bench'.dirty = bench.dirty
      /\ bench'.failed = bench.failed /\ bench'.batch = bench.batch /\ bench'.purges = bench.purges
      /\ bench'.upload = bench.upload
  <2>1. CASE SelectTab
    <3>1. PICK t \in Tabs : bench' = [Clicked EXCEPT !.tab = t, !.selected = {}]
      BY <2>1 DEF SelectTab
    <3> QED
      BY <1>0, <3>1 DEF Benches
  <2>2. CASE Filter
    <3>1. PICK f \in BOOLEAN : bench' = [Clicked EXCEPT !.filtered = f, !.selected = {}]
      <4>1. (~Clicked.filtered) \in BOOLEAN /\ bench' = [Clicked EXCEPT !.filtered = ~Clicked.filtered, !.selected = {}]
        BY <2>2 DEF Filter
      <4> QED
        BY <4>1
    <3> QED
      BY <1>0, <3>1 DEF Benches
  <2>3. CASE Toggle
    <3>1. PICK d \in Selectable : bench' = [Clicked EXCEPT !.selected = IF d \in @ THEN @ \ {d} ELSE @ \cup {d}]
      BY <2>3 DEF Toggle
    <3> QED
      BY <1>0, <3>1 DEF Benches
  <2>4. CASE SelectAll
    BY <1>0, <2>4 DEF SelectAll, Benches
  <2>5. CASE ClearSelection
    BY <1>0, <2>5 DEF ClearSelection, Benches
  <2>6. CASE StartRow
    <3>1. PICK kind \in RowKinds, d \in Visible :
            bench' = [Clicked EXCEPT !.rows = @ \cup {[kind |-> kind, doc |-> d]}, !.pending = d]
      BY <2>6 DEF StartRow
    <3>2. [kind |-> kind, doc |-> d] \in [kind : RowKinds, doc : Docs] /\ d \in Docs \cup {NoDoc}
      BY <1>0, <3>1
    <3>3. Clicked.rows \cup {[kind |-> kind, doc |-> d]} \in SUBSET [kind : RowKinds, doc : Docs]
      BY <1>0, <3>2 DEF Benches
    <3> QED
      BY <1>0, <3>1, <3>2, <3>3 DEF Benches
  <2>7. CASE CommitRename
    <3>1. /\ bench' = [Clicked EXCEPT !.rows = @ \cup {[kind |-> "rename", doc |-> bench.renaming]}]
          /\ bench.renaming # NoDoc
      BY <2>7 DEF CommitRename
    <3>2. [kind |-> "rename", doc |-> bench.renaming] \in [kind : RowKinds, doc : Docs]
      BY <1>0, <3>1 DEF Benches, RowKinds
    <3> QED
      BY <1>0, <3>1, <3>2 DEF Benches
  <2>8. CASE OpenRename \/ CloseRename
    <3>1. PICK d \in Docs \cup {NoDoc} : bench' = [Clicked EXCEPT !.renaming = d]
      BY <1>0, <2>8 DEF OpenRename, CloseRename
    <3> QED
      BY <1>0, <3>1 DEF Benches
  <2>9. CASE OpenDelete \/ CancelDelete
    <3>1. PICK d \in Docs \cup {NoDoc} : bench' = [Clicked EXCEPT !.deleting = d]
      BY <1>0, <2>9 DEF OpenDelete, CancelDelete
    <3> QED
      BY <1>0, <3>1 DEF Benches
  <2>10. CASE ConfirmDelete
    <3>1. PICK via \in {"button", "key"}, right \in BOOLEAN :
            /\ bench' = [Clicked EXCEPT !.deletes = @ \cup {[via |-> via, doc |-> bench.deleting, right |-> right]}]
            /\ bench.deleting # NoDoc
      BY <2>10 DEF ConfirmDelete
    <3>2. [via |-> via, doc |-> bench.deleting, right |-> right] \in [via : {"button", "key"}, doc : Docs, right : BOOLEAN]
      BY <1>0, <3>1 DEF Benches
    <3> QED
      BY <1>0, <3>1, <3>2 DEF Benches
  <2>11. CASE AskPurge \/ CancelPurge
    <3>1. PICK a \in BOOLEAN : bench' = [Clicked EXCEPT !.asking = a]
      BY <2>11 DEF AskPurge, CancelPurge
    <3> QED
      BY <1>0, <3>1 DEF Benches
  <2> QED
    BY <2>1, <2>2, <2>3, <2>4, <2>5, <2>6, <2>7, <2>8, <2>9, <2>10, <2>11
<1>3. BenchOrdered(bench') /\ Covered(bench')
  BY <1>2, AsideKeeps DEF BenchCorrect
<1> QED
  BY <1>0, <1>1, <1>3 DEF BenchCorrect

\* An end touches only what is asked for documents and the dialogs that wait.
Aside(j, x) ==
  /\ j \in Benches /\ j.reads = x.reads /\ j.dirty = x.dirty
  /\ j.failed = x.failed /\ j.batch = x.batch /\ j.purges = x.purges
  /\ j.upload = x.upload
LEMMA RowsAside ==
  ASSUME NEW x \in Benches, NEW row, NEW p \in Docs \cup {NoDoc}, NEW n \in Docs \cup {NoDoc}
  PROVE  Aside([x EXCEPT !.rows = x.rows \ {row}, !.pending = p, !.renaming = n], x)
<1> DEFINE j == [x EXCEPT !.rows = x.rows \ {row}, !.pending = p, !.renaming = n]
<1>1. j \in Benches
  BY DEF Benches
<1>2. j.reads = x.reads /\ j.dirty = x.dirty /\ j.failed = x.failed
  BY DEF Benches
<1>3. j.batch = x.batch /\ j.purges = x.purges /\ j.upload = x.upload
  BY DEF Benches
<1> HIDE DEF j
<1>4. Aside(j, x)
  BY <1>1, <1>2, <1>3 DEF Aside
<1> QED
  BY <1>4 DEF j

\* The ends of what was asked for one document.
LEMMA RowDoneKeeps == BenchCorrect /\ RowDone => BenchCorrect'
<1> SUFFICES ASSUME BenchCorrect, RowDone
             PROVE  BenchCorrect'
  OBVIOUS
<1>0. docs \in [Docs -> Standings] /\ BenchOrdered(bench) /\ Covered(bench) /\ bench \in Benches
  BY DEF BenchCorrect, BenchOrdered
<1>1. PICK row \in bench.rows, outcome \in Outcomes :
        /\ Happens(row.kind, row.doc, outcome)
        /\ LET b == Aware([bench EXCEPT !.rows = @ \ {row}, !.pending = IF row.kind = "rename" THEN @ ELSE NoDoc,
                                        !.renaming = IF row.kind = "rename" /\ outcome = "done" THEN NoDoc ELSE @],
                          row.kind, row.doc, outcome)
           IN  bench' = IF outcome = "done" THEN Refreshed(b, docs') ELSE b
  BY DEF RowDone
<1> DEFINE a == [bench EXCEPT !.rows = @ \ {row}, !.pending = IF row.kind = "rename" THEN @ ELSE NoDoc,
                              !.renaming = IF row.kind = "rename" /\ outcome = "done" THEN NoDoc ELSE @]
           b == Aware(a, row.kind, row.doc, outcome)
<1>2. row.doc \in Docs
  BY <1>0 DEF Benches
<1>3. /\ a \in Benches /\ a.reads = bench.reads /\ a.dirty = bench.dirty
      /\ a.failed = bench.failed /\ a.batch = bench.batch /\ a.purges = bench.purges
      /\ a.upload = bench.upload
  <2> DEFINE p == IF row.kind = "rename" THEN bench.pending ELSE NoDoc
             n == IF row.kind = "rename" /\ outcome = "done" THEN NoDoc ELSE bench.renaming
             j == [bench EXCEPT !.rows = bench.rows \ {row}, !.pending = p, !.renaming = n]
  <2>1. p \in Docs \cup {NoDoc} /\ n \in Docs \cup {NoDoc}
    BY <1>0 DEF Benches
  <2>2. a = j
    OBVIOUS
  <2> HIDE DEF p, n
  <2>3. bench \in Benches
    BY <1>0
  <2>4. Aside(j, bench)
    BY <2>1, <2>3, RowsAside, Zenon
  <2>5. Aside(a, bench)
    BY <2>2, <2>4, Zenon
  <2> HIDE DEF a, j
  <2> QED
    BY <2>5 DEF Aside
<1>4. bench' = IF outcome = "done" THEN Refreshed(b, docs') ELSE b
  BY <1>1
<1> HIDE DEF a
<1>5. BenchOrdered(a) /\ Covered(a)
  BY <1>0, <1>3, AsideKeeps
<1>6. BenchOrdered(b) /\ (outcome # "done" => Covered(b))
  BY <1>0, <1>2, <1>5, AwareKeeps
<1>7. docs' \in [Docs -> Standings]
  BY <1>0, <1>1, <1>2, HappensKeeps
<1> HIDE DEF b
<1>8. BenchOrdered(bench') /\ Covered(bench')
  BY <1>4, <1>6, <1>7, RefreshedKeeps
<1> QED
  BY <1>7, <1>8 DEF BenchCorrect

LEMMA DeleteDoneKeeps == BenchCorrect /\ DeleteDone => BenchCorrect'
<1> SUFFICES ASSUME BenchCorrect, DeleteDone
             PROVE  BenchCorrect'
  OBVIOUS
<1>0. docs \in [Docs -> Standings] /\ BenchOrdered(bench) /\ Covered(bench) /\ bench \in Benches
  BY DEF BenchCorrect, BenchOrdered
<1>1. PICK run \in bench.deletes, outcome \in Outcomes :
        /\ Happens("delete", run.doc, outcome)
        /\ LET b == Aware([bench EXCEPT !.deletes = @ \ {run},
                                        !.deleting = IF outcome = "done" /\ run.via = "button" THEN NoDoc ELSE @],
                          "delete", run.doc, outcome)
           IN  bench' = IF outcome = "done" THEN Refreshed(b, docs') ELSE b
  BY DEF DeleteDone
<1> DEFINE a == [bench EXCEPT !.deletes = @ \ {run},
                              !.deleting = IF outcome = "done" /\ run.via = "button" THEN NoDoc ELSE @]
           b == Aware(a, "delete", run.doc, outcome)
<1>2. run.doc \in Docs
  BY <1>0 DEF Benches
<1>3. /\ a \in Benches /\ a.reads = bench.reads /\ a.dirty = bench.dirty
      /\ a.failed = bench.failed /\ a.batch = bench.batch /\ a.purges = bench.purges
      /\ a.upload = bench.upload
  <2>1. a \in Benches
    BY <1>0 DEF Benches
  <2>2. a.reads = bench.reads /\ a.dirty = bench.dirty /\ a.failed = bench.failed
    BY <1>0 DEF Benches
  <2>3. a.batch = bench.batch /\ a.purges = bench.purges /\ a.upload = bench.upload
    BY <1>0 DEF Benches
  <2> QED
    BY <2>1, <2>2, <2>3
<1>4. bench' = IF outcome = "done" THEN Refreshed(b, docs') ELSE b
  BY <1>1
<1> HIDE DEF a
<1>5. BenchOrdered(a) /\ Covered(a)
  BY <1>0, <1>3, AsideKeeps
<1>6. BenchOrdered(b) /\ (outcome # "done" => Covered(b))
  BY <1>0, <1>2, <1>5, AwareKeeps
<1>7. docs' \in [Docs -> Standings]
  BY <1>0, <1>1, <1>2, HappensKeeps
<1> HIDE DEF b
<1>8. BenchOrdered(bench') /\ Covered(bench')
  BY <1>4, <1>6, <1>7, RefreshedKeeps
<1> QED
  BY <1>7, <1>8 DEF BenchCorrect

\* A run of a bench that does one more document: what it acknowledged is the run's to show.
LEMMA RunStepKeeps ==
  ASSUME BenchCorrect, NEW kind, NEW d \in Docs, NEW outcome \in Outcomes, Happens(kind, d, outcome),
         NEW a \in Benches, BenchOrdered(a), bench' = Aware(a, kind, d, outcome),
         a.reads = bench.reads, a.dirty = bench.dirty, a.failed = bench.failed,
         bench.batch.ok => a.batch.ok, bench.upload.ok => a.upload.ok,
         (\E p \in bench.purges : p.ok) => \E p \in a.purges : p.ok,
         outcome = "done" => a.batch.ok \/ a.upload.ok \/ \E p \in a.purges : p.ok
  PROVE  BenchCorrect'
<1>0. docs \in [Docs -> Standings] /\ Covered(bench)
  BY DEF BenchCorrect
<1>1. docs' \in [Docs -> Standings]
  BY <1>0, HappensKeeps
<1>2. Covered(a)
  BY <1>0 DEF Covered
<1>3. /\ BenchOrdered(bench') /\ (outcome # "done" => Covered(bench'))
      /\ bench'.batch = a.batch /\ bench'.purges = a.purges /\ bench'.upload = a.upload
  BY <1>0, <1>2, AwareKeeps
<1>4. Covered(bench')
  BY <1>3 DEF Covered
<1> QED
  BY <1>1, <1>3, <1>4 DEF BenchCorrect

LEMMA BatchKeeps == BenchCorrect /\ (RunBatch \/ BatchStep \/ BatchEnds) => BenchCorrect'
<1> SUFFICES ASSUME BenchCorrect
             PROVE  (RunBatch \/ BatchStep \/ BatchEnds) => BenchCorrect'
  OBVIOUS
<1>0. docs \in [Docs -> Standings] /\ BenchOrdered(bench) /\ Covered(bench) /\ bench \in Benches
  BY DEF BenchCorrect, BenchOrdered
<1>1. CASE RunBatch
  <2> DEFINE batch == [kind |-> BatchKind, left |-> Chosen, ok |-> FALSE, bad |-> FALSE]
  <2>1. bench' = [Clicked EXCEPT !.batch = batch] /\ docs' = docs /\ bench.batch.kind = "none"
    BY <1>1 DEF RunBatch
  <2>2. batch \in Batches /\ batch.kind # "none" /\ ~batch.ok
    BY <1>0 DEF Batches, BatchKind, Chosen, Visible, Benches
  <2>3. ~bench.batch.ok
    BY <1>0, <2>1 DEF BenchOrdered
  <2> HIDE DEF batch
  <2>4. /\ bench' \in Benches /\ bench'.reads = bench.reads /\ bench'.dirty = bench.dirty
        /\ bench'.failed = bench.failed /\ bench'.batch = batch /\ bench'.purges = bench.purges
        /\ bench'.upload = bench.upload
    BY <2>1, <2>2, ClickKeeps DEF Benches
  <2>5. BenchOrdered(bench') /\ Covered(bench')
    BY <1>0, <2>2, <2>3, <2>4 DEF BenchOrdered, Covered
  <2> QED
    BY <1>0, <2>1, <2>5 DEF BenchCorrect
<1>2. CASE BatchStep
  <2>1. PICK d \in bench.batch.left, outcome \in Outcomes :
          /\ Happens(bench.batch.kind, d, outcome)
          /\ bench' = Aware([bench EXCEPT !.batch.left = @ \ {d}, !.batch.ok = @ \/ outcome = "done",
                                          !.batch.bad = @ \/ outcome # "done"], bench.batch.kind, d, outcome)
    BY <1>2 DEF BatchStep
  <2> DEFINE a == [bench EXCEPT !.batch.left = @ \ {d}, !.batch.ok = @ \/ outcome = "done",
                                !.batch.bad = @ \/ outcome # "done"]
  <2>2. bench.batch \in Batches /\ d \in Docs /\ bench.batch.kind # "none"
    BY <1>0 DEF Benches, Batches, BenchOrdered
  <2>3. PICK ok \in BOOLEAN, bad \in BOOLEAN : /\ ok = (bench.batch.ok \/ outcome = "done")
                                              /\ bad = (bench.batch.bad \/ outcome # "done")
    OBVIOUS
  <2> DEFINE batch == [bench.batch EXCEPT !.left = bench.batch.left \ {d}, !.ok = ok, !.bad = bad]
  <2>4. a = [bench EXCEPT !.batch = batch]
    <3>1. a = [bench EXCEPT !.batch.left = bench.batch.left \ {d}, !.batch.ok = ok, !.batch.bad = bad]
      BY <2>3
    <3> QED
      BY <1>0, <3>1 DEF Benches
  <2>5. batch \in Batches /\ batch.kind # "none" /\ (bench.batch.ok \/ outcome = "done" => batch.ok)
    BY <2>2, <2>3 DEF Batches
  <2>6. bench' = Aware(a, bench.batch.kind, d, outcome)
    BY <2>1
  <2> HIDE DEF a, batch
  <2>7. /\ a \in Benches /\ a.reads = bench.reads /\ a.dirty = bench.dirty
        /\ a.failed = bench.failed /\ a.batch = batch /\ a.purges = bench.purges
        /\ a.upload = bench.upload
    BY <1>0, <2>4, <2>5 DEF Benches
  <2>8. BenchOrdered(a)
    BY <1>0, <2>5, <2>7 DEF BenchOrdered
  <2> QED
    BY <2>1, <2>2, <2>5, <2>6, <2>7, <2>8, RunStepKeeps
<1>3. CASE BatchEnds
  <2> DEFINE b == [bench EXCEPT !.batch = NoBatch, !.selected = {}]
  <2>1. bench' = (IF bench.batch.ok THEN Refreshed(b, docs) ELSE b) /\ docs' = docs
    BY <1>3 DEF BatchEnds
  <2>2. NoBatch \in Batches /\ ~NoBatch.ok /\ NoBatch.left = {}
    BY DEF NoBatch, Batches
  <2>3. /\ b \in Benches /\ b.reads = bench.reads /\ b.dirty = bench.dirty
        /\ b.failed = bench.failed /\ b.batch = NoBatch /\ b.purges = bench.purges
        /\ b.upload = bench.upload
    BY <1>0, <2>2 DEF Benches
  <2> HIDE DEF b
  <2>4. BenchOrdered(b)
    BY <1>0, <2>2, <2>3 DEF BenchOrdered
  <2>5. ~bench.batch.ok => Covered(b)
    BY <1>0, <2>3 DEF Covered
  <2>6. BenchOrdered(bench') /\ Covered(bench')
    BY <1>0, <2>1, <2>4, <2>5, RefreshedKeeps
  <2> QED
    BY <1>0, <2>1, <2>6 DEF BenchCorrect
<1> QED
  BY <1>1, <1>2, <1>3

LEMMA PurgeKeeps == BenchCorrect /\ (ConfirmPurge \/ PurgeStep \/ PurgeEnds) => BenchCorrect'
<1> SUFFICES ASSUME BenchCorrect
             PROVE  (ConfirmPurge \/ PurgeStep \/ PurgeEnds) => BenchCorrect'
  OBVIOUS
<1>0. docs \in [Docs -> Standings] /\ BenchOrdered(bench) /\ Covered(bench) /\ bench \in Benches
  BY DEF BenchCorrect, BenchOrdered
<1>1. CASE ConfirmPurge
  <2>1. PICK via \in {"button", "key"}, right \in BOOLEAN :
          /\ bench' = [Clicked EXCEPT !.purges = @ \cup
                         {[via |-> via, left |-> Chosen, right |-> right, ok |-> FALSE, bad |-> FALSE]}]
          /\ docs' = docs
    BY <1>1 DEF ConfirmPurge
  <2> DEFINE run == [via |-> via, left |-> Chosen, right |-> right, ok |-> FALSE, bad |-> FALSE]
  <2>2. run \in Purges
    BY DEF Purges, Chosen, Visible
  <2> HIDE DEF run
  <2>3. /\ bench' \in Benches /\ bench'.reads = bench.reads /\ bench'.dirty = bench.dirty
        /\ bench'.failed = bench.failed /\ bench'.batch = bench.batch /\ bench'.purges = bench.purges \cup {run}
        /\ bench'.upload = bench.upload
    BY <2>1, <2>2, ClickKeeps DEF Benches, run
  <2>4. BenchOrdered(bench') /\ Covered(bench')
    BY <1>0, <2>3 DEF BenchOrdered, Covered
  <2> QED
    BY <1>0, <2>1, <2>4 DEF BenchCorrect
<1>2. CASE PurgeStep
  <2>1. PICK run \in bench.purges : \E d \in run.left, outcome \in Outcomes :
          /\ Happens("delete", d, outcome)
          /\ bench' = Aware([bench EXCEPT !.purges = (@ \ {run}) \cup
                       {[run EXCEPT !.left = @ \ {d}, !.ok = @ \/ outcome = "done", !.bad = @ \/ outcome # "done"]}],
                    "delete", d, outcome)
    BY <1>2 DEF PurgeStep
  <2>2. PICK d \in run.left, outcome \in Outcomes :
          /\ Happens("delete", d, outcome)
          /\ bench' = Aware([bench EXCEPT !.purges = (@ \ {run}) \cup
                       {[run EXCEPT !.left = @ \ {d}, !.ok = @ \/ outcome = "done", !.bad = @ \/ outcome # "done"]}],
                    "delete", d, outcome)
    BY <2>1
  <2>3. run \in Purges /\ d \in Docs
    BY <1>0 DEF Benches, Purges
  <2> DEFINE next == [run EXCEPT !.left = @ \ {d}, !.ok = @ \/ outcome = "done", !.bad = @ \/ outcome # "done"]
             a == [bench EXCEPT !.purges = (@ \ {run}) \cup {next}]
  <2>4. next \in Purges /\ (run.ok \/ outcome = "done" => next.ok)
    <3>1. PICK ok \in BOOLEAN, bad \in BOOLEAN : /\ ok = (run.ok \/ outcome = "done")
                                                /\ bad = (run.bad \/ outcome # "done")
      OBVIOUS
    <3>2. next = [run EXCEPT !.left = @ \ {d}, !.ok = ok, !.bad = bad]
      BY <3>1
    <3> QED
      BY <2>3, <3>1, <3>2 DEF Purges
  <2>5. bench' = Aware(a, "delete", d, outcome)
    BY <2>2
  <2> HIDE DEF next
  <2>6. /\ a \in Benches /\ a.reads = bench.reads /\ a.dirty = bench.dirty
        /\ a.failed = bench.failed /\ a.batch = bench.batch /\ a.purges = (bench.purges \ {run}) \cup {next}
        /\ a.upload = bench.upload
    BY <1>0, <2>4 DEF Benches
  <2> HIDE DEF a
  <2>7. BenchOrdered(a)
    BY <1>0, <2>6 DEF BenchOrdered
  <2>8. (\E p \in bench.purges : p.ok) => \E p \in a.purges : p.ok
    BY <2>4, <2>6
  <2>9. outcome = "done" => \E p \in a.purges : p.ok
    BY <2>4, <2>6
  <2> QED
    BY <2>2, <2>3, <2>5, <2>6, <2>7, <2>8, <2>9, RunStepKeeps
<1>3. CASE PurgeEnds
  <2>1. PICK run \in bench.purges :
          /\ LET b == [bench EXCEPT !.purges = @ \ {run}, !.selected = {}, !.asking = @ /\ ~run.ok /\ run.bad]
             IN  bench' = IF run.ok THEN Refreshed(b, docs) ELSE b
          /\ docs' = docs
    BY <1>3 DEF PurgeEnds
  <2> DEFINE b == [bench EXCEPT !.purges = @ \ {run}, !.selected = {}, !.asking = @ /\ ~run.ok /\ run.bad]
  <2>2. bench' = (IF run.ok THEN Refreshed(b, docs) ELSE b) /\ docs' = docs
    BY <2>1
  <2>3. PICK asking \in BOOLEAN : b = [bench EXCEPT !.purges = @ \ {run}, !.selected = {}, !.asking = asking]
    OBVIOUS
  <2> HIDE DEF b
  <2>4. /\ b \in Benches /\ b.reads = bench.reads /\ b.dirty = bench.dirty
        /\ b.failed = bench.failed /\ b.batch = bench.batch /\ b.purges = bench.purges \ {run}
        /\ b.upload = bench.upload
    BY <1>0, <2>3 DEF Benches
  <2>5. BenchOrdered(b)
    BY <1>0, <2>4 DEF BenchOrdered
  <2>6. ~run.ok => Covered(b)
    BY <1>0, <2>4 DEF Covered
  <2>7. BenchOrdered(bench') /\ Covered(bench')
    BY <1>0, <2>2, <2>5, <2>6, RefreshedKeeps
  <2> QED
    BY <1>0, <2>2, <2>7 DEF BenchCorrect
<1> QED
  BY <1>1, <1>2, <1>3

LEMMA UploadKeeps == BenchCorrect /\ (StartUpload \/ UploadStep \/ FolderFails \/ UploadEnds) => BenchCorrect'
<1> SUFFICES ASSUME BenchCorrect
             PROVE  (StartUpload \/ UploadStep \/ FolderFails \/ UploadEnds) => BenchCorrect'
  OBVIOUS
<1>0. docs \in [Docs -> Standings] /\ BenchOrdered(bench) /\ Covered(bench) /\ bench \in Benches
  BY DEF BenchCorrect, BenchOrdered
<1>a. NoUpload \in Uploads /\ ~NoUpload.ok /\ NoUpload.left = {}
  BY DEF NoUpload, Uploads
<1>1. CASE StartUpload
  <2>1. PICK kind \in {"files", "folder"}, some \in SUBSET Docs :
          /\ bench' = [Clicked EXCEPT !.upload = [kind |-> kind, left |-> some, ok |-> FALSE]]
          /\ docs' = docs /\ bench.upload.kind = "none"
    BY <1>1 DEF StartUpload
  <2> DEFINE upload == [kind |-> kind, left |-> some, ok |-> FALSE]
  <2>2. upload \in Uploads /\ upload.kind # "none" /\ ~upload.ok
    BY DEF Uploads
  <2>3. ~bench.upload.ok
    BY <1>0, <2>1 DEF BenchOrdered
  <2> HIDE DEF upload
  <2>4. /\ bench' \in Benches /\ bench'.reads = bench.reads /\ bench'.dirty = bench.dirty
        /\ bench'.failed = bench.failed /\ bench'.batch = bench.batch /\ bench'.purges = bench.purges
        /\ bench'.upload = upload
    BY <2>1, <2>2, ClickKeeps DEF Benches, upload
  <2>5. BenchOrdered(bench') /\ Covered(bench')
    BY <1>0, <2>2, <2>3, <2>4 DEF BenchOrdered, Covered
  <2> QED
    BY <1>0, <2>1, <2>5 DEF BenchCorrect
<1>2. CASE UploadStep
  <2>1. PICK d \in bench.upload.left, outcome \in Outcomes :
          /\ Happens("upload", d, outcome)
          /\ bench' = Aware([bench EXCEPT !.upload.left = @ \ {d}, !.upload.ok = @ \/ outcome = "done"], "upload", d, outcome)
    BY <1>2 DEF UploadStep
  <2> DEFINE a == [bench EXCEPT !.upload.left = @ \ {d}, !.upload.ok = @ \/ outcome = "done"]
  <2>2. bench.upload \in Uploads /\ d \in Docs /\ bench.upload.kind # "none"
    BY <1>0 DEF Benches, Uploads, BenchOrdered
  <2>3. PICK ok \in BOOLEAN : ok = (bench.upload.ok \/ outcome = "done")
    OBVIOUS
  <2> DEFINE upload == [bench.upload EXCEPT !.left = bench.upload.left \ {d}, !.ok = ok]
  <2>4. a = [bench EXCEPT !.upload = upload]
    <3>1. a = [bench EXCEPT !.upload.left = bench.upload.left \ {d}, !.upload.ok = ok]
      BY <2>3
    <3> QED
      BY <1>0, <3>1 DEF Benches
  <2>5. upload \in Uploads /\ upload.kind # "none" /\ (bench.upload.ok \/ outcome = "done" => upload.ok)
    BY <2>2, <2>3 DEF Uploads
  <2>6. bench' = Aware(a, "upload", d, outcome)
    BY <2>1
  <2> HIDE DEF a, upload
  <2>7. /\ a \in Benches /\ a.reads = bench.reads /\ a.dirty = bench.dirty
        /\ a.failed = bench.failed /\ a.batch = bench.batch /\ a.purges = bench.purges
        /\ a.upload = upload
    BY <1>0, <2>4, <2>5 DEF Benches
  <2>8. BenchOrdered(a)
    BY <1>0, <2>5, <2>7 DEF BenchOrdered
  <2> QED
    BY <2>1, <2>2, <2>5, <2>6, <2>7, <2>8, RunStepKeeps
<1>3. CASE FolderFails
  <2>1. bench' = [bench EXCEPT !.upload = NoUpload, !.failed = bench.dirty] /\ docs' = docs
    BY <1>3 DEF FolderFails
  <2>2. bench.dirty \in BOOLEAN
    BY <1>0 DEF Benches
  <2>3. /\ bench' \in Benches /\ bench'.reads = bench.reads /\ bench'.dirty = bench.dirty
        /\ bench'.failed = bench.dirty /\ bench'.batch = bench.batch /\ bench'.purges = bench.purges
        /\ bench'.upload = NoUpload
    BY <1>0, <1>a, <2>1, <2>2 DEF Benches
  <2>4. BenchOrdered(bench') /\ Covered(bench')
    BY <1>0, <1>a, <2>3 DEF BenchOrdered, Covered
  <2> QED
    BY <1>0, <2>1, <2>4 DEF BenchCorrect
<1>4. CASE UploadEnds
  <2> DEFINE b == [bench EXCEPT !.upload = NoUpload]
  <2>1. bench' = (IF bench.upload.ok THEN Refreshed(b, docs) ELSE b) /\ docs' = docs
    BY <1>4 DEF UploadEnds
  <2>2. /\ b \in Benches /\ b.reads = bench.reads /\ b.dirty = bench.dirty
        /\ b.failed = bench.failed /\ b.batch = bench.batch /\ b.purges = bench.purges
        /\ b.upload = NoUpload
    BY <1>0, <1>a DEF Benches
  <2> HIDE DEF b
  <2>3. BenchOrdered(b)
    BY <1>0, <1>a, <2>2 DEF BenchOrdered
  <2>4. ~bench.upload.ok => Covered(b)
    BY <1>0, <2>2 DEF Covered
  <2>5. BenchOrdered(bench') /\ Covered(bench')
    BY <1>0, <2>1, <2>3, <2>4, RefreshedKeeps
  <2> QED
    BY <1>0, <2>1, <2>5 DEF BenchCorrect
<1> QED
  BY <1>1, <1>2, <1>3, <1>4

LEMMA BenchInitHolds == BenchInit => BenchCorrect
<1> SUFFICES ASSUME BenchInit
             PROVE  BenchCorrect
  OBVIOUS
<1>1. PICK trip \in Trips :
     /\ docs = trip.shelf
     /\ bench = [trip |-> trip, active |-> FALSE, hidden |-> FALSE, loaded |-> FALSE, shown |-> [d \in Docs |-> "gone"], error |-> FALSE,
                 reads |-> {}, dirty |-> FALSE, failed |-> FALSE, clicks |-> 0,
                 tab |-> "ready", filtered |-> FALSE, selected |-> {}, rows |-> {}, pending |-> NoDoc,
                 batch |-> [kind |-> "none", left |-> {}, ok |-> FALSE, bad |-> FALSE],
                 renaming |-> NoDoc, deleting |-> NoDoc, deletes |-> {}, asking |-> FALSE, purges |-> {},
                 upload |-> [kind |-> "none", left |-> {}, ok |-> FALSE]]
  BY DEF BenchInit
<1>2. docs \in [Docs -> Standings] /\ [d \in Docs |-> "gone"] \in [Docs -> Standings]
  BY <1>1, BenchAssumption DEF Standings
<1>3. /\ [kind |-> "none", left |-> {}, ok |-> FALSE, bad |-> FALSE] \in Batches
      /\ [kind |-> "none", left |-> {}, ok |-> FALSE] \in Uploads
  BY DEF Batches, Uploads
<1>4. bench \in Benches
  BY <1>1, <1>2, <1>3 DEF Benches, Tabs, Shown
<1> QED
  BY <1>1, <1>2, <1>4 DEF BenchCorrect, BenchOrdered, Covered

LEMMA BenchNextHolds == BenchCorrect /\ [BenchNext]_benchVars => BenchCorrect'
<1>1. BenchCorrect /\ UNCHANGED benchVars => BenchCorrect'
  BY DEF BenchCorrect, benchVars
<1> QED
  BY <1>1, ReadingKeeps, ListKeeps, RowDoneKeeps, DeleteDoneKeeps, BatchKeeps, PurgeKeeps, UploadKeeps DEF BenchNext

\* The page of a source never rests on what it knows to be old: what the server
\* acknowledged is shown, or a read asked for afterwards is on its way
\* (use-source-content.ts, document-list.tsx).
THEOREM BenchHolds == BenchSpec => []BenchConsistent
<1>1. BenchSpec => []BenchCorrect
  BY BenchInitHolds, BenchNextHolds, PTL DEF BenchSpec
<1> QED
  BY <1>1, BenchIs, PTL

(***************************************************************************)
(* The feed of what is indexed (IngestActivity).                           *)
(***************************************************************************)
Known == FeedStatuses \cup {Unseen}
Telling == UNION {[S -> FeedStatuses] : S \in SUBSET Papers}
Happenings == [doc : Papers, from : FeedStatuses, to : FeedStatuses]
Feeds == [active : BOOLEAN, hidden : BOOLEAN, era : Nat, reads : SUBSET [era : Nat, saw : Telling],
          snapshot : [Papers -> Known], events : Seq(Happenings), ticks : Nat, turns : Nat]

\* The events es are one story that ends at what snap knows.
Story(es, snap) ==
  /\ \A i \in 1..Len(es) : es[i].from # es[i].to
  /\ \A i \in 1..Len(es) : (\A k \in 1..Len(es) : k < i => es[k].doc # es[i].doc) => es[i].to = snap[es[i].doc]
  /\ \A i, j \in 1..Len(es) :
       (i < j /\ es[j].doc = es[i].doc /\ \A k \in 1..Len(es) : i < k /\ k < j => es[k].doc # es[i].doc)
         => es[i].from = es[j].to
FeedCorrect ==
  /\ works \in [Papers -> FeedStatuses] /\ feed \in Feeds
  /\ Story(feed.events, feed.snapshot)

LEMMA StoryIsTold == FeedCorrect => FeedTellsOneStory
<1> SUFFICES ASSUME FeedCorrect, NEW i \in DOMAIN feed.events
             PROVE  LET e == feed.events[i]
                    IN  /\ e.from # e.to
                        /\ Silent(i, 1, i - 1) => e.to = feed.snapshot[e.doc]
                        /\ \A j \in i + 1..Len(feed.events) :
                             (feed.events[j].doc = e.doc /\ Silent(i, i + 1, j - 1)) => e.from = feed.events[j].to
  BY DEF FeedTellsOneStory
<1> DEFINE es == feed.events
<1>1. es \in Seq(Happenings) /\ i \in 1..Len(es) /\ Len(es) \in Nat /\ Story(es, feed.snapshot)
  BY DEF FeedCorrect, Feeds
<1>2. Silent(i, 1, i - 1) => es[i].to = feed.snapshot[es[i].doc]
  BY <1>1 DEF Silent, Story
<1>3. ASSUME NEW j \in i + 1..Len(es), es[j].doc = es[i].doc, Silent(i, i + 1, j - 1)
      PROVE  es[i].from = es[j].to
  <2>1. j \in 1..Len(es) /\ i < j /\ \A k \in 1..Len(es) : i < k /\ k < j => es[k].doc # es[i].doc
    BY <1>1, <1>3 DEF Silent
  <2> QED
    BY <1>1, <1>3, <2>1 DEF Story
<1> QED
  BY <1>1, <1>2, <1>3 DEF Story

\* The first events of a story are one.
LEMMA FrontIsStory ==
  ASSUME NEW es \in Seq(Happenings), NEW snap, Story(es, snap)
  PROVE  Front(es) \in Seq(Happenings) /\ Story(Front(es), snap)
<1> DEFINE m == IF Len(es) < FeedEvents THEN Len(es) ELSE FeedEvents
           fs == SubSeq(es, 1, m)
<1>1. m \in 0..Len(es) /\ Len(es) \in Nat
  BY FeedAssumption
<1> HIDE DEF m
<1>2. fs \in Seq(Happenings) /\ Len(fs) = m /\ \A i \in 1..m : fs[i] = es[i]
  BY <1>1
<1>3. Front(es) = fs
  BY DEF Front, m
<1> HIDE DEF fs
<1>4. \A i \in 1..m : i \in 1..Len(es) /\ \A k \in 1..Len(es) : k < i => k \in 1..m
  BY <1>1
<1>5. Story(fs, snap)
  <2>1. \A i \in 1..m : fs[i].from # fs[i].to
    BY <1>2, <1>4 DEF Story
  <2>2. \A i \in 1..m : (\A k \in 1..m : k < i => fs[k].doc # fs[i].doc) => fs[i].to = snap[fs[i].doc]
    <3> SUFFICES ASSUME NEW i \in 1..m, \A k \in 1..m : k < i => fs[k].doc # fs[i].doc
                 PROVE  fs[i].to = snap[fs[i].doc]
      OBVIOUS
    <3>1. \A k \in 1..Len(es) : k < i => es[k].doc # es[i].doc
      BY <1>2, <1>4
    <3> QED
      BY <1>2, <1>4, <3>1 DEF Story
  <2>3. ASSUME NEW i \in 1..m, NEW j \in 1..m, i < j, fs[j].doc = fs[i].doc,
               \A k \in 1..m : i < k /\ k < j => fs[k].doc # fs[i].doc
        PROVE  fs[i].from = fs[j].to
    <3>1. \A k \in 1..Len(es) : i < k /\ k < j => es[k].doc # es[i].doc
      BY <1>2, <1>4, <2>3
    <3> QED
      BY <1>2, <1>4, <2>3, <3>1 DEF Story
  <2> QED
    BY <1>2, <2>1, <2>2, <2>3 DEF Story
<1> QED
  BY <1>2, <1>3, <1>5

\* Every document of a set has its one place in an order of it.
LEMMA OrderIsInjective ==
  ASSUME NEW ps \in SUBSET Papers, NEW o \in Orders(ps)
  PROVE  /\ Cardinality(ps) \in Nat /\ o \in [1..Cardinality(ps) -> ps]
         /\ \A p \in ps : \E i \in 1..Cardinality(ps) : o[i] = p
         /\ \A i, j \in 1..Cardinality(ps) : o[i] = o[j] => i = j
<1> DEFINE n == Cardinality(ps)
<1>1. IsFiniteSet(ps) /\ n \in Nat
  BY FeedAssumption, FS_Subset, FS_CardinalityType
<1>2. o \in [1..n -> ps] /\ \A p \in ps : \E i \in 1..n : o[i] = p
  BY DEF Orders
<1>3. IsFiniteSet(1..n) /\ Cardinality(1..n) = n
  BY <1>1, FS_Interval
<1>4. o \in Surjection(1..n, ps)
  BY <1>2 DEF Surjection
<1>5. o \in Injection(1..n, ps)
  BY <1>3, <1>4, FS_Surjection
<1>6. \A i, j \in 1..n : o[i] = o[j] => i = j
  BY <1>2, <1>5 DEF Injection, IsInjective
<1> QED
  BY <1>1, <1>2, <1>6

\* An answer goes on with the story.
LEMMA AnswerGoesOn ==
  ASSUME FeedCorrect, NEW saw \in Telling, NEW o \in Orders(Differs(saw)),
         NEW fresh, fresh = [i \in DOMAIN o |-> Event(o[i], saw)],
         NEW snap, snap = [p \in Papers |-> IF p \in DOMAIN saw THEN saw[p] ELSE feed.snapshot[p]]
  PROVE  /\ snap \in [Papers -> Known]
         /\ fresh \o feed.events \in Seq(Happenings) /\ Story(fresh \o feed.events, snap)
<1> DEFINE ps == Differs(saw)
           n == Cardinality(ps)
           old == feed.events
           es == fresh \o old
<1>1. /\ DOMAIN saw \subseteq Papers /\ \A p \in DOMAIN saw : saw[p] \in FeedStatuses
      /\ feed.snapshot \in [Papers -> Known] /\ old \in Seq(Happenings) /\ Story(old, feed.snapshot)
  BY DEF Telling, FeedCorrect, Feeds
<1>2. ps \in SUBSET Papers
  BY <1>1 DEF Differs
<1>3. /\ n \in Nat /\ o \in [1..n -> ps] /\ \A p \in ps : \E i \in 1..n : o[i] = p
      /\ \A i, j \in 1..n : o[i] = o[j] => i = j
  BY <1>2, OrderIsInjective
<1>4. \A p \in ps : /\ p \in DOMAIN saw /\ feed.snapshot[p] # Unseen /\ feed.snapshot[p] # saw[p]
                    /\ Event(p, saw) \in Happenings /\ Event(p, saw).doc = p /\ Event(p, saw).from = feed.snapshot[p]
                    /\ Event(p, saw).to = saw[p]
  BY <1>1 DEF Differs, Event, Happenings, Known
<1> HIDE DEF ps, n
<1>5. /\ fresh \in Seq(Happenings) /\ Len(fresh) = n
      /\ \A i \in 1..n : /\ fresh[i].doc = o[i] /\ fresh[i].from = feed.snapshot[o[i]] /\ fresh[i].to = saw[o[i]]
                         /\ o[i] \in ps
  <2>1. fresh = [i \in 1..n |-> Event(o[i], saw)]
    BY <1>3
  <2>2. \A i \in 1..n : o[i] \in ps /\ fresh[i] = Event(o[i], saw) /\ fresh[i] \in Happenings
    BY <1>3, <1>4, <2>1
  <2>3. fresh \in Seq(Happenings) /\ Len(fresh) = n
    BY <1>3, <2>1, <2>2
  <2> QED
    BY <1>4, <2>2, <2>3
<1>6. snap \in [Papers -> Known] /\ \A p \in DOMAIN saw : snap[p] = saw[p]
  BY <1>1 DEF Known
<1>7. \A p \in Papers : snap[p] # feed.snapshot[p] => p \in ps \/ feed.snapshot[p] = Unseen
  BY <1>1 DEF ps, Differs
<1> DEFINE m == Len(old)
<1>8. /\ m \in Nat /\ es \in Seq(Happenings) /\ Len(es) = n + m
      /\ \A i \in 1..n : es[i] = fresh[i]
      /\ \A i \in 1..m : es[n + i] = old[i]
  BY <1>1, <1>3, <1>5
<1>9. \A i \in 1..m : old[i].doc \in Papers /\ old[i].to \in FeedStatuses
  <2>1. \A i \in 1..m : old[i] \in Happenings
    BY <1>1
  <2> QED
    BY <2>1 DEF Happenings
<1> HIDE DEF old, es, m
<1>x. \A i \in 1..Len(es) \ 1..n : i - n \in 1..m /\ i = n + (i - n)
  BY <1>3, <1>8
<1>10. ASSUME NEW i \in 1..Len(es)
       PROVE  es[i].from # es[i].to
  <2>1. CASE i \in 1..n
    BY <1>4, <1>5, <1>8, <2>1
  <2>2. CASE i \notin 1..n
    <3>1. i - n \in 1..m /\ es[i] = old[i - n]
      BY <1>8, <1>x, <2>2
    <3> QED
      BY <1>1, <3>1 DEF Story, m, old
  <2> QED
    BY <2>1, <2>2
<1>11. ASSUME NEW i \in 1..Len(es), \A k \in 1..Len(es) : k < i => es[k].doc # es[i].doc
       PROVE  es[i].to = snap[es[i].doc]
  <2>1. CASE i \in 1..n
    BY <1>4, <1>5, <1>6, <1>8, <2>1
  <2>2. CASE i \notin 1..n
    <3> DEFINE a == i - n
    <3>1. a \in 1..m /\ es[i] = old[a] /\ i = n + a
      BY <1>8, <1>x, <2>2
    <3>2. ASSUME NEW k \in 1..m, k < a
          PROVE  old[k].doc # old[a].doc
      <4>1. n + k \in 1..Len(es) /\ n + k < i /\ es[n + k] = old[k]
        BY <1>3, <1>8, <3>1, <3>2
      <4> QED
        BY <1>11, <3>1, <4>1
    <3>3. old[a].to = feed.snapshot[old[a].doc]
      BY <1>1, <3>1, <3>2 DEF Story, m, old
    <3>4. old[a].doc \notin ps
      <4>1. \A k \in 1..n : k \in 1..Len(es) /\ k < i /\ es[k].doc = o[k]
        BY <1>3, <1>5, <1>8, <3>1
      <4>2. \A k \in 1..n : o[k] # old[a].doc
        BY <1>11, <3>1, <4>1
      <4> QED
        BY <1>3, <4>2
    <3>5. feed.snapshot[old[a].doc] # Unseen /\ old[a].doc \in Papers
      BY <1>9, <3>1, <3>3 DEF FeedStatuses, Unseen
    <3> QED
      BY <1>7, <3>1, <3>3, <3>4, <3>5
  <2> QED
    BY <2>1, <2>2
<1>12. ASSUME NEW i \in 1..Len(es), NEW j \in 1..Len(es), i < j, es[j].doc = es[i].doc,
              \A k \in 1..Len(es) : i < k /\ k < j => es[k].doc # es[i].doc
       PROVE  es[i].from = es[j].to
  <2>1. CASE j \in 1..n
    <3>1. i \in 1..n /\ o[i] = o[j]
      BY <1>3, <1>5, <1>8, <1>12, <2>1
    <3> QED
      BY <1>3, <1>12, <2>1, <3>1
  <2>2. CASE j \notin 1..n
    <3> DEFINE b == j - n
    <3>1. b \in 1..m /\ es[j] = old[b] /\ j = n + b
      BY <1>8, <1>x, <2>2
    <3>2. CASE i \in 1..n
      <4>1. ASSUME NEW k \in 1..m, k < b
            PROVE  old[k].doc # old[b].doc
        <5>1. n + k \in 1..Len(es) /\ i < n + k /\ n + k < j /\ es[n + k] = old[k]
          BY <1>3, <1>8, <3>1, <3>2, <4>1
        <5> QED
          BY <1>12, <3>1, <5>1
      <4>2. old[b].to = feed.snapshot[old[b].doc]
        BY <1>1, <3>1, <4>1 DEF Story, m, old
      <4>3. es[i].doc = o[i] /\ es[i].from = feed.snapshot[o[i]]
        BY <1>5, <1>8, <3>2
      <4> QED
        BY <1>12, <3>1, <4>2, <4>3
    <3>3. CASE i \notin 1..n
      <4> DEFINE a == i - n
      <4>1. a \in 1..m /\ es[i] = old[a] /\ i = n + a /\ a < b
        BY <1>3, <1>8, <1>12, <3>1, <3>3
      <4>2. ASSUME NEW k \in 1..m, a < k, k < b
            PROVE  old[k].doc # old[a].doc
        <5>1. n + k \in 1..Len(es) /\ i < n + k /\ n + k < j /\ es[n + k] = old[k]
          BY <1>3, <1>8, <3>1, <4>1, <4>2
        <5> QED
          BY <1>12, <4>1, <5>1
      <4>3. old[b].doc = old[a].doc
        BY <1>12, <3>1, <4>1
      <4> QED
        BY <1>1, <3>1, <4>1, <4>2, <4>3 DEF Story, m, old
    <3> QED
      BY <3>2, <3>3
  <2> QED
    BY <2>1, <2>2
<1>13. Story(es, snap)
  BY <1>10, <1>11, <1>12 DEF Story
<1> QED
  BY <1>6, <1>8, <1>13 DEF es, old

LEMMA FeedInitHolds == FeedInit => FeedCorrect
<1> SUFFICES ASSUME FeedInit
             PROVE  FeedCorrect
  OBVIOUS
<1>1. works \in [Papers -> FeedStatuses]
  BY DEF FeedInit, FeedStatuses
<1>2. feed = [active |-> FALSE, hidden |-> FALSE, era |-> 0, reads |-> {}, snapshot |-> [p \in Papers |-> Unseen],
             events |-> <<>>, ticks |-> 0, turns |-> 0]
  BY DEF FeedInit
<1>3. [p \in Papers |-> Unseen] \in [Papers -> Known]
  BY DEF Known
<1>4. feed \in Feeds /\ feed.events = <<>>
  BY <1>2, <1>3 DEF Feeds
<1> QED
  BY <1>1, <1>4 DEF FeedCorrect, Story

LEMMA FeedNextHolds == FeedCorrect /\ [FeedNext]_feedVars => FeedCorrect'
<1> SUFFICES ASSUME FeedCorrect, [FeedNext]_feedVars
             PROVE  FeedCorrect'
  OBVIOUS
<1>0. works \in [Papers -> FeedStatuses] /\ feed \in Feeds /\ Story(feed.events, feed.snapshot)
  BY DEF FeedCorrect
<1>n. feed.era + 1 \in Nat /\ feed.ticks + 1 \in Nat /\ feed.turns + 1 \in Nat
  BY <1>0 DEF Feeds
<1>1. CASE UNCHANGED feedVars
  BY <1>0, <1>1 DEF feedVars, FeedCorrect
<1>2. CASE FeedOpens
  <2>1. feed' = [feed EXCEPT !.active = TRUE] /\ works' = works
    BY <1>2 DEF FeedOpens
  <2>2. feed' \in Feeds /\ feed'.events = feed.events /\ feed'.snapshot = feed.snapshot
    BY <1>0, <1>n, <2>1 DEF Feeds
  <2> QED
    BY <1>0, <2>1, <2>2 DEF FeedCorrect
<1>3. CASE FeedCloses
  <2>1. feed' = [feed EXCEPT !.active = FALSE, !.era = @ + 1, !.turns = @ + 1] /\ works' = works
    BY <1>3 DEF FeedCloses
  <2>2. feed' \in Feeds /\ feed'.events = feed.events /\ feed'.snapshot = feed.snapshot
    BY <1>0, <1>n, <2>1 DEF Feeds
  <2> QED
    BY <1>0, <2>1, <2>2 DEF FeedCorrect
<1>4. CASE FeedHides
  <2>1. PICK h \in BOOLEAN : feed' = [feed EXCEPT !.hidden = h, !.turns = @ + 1] /\ works' = works
    <3>1. feed' = [feed EXCEPT !.hidden = ~@, !.turns = @ + 1] /\ works' = works
      BY <1>4 DEF FeedHides
    <3>2. (~feed.hidden) \in BOOLEAN
      OBVIOUS
    <3> QED
      BY <3>1, <3>2
  <2>2. feed' \in Feeds /\ feed'.events = feed.events /\ feed'.snapshot = feed.snapshot
    BY <1>0, <1>n, <2>1 DEF Feeds
  <2> QED
    BY <1>0, <2>1, <2>2 DEF FeedCorrect
<1>5. CASE FeedTicks
  <2>1. PICK told \in SUBSET Papers :
          feed' = [feed EXCEPT !.reads = @ \cup {[era |-> feed.era, saw |-> [p \in told |-> works[p]]]}, !.ticks = @ + 1]
    BY <1>5 DEF FeedTicks
  <2>2. [p \in told |-> works[p]] \in [told -> FeedStatuses]
    BY <1>0
  <2>3. [era |-> feed.era, saw |-> [p \in told |-> works[p]]] \in [era : Nat, saw : Telling]
    BY <1>0, <2>2 DEF Telling, Feeds
  <2>4. feed' \in Feeds /\ feed'.events = feed.events /\ feed'.snapshot = feed.snapshot
    BY <1>0, <1>n, <2>1, <2>3 DEF Feeds
  <2>5. works' = works
    BY <1>5 DEF FeedTicks
  <2> QED
    BY <1>0, <2>4, <2>5 DEF FeedCorrect
<1>6. CASE FeedAnswers
  <2>0. PICK read \in feed.reads : \E o \in Orders(Differs(read.saw)) :
          feed' = IF read.era # feed.era THEN [feed EXCEPT !.reads = @ \ {read}]
                  ELSE [feed EXCEPT !.reads = @ \ {read},
                          !.snapshot = [p \in Papers |-> IF p \in DOMAIN read.saw THEN read.saw[p] ELSE @[p]],
                          !.events = Front([i \in DOMAIN o |-> Event(o[i], read.saw)] \o @)]
    BY <1>6 DEF FeedAnswers
  <2>1. PICK o \in Orders(Differs(read.saw)) :
          feed' = IF read.era # feed.era THEN [feed EXCEPT !.reads = @ \ {read}]
                  ELSE [feed EXCEPT !.reads = @ \ {read},
                          !.snapshot = [p \in Papers |-> IF p \in DOMAIN read.saw THEN read.saw[p] ELSE @[p]],
                          !.events = Front([i \in DOMAIN o |-> Event(o[i], read.saw)] \o @)]
    BY <2>0
  <2>2. works' = works /\ read.saw \in Telling
    BY <1>0, <1>6 DEF FeedAnswers, Feeds
  <2>3. CASE read.era # feed.era
    <3>1. feed' \in Feeds /\ feed'.events = feed.events /\ feed'.snapshot = feed.snapshot
      BY <1>0, <2>1, <2>3 DEF Feeds
    <3> QED
      BY <1>0, <2>2, <3>1 DEF FeedCorrect
  <2>4. CASE read.era = feed.era
    <3> DEFINE fresh == [i \in DOMAIN o |-> Event(o[i], read.saw)]
               snap == [p \in Papers |-> IF p \in DOMAIN read.saw THEN read.saw[p] ELSE feed.snapshot[p]]
               es == fresh \o feed.events
    <3>1. snap \in [Papers -> Known] /\ es \in Seq(Happenings) /\ Story(es, snap)
      BY <2>2, AnswerGoesOn
    <3>2. feed' = [feed EXCEPT !.reads = @ \ {read}, !.snapshot = snap, !.events = Front(es)]
      BY <2>1, <2>4
    <3> HIDE DEF fresh, snap, es
    <3>3. Front(es) \in Seq(Happenings) /\ Story(Front(es), snap)
      BY <3>1, FrontIsStory
    <3>4. feed' \in Feeds /\ feed'.events = Front(es) /\ feed'.snapshot = snap
      BY <1>0, <3>1, <3>2, <3>3 DEF Feeds
    <3> QED
      BY <1>0, <2>2, <3>3, <3>4 DEF FeedCorrect
  <2> QED
    BY <2>3, <2>4
<1>7. CASE FeedFails
  <2>1. PICK read \in feed.reads : feed' = [feed EXCEPT !.reads = @ \ {read}] /\ works' = works
    BY <1>7 DEF FeedFails
  <2>2. feed' \in Feeds /\ feed'.events = feed.events /\ feed'.snapshot = feed.snapshot
    BY <1>0, <1>n, <2>1 DEF Feeds
  <2> QED
    BY <1>0, <2>1, <2>2 DEF FeedCorrect
<1>8. CASE PaperMoves
  <2>1. PICK p \in Papers, status \in FeedStatuses :
          works' = [works EXCEPT ![p] = status] /\ feed' = [feed EXCEPT !.turns = @ + 1]
    BY <1>8 DEF PaperMoves
  <2>2. feed' \in Feeds /\ feed'.events = feed.events /\ feed'.snapshot = feed.snapshot
    BY <1>0, <1>n, <2>1 DEF Feeds
  <2> QED
    BY <1>0, <2>1, <2>2 DEF FeedCorrect
<1> QED
  BY <1>1, <1>2, <1>3, <1>4, <1>5, <1>6, <1>7, <1>8 DEF FeedNext

\* The events that the activity panel keeps are one story per document, in
\* whatever order its reads were answered (ingest-activity-panel.tsx).
THEOREM FeedHolds == FeedSpec => []FeedTellsOneStory
<1>1. FeedSpec => []FeedCorrect
  BY FeedInitHolds, FeedNextHolds, PTL DEF FeedSpec
<1> QED
  BY <1>1, StoryIsTold, PTL

(***************************************************************************)
(* The settings kept as one configuration (SettingsForms).                 *)
(***************************************************************************)
Values == [Fields -> Int]
Patches == UNION {[S -> Int] : S \in SUBSET Fields}
CallOps == {"load", "status", "save", "setup", "caps", "test", "trigger", "arm", "pend", "quick"}
Calls == [op : CallOps, mount : Nat, patch : Patches, stage : {"sent", "done", "failed"}, out : Values,
          since : SUBSET Fields]
Pages == [tab : SettingsTabs, mount : Nat, phase : {"loading", "ready", "error"}, draft : Values, loaded : Values, touched : BOOLEAN,
          key : BOOLEAN, saving : BOOLEAN, testing : BOOLEAN, verdict : BOOLEAN, status : {"unknown", "known"}, busy : BOOLEAN,
          cleaning : BOOLEAN, confirm : BOOLEAN, behind : SUBSET Fields, calls : SUBSET Calls]
Forms == [page : Pages, caps : Int, quick : {"open", "saving", "closed"}, touches : Nat, refusals : Nat]

Writes == {"save", "setup", "caps"}
Cleans == {"arm", "pend"}
\* One write or one test of the tab in front is under way, and one cleanup.
OneAtATime(p) ==
  /\ \A c \in p.calls : c.mount <= p.mount
  /\ \A c, d \in p.calls : (c.mount = p.mount /\ d.mount = p.mount /\ {c.op, d.op} \subseteq Writes \cup {"test"}) => c = d
  /\ \A c, d \in p.calls : {c.op, d.op} \subseteq Cleans => c = d
  /\ p.saving <=> \E c \in p.calls : c.mount = p.mount /\ c.op \in Writes
  /\ p.testing <=> \E c \in p.calls : c.mount = p.mount /\ c.op = "test"
  /\ p.cleaning <=> \E c \in p.calls : c.op \in Cleans
  /\ p.cleaning => p.confirm /\ \A c \in p.calls : c.op \in Cleans => c.mount = p.mount
\* The dialog of the first run waits for its one request.
OneSetup(p, quick) ==
  /\ \A c, d \in p.calls : c.op = "quick" /\ d.op = "quick" => c = d
  /\ quick = "saving" <=> \E c \in p.calls : c.op = "quick"
\* What an answer brings, and what a form nobody touched shows, is what the
\* server holds of the fields that were not written since.
UpToDate(p, values) ==
  /\ \A c \in p.calls : c.stage = "done" => \A f \in Fields \ c.since : c.out[f] = values[f]
  /\ p.phase = "ready" /\ ~p.touched => \A f \in FieldsOf(p.tab) \ p.behind : p.draft[f] = values[f]
FormCorrect ==
  /\ config \in [values : Values, pending : BOOLEAN] /\ form \in Forms
  /\ OneAtATime(form.page) /\ OneSetup(form.page, form.quick) /\ UpToDate(form.page, config.values)

LEMMA FieldsAre ==
  /\ Fields = {"generation", "parser", "retrieval", "clean", "limits"}
  /\ \A t \in SettingsTabs : FieldsOf(t) \subseteq Fields
  /\ FieldsOf("other") = {}
<1>1. /\ FieldsOf("model") = {"generation", "parser"} /\ FieldsOf("knowledge") = {"retrieval"}
      /\ FieldsOf("system") = {"clean", "limits"} /\ FieldsOf("other") = {}
  BY DEF FieldsOf
<1> QED
  BY <1>1 DEF Fields, SettingsTabs

LEMMA FormsAreConsistent == FormCorrect => FormsConsistent
<1> SUFFICES ASSUME FormCorrect
             PROVE  FormsConsistent
  OBVIOUS
<1> DEFINE p == form.page
           own == Own(Writes \cup {"test"})
<1>0. /\ OneAtATime(p) /\ OneSetup(p, form.quick) /\ UpToDate(p, config.values) /\ form.page.saving \in BOOLEAN
      /\ p.calls \subseteq Calls
  BY DEF FormCorrect, Forms, Pages
<1>1. \A c, d \in own : c = d
  BY <1>0 DEF Own, Here, OneAtATime
<1>2. Cardinality(own) <= 1
  <2>1. CASE own = {}
    BY <2>1, FS_EmptySet
  <2>2. CASE own # {}
    <3>1. PICK c \in own : TRUE
      BY <2>2
    <3>2. own = {c}
      BY <1>1, <3>1
    <3> QED
      BY <3>2, FS_Singleton
  <2> QED
    BY <2>1, <2>2
<1>3. Writes \cup {"test"} = {"save", "setup", "test", "caps"} /\ Writes = {"save", "setup", "caps"}
  BY DEF Writes
<1>4. /\ p.saving <=> Own({"save", "setup", "caps"}) # {}
      /\ p.testing <=> Own({"test"}) # {}
      /\ p.cleaning <=> Own({"arm", "pend"}) # {}
      /\ p.cleaning => p.confirm
  BY <1>0, <1>3 DEF Own, Here, OneAtATime, Cleans
<1>5. ~(p.saving /\ p.testing)
  BY <1>0 DEF OneAtATime, Writes
<1>6. Cardinality(Own({"save", "setup", "test", "caps"})) <= 1
  BY <1>2, <1>3
<1>7. form.quick = "saving" <=> \E c \in p.calls : c.op = "quick"
  BY <1>0 DEF OneSetup
<1>8. p.phase = "ready" /\ ~p.touched => \A f \in FieldsOf(p.tab) \ p.behind : p.draft[f] = config.values[f]
  BY <1>0 DEF UpToDate
<1> QED
  BY <1>4, <1>5, <1>6, <1>7, <1>8 DEF FormsConsistent

\* What a tab asks for when it is opened, and a request as it is sent.
LEMMA CallIs ==
  ASSUME NEW op \in CallOps, NEW mount \in Nat, NEW patch \in Patches
  PROVE  /\ Call(op, mount, patch) \in Calls /\ Call(op, mount, patch).op = op
         /\ Call(op, mount, patch).mount = mount /\ Call(op, mount, patch).stage = "sent"
BY DEF Call, Calls, Recommended, Values

LEMMA NobodyIs == Nobody \in Patches
<1>1. Nobody \in [{} -> Int] /\ {} \in SUBSET Fields
  BY DEF Nobody
<1> QED
  BY <1>1 DEF Patches

LEMMA MountIs ==
  ASSUME NEW tab \in SettingsTabs, NEW mount \in Nat, NEW calls \in SUBSET Calls,
         NEW p, p = Mounted(tab, mount, calls)
  PROVE  /\ p \in Pages /\ p.tab = tab /\ p.mount = mount /\ ~p.saving /\ ~p.testing /\ ~p.cleaning /\ ~p.confirm
         /\ ~p.touched /\ p.phase = (IF tab = "other" THEN "ready" ELSE "loading")
         /\ calls \subseteq p.calls
         /\ \A c \in p.calls \ calls : c \in Calls /\ c.mount = mount /\ c.op \in {"load", "status"} /\ c.stage = "sent"
         /\ tab = "other" => p.calls = calls
<1> DEFINE asked == Asks(tab, mount)
<1>1. /\ \A c \in asked : c \in Calls /\ c.mount = mount /\ c.op \in {"load", "status"} /\ c.stage = "sent"
      /\ tab = "other" => asked = {}
  BY CallIs, NobodyIs DEF Asks, CallOps
<1> HIDE DEF asked
<1>2. p = [tab |-> tab, mount |-> mount, phase |-> IF tab = "other" THEN "ready" ELSE "loading", draft |-> Recommended,
   loaded |-> Recommended, touched |-> FALSE, key |-> FALSE, saving |-> FALSE, testing |-> FALSE, verdict |-> FALSE,
   status |-> "unknown", busy |-> FALSE, cleaning |-> FALSE, confirm |-> FALSE, behind |-> {},
   calls |-> calls \cup asked]
  BY DEF Mounted, asked
<1>3. Recommended \in Values /\ calls \cup asked \in SUBSET Calls /\ {} \in SUBSET Fields
  BY <1>1 DEF Recommended, Values
<1>n. (IF tab = "other" THEN "ready" ELSE "loading") \in {"loading", "ready", "error"}
  OBVIOUS
<1>4. p \in Pages
  BY <1>2, <1>3, <1>n DEF Pages
<1> QED
  BY <1>1, <1>2, <1>4

LEMMA FormInitHolds == FormInit => FormCorrect
<1> SUFFICES ASSUME FormInit
             PROVE  FormCorrect
  OBVIOUS
<1>1. PICK quick \in BOOLEAN, t \in SettingsTabs :
        form = [page |-> Mounted(t, 1, {}), caps |-> 0, quick |-> IF quick THEN "open" ELSE "closed",
                touches |-> 0, refusals |-> 0]
  BY DEF FormInit
<1> DEFINE p == Mounted(t, 1, {})
<1>2. /\ p \in Pages /\ p.tab = t /\ p.mount = 1 /\ ~p.saving /\ ~p.testing /\ ~p.cleaning
      /\ ~p.touched /\ p.phase = (IF t = "other" THEN "ready" ELSE "loading")
      /\ \A c \in p.calls : c \in Calls /\ c.mount = 1 /\ c.op \in {"load", "status"} /\ c.stage = "sent"
  BY MountIs
<1> HIDE DEF p
<1>3. form \in Forms /\ form.page = p /\ form.quick \in {"open", "closed"}
  BY <1>1, <1>2 DEF Forms, p
<1>4. config \in [values : Values, pending : BOOLEAN]
  BY DEF FormInit, Recommended, Values
<1>5. OneAtATime(p)
  BY <1>2 DEF OneAtATime, Writes, Cleans
<1>6. OneSetup(p, form.quick)
  BY <1>2, <1>3 DEF OneSetup
<1>7. UpToDate(p, config.values)
  BY <1>2, FieldsAre DEF UpToDate
<1> QED
  BY <1>3, <1>4, <1>5, <1>6, <1>7 DEF FormCorrect

\* A request is answered at the server.
LEMMA ServeHolds == FormCorrect /\ Serve => FormCorrect'
<1> SUFFICES ASSUME FormCorrect, Serve
             PROVE  FormCorrect'
  OBVIOUS
<1> DEFINE p == form.page
           old == config.values
<1>0. /\ form \in Forms /\ p \in Pages /\ old \in Values /\ config.pending \in BOOLEAN
      /\ config \in [values : Values, pending : BOOLEAN] /\ p.calls \subseteq Calls
      /\ OneAtATime(p) /\ OneSetup(p, form.quick) /\ UpToDate(p, old)
  BY DEF FormCorrect, Forms, Pages
<1>1. PICK c \in p.calls : c.stage = "sent" /\
        LET values  == Wrote(c, old)
            changed == {f \in Fields : values[f] # old[f]}
            others  == {[d EXCEPT !.since = IF d.stage = "done" THEN @ \cup changed ELSE @] : d \in p.calls \ {c}}
        IN  /\ config' = [values |-> values, pending |-> config.pending \/ c.op \in {"trigger", "pend"}]
            /\ form' = [form EXCEPT !.page.calls = others \cup {[c EXCEPT !.stage = "done", !.out = values]},
                                    !.page.behind = @ \cup changed]
  BY DEF Serve
<1> DEFINE values  == Wrote(c, old)
           changed == {f \in Fields : values[f] # old[f]}
           Aged(d) == [d EXCEPT !.since = IF d.stage = "done" THEN @ \cup changed ELSE @]
           answer  == [c EXCEPT !.stage = "done", !.out = values]
           calls   == {Aged(d) : d \in p.calls \ {c}} \cup {answer}
           behind  == p.behind \cup changed
           q       == [p EXCEPT !.calls = calls, !.behind = behind]
<1>2. values \in Values
  <2>1. c \in Calls /\ c.patch \in Patches
    BY <1>0 DEF Calls
  <2>2. Overlay(old, c.patch) \in Values
    BY <1>0, <2>1 DEF Overlay, Values, Patches
  <2> QED
    BY <1>0, <2>2, FieldsAre DEF Wrote, Values
<1>3. config' = [values |-> values, pending |-> config.pending \/ c.op \in {"trigger", "pend"}]
  BY <1>1
<1>4. form' = [form EXCEPT !.page = q]
  <2>1. form' = [form EXCEPT !.page.calls = calls, !.page.behind = @ \cup changed]
    BY <1>1
  <2> QED
    BY <1>0, <2>1 DEF Forms, Pages
<1> HIDE DEF values
<1>5. changed \in SUBSET Fields /\ \A f \in Fields \ changed : values[f] = old[f]
  OBVIOUS
<1> HIDE DEF changed
<1>6. \A d \in Calls : /\ Aged(d) \in Calls /\ Aged(d).op = d.op /\ Aged(d).mount = d.mount /\ Aged(d).stage = d.stage
                       /\ Aged(d).out = d.out /\ Aged(d).since = (IF d.stage = "done" THEN d.since \cup changed ELSE d.since)
  <2> SUFFICES ASSUME NEW d \in Calls
               PROVE  /\ Aged(d) \in Calls /\ Aged(d).op = d.op /\ Aged(d).mount = d.mount /\ Aged(d).stage = d.stage
                      /\ Aged(d).out = d.out /\ Aged(d).since = (IF d.stage = "done" THEN d.since \cup changed ELSE d.since)
    OBVIOUS
  <2>1. PICK since \in SUBSET Fields : since = IF d.stage = "done" THEN d.since \cup changed ELSE d.since
    BY <1>5 DEF Calls
  <2>2. Aged(d) = [d EXCEPT !.since = since]
    BY <2>1 DEF Calls
  <2> QED
    BY <2>1, <2>2 DEF Calls
<1> HIDE DEF Aged
<1>7. answer \in Calls /\ answer.op = c.op /\ answer.mount = c.mount /\ answer.stage = "done" /\ answer.out = values
  BY <1>0, <1>1, <1>2 DEF Calls
<1> HIDE DEF answer
<1>8. calls \in SUBSET Calls
  BY <1>0, <1>6, <1>7
<1>9. \A e \in calls : \E d \in p.calls : /\ e.op = d.op /\ e.mount = d.mount
                                          /\ e = (IF d = c THEN answer ELSE Aged(d))
  <2> SUFFICES ASSUME NEW e \in calls
               PROVE  \E d \in p.calls : /\ e.op = d.op /\ e.mount = d.mount
                                        /\ e = (IF d = c THEN answer ELSE Aged(d))
    OBVIOUS
  <2>1. CASE e = answer
    BY <1>7, <2>1
  <2>2. CASE e # answer
    <3>1. PICK d \in p.calls \ {c} : e = Aged(d)
      BY <2>2
    <3> QED
      BY <1>0, <1>6, <3>1
  <2> QED
    BY <2>1, <2>2
<1>10. \A d \in p.calls : \E e \in calls : e.op = d.op /\ e.mount = d.mount
  <2> SUFFICES ASSUME NEW d \in p.calls
               PROVE  \E e \in calls : e.op = d.op /\ e.mount = d.mount
    OBVIOUS
  <2>1. CASE d = c
    BY <1>7, <2>1
  <2>2. CASE d # c
    <3>1. Aged(d) \in calls
      BY <2>2
    <3> QED
      BY <1>0, <1>6, <3>1
  <2> QED
    BY <2>1, <2>2
<1> HIDE DEF calls
<1>11. /\ q \in Pages /\ q.calls = calls /\ q.behind = behind /\ q.tab = p.tab /\ q.mount = p.mount
       /\ q.phase = p.phase /\ q.draft = p.draft /\ q.touched = p.touched /\ q.saving = p.saving
       /\ q.testing = p.testing /\ q.cleaning = p.cleaning /\ q.confirm = p.confirm
  BY <1>0, <1>5, <1>8 DEF Pages
<1> HIDE DEF q, behind
<1>12. form' \in Forms /\ form'.page = q /\ form'.quick = form.quick
  BY <1>0, <1>4, <1>11 DEF Forms
<1>13. config' \in [values : Values, pending : BOOLEAN] /\ config'.values = values
  BY <1>0, <1>2, <1>3
<1>14. OneAtATime(q)
  BY <1>0, <1>9, <1>10, <1>11 DEF OneAtATime
<1>15. OneSetup(q, form.quick)
  BY <1>0, <1>9, <1>10, <1>11 DEF OneSetup
<1>16. UpToDate(q, values)
  <2>1. ASSUME NEW e \in calls, e.stage = "done", NEW f \in Fields \ e.since
        PROVE  e.out[f] = values[f]
    <3>1. PICK d \in p.calls : e = (IF d = c THEN answer ELSE Aged(d))
      BY <1>9
    <3>2. CASE d = c
      BY <1>7, <3>1, <3>2
    <3>3. CASE d # c
      <4>1. d.stage = "done" /\ e.out = d.out /\ e.since = d.since \cup changed
        BY <1>0, <1>6, <2>1, <3>1, <3>3
      <4> QED
        BY <1>0, <1>5, <2>1, <4>1 DEF UpToDate
    <3> QED
      BY <3>2, <3>3
  <2>2. q.phase = "ready" /\ ~q.touched => \A f \in FieldsOf(q.tab) \ q.behind : q.draft[f] = values[f]
    <3>1. FieldsOf(p.tab) \subseteq Fields
      BY <1>0, FieldsAre DEF Pages
    <3> QED
      BY <1>0, <1>5, <1>11, <3>1 DEF UpToDate, behind
  <2> QED
    BY <1>11, <2>1, <2>2 DEF UpToDate
<1> QED
  BY <1>12, <1>13, <1>14, <1>15, <1>16 DEF FormCorrect

\* A page that goes on with what its page before held, or with what a fresh answer brought.
LEMMA StaysUpToDate ==
  ASSUME NEW p \in Pages, NEW values, UpToDate(p, values), NEW q \in Pages,
         \A e \in q.calls : e.stage = "done" => e \in p.calls,
         q.phase = "ready" /\ ~q.touched =>
           \/ p.phase = "ready" /\ ~p.touched /\ q.tab = p.tab /\ q.behind = p.behind /\ q.draft = p.draft
           \/ FieldsOf(q.tab) = {}
           \/ \E c \in p.calls : /\ c.stage = "done" /\ q.behind = c.since
                                 /\ \A f \in FieldsOf(q.tab) : q.draft[f] = c.out[f]
  PROVE  UpToDate(q, values)
<1>1. FieldsOf(q.tab) \subseteq Fields
  BY FieldsAre DEF Pages
<1>2. \A e \in q.calls : e.stage = "done" => \A f \in Fields \ e.since : e.out[f] = values[f]
  BY DEF UpToDate
<1>3. q.phase = "ready" /\ ~q.touched => \A f \in FieldsOf(q.tab) \ q.behind : q.draft[f] = values[f]
  BY <1>1 DEF UpToDate
<1> QED
  BY <1>2, <1>3 DEF UpToDate

LEMMA FilledIs ==
  ASSUME NEW p \in Pages, NEW c \in Calls, NEW q, q = Filled(p, c)
  PROVE  /\ q \in Pages /\ q.tab = p.tab /\ q.mount = p.mount /\ q.calls = p.calls /\ q.saving = p.saving
         /\ q.testing = p.testing /\ q.cleaning = p.cleaning /\ q.confirm = p.confirm
         /\ q.behind = c.since /\ \A f \in FieldsOf(p.tab) : q.draft[f] = c.out[f]
<1> DEFINE draft == Overlay(p.draft, Part(c.out, FieldsOf(p.tab)))
<1>1. FieldsOf(p.tab) \subseteq Fields
  BY FieldsAre DEF Pages
<1>2. draft \in Values /\ \A f \in FieldsOf(p.tab) : draft[f] = c.out[f]
  BY <1>1 DEF Overlay, Part, Values, Pages, Calls
<1> HIDE DEF draft
<1>3. q = [p EXCEPT !.draft = draft, !.loaded = c.out, !.touched = FALSE, !.key = FALSE, !.phase = "ready",
                    !.behind = c.since]
  BY DEF Filled, draft, Pages
<1>4. c.out \in Values /\ c.since \in SUBSET Fields
  BY DEF Calls
<1>5. /\ q \in Pages /\ q.tab = p.tab /\ q.mount = p.mount /\ q.calls = p.calls /\ q.saving = p.saving
      /\ q.testing = p.testing /\ q.cleaning = p.cleaning /\ q.confirm = p.confirm
      /\ q.behind = c.since /\ q.draft = draft
  BY <1>2, <1>3, <1>4 DEF Pages
<1> QED
  BY <1>2, <1>5

LEMMA RefuseHolds == FormCorrect /\ Refuse => FormCorrect'
<1> SUFFICES ASSUME FormCorrect, Refuse
             PROVE  FormCorrect'
  OBVIOUS
<1> DEFINE p == form.page
<1>0. /\ form \in Forms /\ p \in Pages /\ p.calls \subseteq Calls
      /\ OneAtATime(p) /\ OneSetup(p, form.quick) /\ UpToDate(p, config.values)
  BY DEF FormCorrect, Forms, Pages
<1>1. PICK c \in p.calls : /\ c.stage \in {"sent", "done"} /\ config' = config
        /\ form' = [form EXCEPT !.page.calls = (@ \ {c}) \cup {[c EXCEPT !.stage = "failed"]}, !.refusals = @ + 1]
  BY DEF Refuse
<1> DEFINE d == [c EXCEPT !.stage = "failed"]
           calls == (p.calls \ {c}) \cup {d}
           q == [p EXCEPT !.calls = calls]
<1>2. d \in Calls /\ d.op = c.op /\ d.mount = c.mount /\ d.stage = "failed"
  BY <1>0 DEF Calls
<1>3. form' = [form EXCEPT !.page = q, !.refusals = @ + 1]
  BY <1>0, <1>1 DEF Forms, Pages
<1> HIDE DEF d
<1>4. calls \in SUBSET Calls /\ form.refusals + 1 \in Nat
  BY <1>0, <1>2 DEF Forms
<1>5. /\ q \in Pages /\ q.calls = calls /\ q.behind = p.behind /\ q.tab = p.tab /\ q.mount = p.mount
      /\ q.phase = p.phase /\ q.draft = p.draft /\ q.touched = p.touched /\ q.saving = p.saving
      /\ q.testing = p.testing /\ q.cleaning = p.cleaning /\ q.confirm = p.confirm
  BY <1>0, <1>4 DEF Pages
<1> HIDE DEF q
<1>6. form' \in Forms /\ form'.page = q /\ form'.quick = form.quick
  BY <1>0, <1>3, <1>4, <1>5 DEF Forms
<1>7. OneAtATime(q)
  BY <1>0, <1>1, <1>2, <1>5 DEF OneAtATime
<1>8. OneSetup(q, form.quick)
  BY <1>0, <1>1, <1>2, <1>5 DEF OneSetup
<1>9. UpToDate(q, config.values)
  BY <1>0, <1>2, <1>5, StaysUpToDate
<1> QED
  BY <1>1, <1>6, <1>7, <1>8, <1>9 DEF FormCorrect

LEMMA LoadEndsHolds == FormCorrect /\ LoadEnds => FormCorrect'
<1> SUFFICES ASSUME FormCorrect, LoadEnds
             PROVE  FormCorrect'
  OBVIOUS
<1> DEFINE p == form.page
<1>0. /\ form \in Forms /\ p \in Pages /\ p.calls \subseteq Calls
      /\ OneAtATime(p) /\ OneSetup(p, form.quick) /\ UpToDate(p, config.values)
  BY DEF FormCorrect, Forms, Pages
<1>1. PICK c \in p.calls : /\ c.op = "load" /\ c.stage \in {"done", "failed"} /\ config' = config
        /\ form' = [form EXCEPT !.page = IF ~Here(Over(p, c), c) THEN Over(p, c)
                                         ELSE IF c.stage = "failed" THEN [Over(p, c) EXCEPT !.phase = "error"]
                                         ELSE Filled(Over(p, c), c)]
  BY DEF LoadEnds
<1> DEFINE r == Over(p, c)
<1>2. /\ r \in Pages /\ r.calls = p.calls \ {c} /\ r.behind = p.behind /\ r.tab = p.tab /\ r.mount = p.mount
      /\ r.phase = p.phase /\ r.draft = p.draft /\ r.touched = p.touched /\ r.saving = p.saving
      /\ r.testing = p.testing /\ r.cleaning = p.cleaning /\ r.confirm = p.confirm
  BY <1>0 DEF Pages, Over
<1> HIDE DEF r
<1>3. PICK q \in Pages : /\ form' = [form EXCEPT !.page = q] /\ q.calls = r.calls /\ q.mount = r.mount /\ q.tab = r.tab
                         /\ q.saving = r.saving /\ q.testing = r.testing /\ q.cleaning = r.cleaning
                         /\ q.confirm = r.confirm
                         /\ \/ q.phase = "error" \/ q = r
                            \/ /\ c.stage = "done" /\ q.behind = c.since
                               /\ \A f \in FieldsOf(q.tab) : q.draft[f] = c.out[f]
  <2>1. CASE ~Here(r, c)
    BY <1>1, <1>2, <2>1 DEF r
  <2>2. CASE Here(r, c) /\ c.stage = "failed"
    <3> DEFINE q == [r EXCEPT !.phase = "error"]
    <3>1. form' = [form EXCEPT !.page = q]
      BY <1>1, <2>2 DEF r
    <3>2. /\ q \in Pages /\ q.calls = r.calls /\ q.mount = r.mount /\ q.tab = r.tab
          /\ q.saving = r.saving /\ q.testing = r.testing /\ q.cleaning = r.cleaning
          /\ q.confirm = r.confirm /\ q.phase = "error"
      BY <1>2 DEF Pages
    <3> QED
      BY <3>1, <3>2
  <2>3. CASE Here(r, c) /\ c.stage = "done"
    <3> DEFINE q == Filled(r, c)
    <3>1. form' = [form EXCEPT !.page = q]
      BY <1>1, <2>3 DEF r
    <3>2. /\ q \in Pages /\ q.calls = r.calls /\ q.mount = r.mount /\ q.tab = r.tab
          /\ q.saving = r.saving /\ q.testing = r.testing /\ q.cleaning = r.cleaning
          /\ q.confirm = r.confirm /\ q.behind = c.since /\ \A f \in FieldsOf(q.tab) : q.draft[f] = c.out[f]
      BY <1>0, <1>2, FilledIs
    <3> QED
      BY <2>3, <3>1, <3>2
  <2> QED
    BY <1>1, <2>1, <2>2, <2>3
<1>4. form' \in Forms /\ form'.page = q /\ form'.quick = form.quick
  BY <1>0, <1>3 DEF Forms
<1>5. OneAtATime(q)
  BY <1>0, <1>1, <1>2, <1>3 DEF OneAtATime, Writes, Cleans
<1>6. OneSetup(q, form.quick)
  BY <1>0, <1>1, <1>2, <1>3 DEF OneSetup
<1>7. UpToDate(q, config.values)
  BY <1>0, <1>1, <1>2, <1>3, StaysUpToDate
<1> QED
  BY <1>1, <1>4, <1>5, <1>6, <1>7 DEF FormCorrect

\* What of a page its buttons tell, and what it shows.
SameFlags(q, p) ==
  /\ q.mount = p.mount /\ q.saving = p.saving /\ q.testing = p.testing /\ q.cleaning = p.cleaning
  /\ q.confirm = p.confirm
SameShow(q, p) ==
  q.tab = p.tab /\ q.phase = p.phase /\ q.draft = p.draft /\ q.touched = p.touched /\ q.behind = p.behind

LEMMA OverIs ==
  ASSUME NEW p \in Pages, NEW c, NEW q, q = Over(p, c)
  PROVE  q \in Pages /\ q.calls = p.calls \ {c} /\ SameFlags(q, p) /\ SameShow(q, p)
BY DEF Over, Pages, SameFlags, SameShow

LEMMA SentIs ==
  ASSUME NEW p \in Pages, NEW op \in CallOps, NEW mount \in Nat, NEW patch \in Patches,
         NEW q, q = [p EXCEPT !.calls = @ \cup {Call(op, mount, patch)}]
  PROVE  /\ q \in Pages /\ q.calls = p.calls \cup {Call(op, mount, patch)} /\ SameFlags(q, p) /\ SameShow(q, p)
         /\ Call(op, mount, patch).op = op /\ Call(op, mount, patch).mount = mount
         /\ Call(op, mount, patch).stage = "sent"
<1>1. /\ Call(op, mount, patch) \in Calls /\ Call(op, mount, patch).op = op
      /\ Call(op, mount, patch).mount = mount /\ Call(op, mount, patch).stage = "sent"
  BY CallIs
<1> QED
  BY <1>1 DEF Pages, SameFlags, SameShow

LEMMA WriteEndsHolds == FormCorrect /\ WriteEnds => FormCorrect'
<1> SUFFICES ASSUME FormCorrect, WriteEnds
             PROVE  FormCorrect'
  OBVIOUS
<1> DEFINE p == form.page
<1>0. /\ form \in Forms /\ p \in Pages /\ p.calls \subseteq Calls
      /\ OneAtATime(p) /\ OneSetup(p, form.quick) /\ UpToDate(p, config.values)
  BY DEF FormCorrect, Forms, Pages
<1>1. PICK c \in p.calls : /\ c.op \in {"save", "setup"} /\ c.stage \in {"done", "failed"} /\ config' = config
        /\ form' = [form EXCEPT !.page =
             IF c.stage = "failed" THEN [Over(p, c) EXCEPT !.saving = IF Here(Over(p, c), c) THEN FALSE ELSE @]
             ELSE [Refilled(Over(p, c), c) EXCEPT !.calls = @ \cup {Call("caps", c.mount, Nobody)}]]
  BY DEF WriteEnds
<1> DEFINE r == Over(p, c)
<1>2. r \in Pages /\ r.calls = p.calls \ {c} /\ SameFlags(r, p) /\ SameShow(r, p)
  BY <1>0, OverIs
<1>3. c \in Calls /\ c.mount \in Nat /\ c.mount <= p.mount
  BY <1>0 DEF Calls, OneAtATime
<1> HIDE DEF r
<1>4. CASE c.stage = "failed"
  <2>1. PICK b \in BOOLEAN : b = IF Here(r, c) THEN FALSE ELSE r.saving
    BY <1>2 DEF Pages
  <2> DEFINE q == [r EXCEPT !.saving = b]
  <2>2. form' = [form EXCEPT !.page = q]
    BY <1>1, <1>4, <2>1 DEF r
  <2>3. /\ q \in Pages /\ q.calls = r.calls /\ SameShow(q, r) /\ q.saving = b /\ q.mount = r.mount
        /\ q.testing = r.testing /\ q.cleaning = r.cleaning /\ q.confirm = r.confirm
    BY <1>2, <2>1 DEF Pages, SameShow
  <2> HIDE DEF q
  <2>4. form' \in Forms /\ form'.page = q /\ form'.quick = form.quick
    BY <1>0, <2>2, <2>3 DEF Forms
  <2>5. OneAtATime(q)
    BY <1>0, <1>1, <1>2, <2>1, <2>3 DEF OneAtATime, Writes, Cleans, SameFlags, Here
  <2>6. OneSetup(q, form.quick)
    BY <1>0, <1>1, <1>2, <2>3 DEF OneSetup
  <2>7. UpToDate(q, config.values)
    BY <1>0, <1>2, <2>3, StaysUpToDate DEF SameShow
  <2> QED
    BY <1>1, <2>4, <2>5, <2>6, <2>7 DEF FormCorrect
<1>5. CASE c.stage = "done"
  <2>1. PICK s \in Pages : /\ s = Refilled(r, c) /\ s.calls = r.calls /\ SameFlags(s, r) /\ s.tab = r.tab
          /\ \/ s = r
             \/ c.stage = "done" /\ s.behind = c.since /\ \A f \in FieldsOf(s.tab) : s.draft[f] = c.out[f]
    <3>1. CASE Here(r, c)
      <4>1. PICK s \in Pages : /\ s = Filled(r, c) /\ s.calls = r.calls /\ SameFlags(s, r) /\ s.tab = r.tab
                               /\ s.behind = c.since /\ \A f \in FieldsOf(s.tab) : s.draft[f] = c.out[f]
        BY <1>2, <1>3, FilledIs DEF SameFlags
      <4> QED
        BY <1>5, <3>1, <4>1 DEF Refilled
    <3>2. CASE ~Here(r, c)
      BY <1>2, <3>2 DEF Refilled, SameFlags
    <3> QED
      BY <3>1, <3>2
  <2> DEFINE d == Call("caps", c.mount, Nobody)
             q == [s EXCEPT !.calls = @ \cup {d}]
  <2>2. form' = [form EXCEPT !.page = q]
    BY <1>1, <1>5, <2>1 DEF r
  <2>3. /\ q \in Pages /\ q.calls = s.calls \cup {d} /\ SameFlags(q, s) /\ SameShow(q, s)
        /\ d.op = "caps" /\ d.mount = c.mount /\ d.stage = "sent"
    BY <1>3, <2>1, SentIs, NobodyIs DEF CallOps
  <2> HIDE DEF q, d
  <2>4. form' \in Forms /\ form'.page = q /\ form'.quick = form.quick
    BY <1>0, <2>2, <2>3 DEF Forms
  <2>5. OneAtATime(q)
    BY <1>0, <1>1, <1>2, <1>3, <2>1, <2>3 DEF OneAtATime, Writes, Cleans, SameFlags
  <2>6. OneSetup(q, form.quick)
    BY <1>0, <1>1, <1>2, <2>1, <2>3 DEF OneSetup
  <2>7. UpToDate(q, config.values)
    BY <1>0, <1>2, <2>1, <2>3, StaysUpToDate DEF SameShow
  <2> QED
    BY <1>1, <2>4, <2>5, <2>6, <2>7 DEF FormCorrect
<1> QED
  BY <1>1, <1>4, <1>5

LEMMA CapsEndHolds == FormCorrect /\ CapsEnd => FormCorrect'
<1> SUFFICES ASSUME FormCorrect, CapsEnd
             PROVE  FormCorrect'
  OBVIOUS
<1> DEFINE p == form.page
<1>0. /\ form \in Forms /\ p \in Pages /\ p.calls \subseteq Calls
      /\ OneAtATime(p) /\ OneSetup(p, form.quick) /\ UpToDate(p, config.values)
  BY DEF FormCorrect, Forms, Pages
<1>1. PICK c \in p.calls : /\ c.op = "caps" /\ config' = config
        /\ form' = [form EXCEPT !.page = [Over(p, c) EXCEPT !.saving = IF Here(Over(p, c), c) THEN FALSE ELSE @],
                                !.caps = IF c.stage = "done" THEN c.out["generation"] ELSE @]
  BY DEF CapsEnd
<1> DEFINE r == Over(p, c)
<1>2. r \in Pages /\ r.calls = p.calls \ {c} /\ SameFlags(r, p) /\ SameShow(r, p)
  BY <1>0, OverIs
<1>3. c \in Calls /\ c.mount \in Nat /\ c.mount <= p.mount
  BY <1>0 DEF Calls, OneAtATime
<1> HIDE DEF r
<1>4. PICK b \in BOOLEAN : b = IF Here(r, c) THEN FALSE ELSE r.saving
  BY <1>2 DEF Pages
<1>5. PICK caps \in Int : caps = IF c.stage = "done" THEN c.out["generation"] ELSE form.caps
  BY <1>0, <1>3, FieldsAre DEF Forms, Calls, Values
<1> DEFINE q == [r EXCEPT !.saving = b]
<1>6. form' = [form EXCEPT !.page = q, !.caps = caps]
  BY <1>0, <1>1, <1>4, <1>5 DEF r, Forms
<1>7. /\ q \in Pages /\ q.calls = r.calls /\ SameShow(q, r) /\ q.saving = b /\ q.mount = r.mount
      /\ q.testing = r.testing /\ q.cleaning = r.cleaning /\ q.confirm = r.confirm
  BY <1>2, <1>4 DEF Pages, SameShow
<1> HIDE DEF q
<1>8. form' \in Forms /\ form'.page = q /\ form'.quick = form.quick
  BY <1>0, <1>6, <1>7 DEF Forms
<1>9. OneAtATime(q)
  BY <1>0, <1>1, <1>2, <1>4, <1>7 DEF OneAtATime, Writes, Cleans, SameFlags, Here
<1>10. OneSetup(q, form.quick)
  BY <1>0, <1>1, <1>2, <1>7 DEF OneSetup
<1>11. UpToDate(q, config.values)
  BY <1>0, <1>2, <1>7, StaysUpToDate DEF SameShow
<1> QED
  BY <1>1, <1>8, <1>9, <1>10, <1>11 DEF FormCorrect

LEMMA TestEndsHolds == FormCorrect /\ TestEnds => FormCorrect'
<1> SUFFICES ASSUME FormCorrect, TestEnds
             PROVE  FormCorrect'
  OBVIOUS
<1> DEFINE p == form.page
<1>0. /\ form \in Forms /\ p \in Pages /\ p.calls \subseteq Calls
      /\ OneAtATime(p) /\ OneSetup(p, form.quick) /\ UpToDate(p, config.values)
  BY DEF FormCorrect, Forms, Pages
<1>1. PICK c \in p.calls : /\ c.op = "test" /\ config' = config
        /\ form' = [form EXCEPT !.page = IF Here(Over(p, c), c) THEN [Over(p, c) EXCEPT !.testing = FALSE, !.verdict = TRUE]
                                         ELSE Over(p, c)]
  BY DEF TestEnds
<1> DEFINE r == Over(p, c)
<1>2. r \in Pages /\ r.calls = p.calls \ {c} /\ SameFlags(r, p) /\ SameShow(r, p)
  BY <1>0, OverIs
<1>3. c \in Calls /\ c.mount \in Nat /\ c.mount <= p.mount
  BY <1>0 DEF Calls, OneAtATime
<1> HIDE DEF r
<1>7. PICK q \in Pages : /\ form' = [form EXCEPT !.page = q] /\ q.calls = r.calls /\ SameShow(q, r) /\ q.saving = r.saving
        /\ q.mount = r.mount /\ q.cleaning = r.cleaning /\ q.confirm = r.confirm
        /\ q.testing = IF Here(r, c) THEN FALSE ELSE r.testing
  <2>1. CASE Here(r, c)
    <3> DEFINE q == [r EXCEPT !.testing = FALSE, !.verdict = TRUE]
    <3>1. /\ q \in Pages /\ q.calls = r.calls /\ SameShow(q, r) /\ q.saving = r.saving
          /\ q.mount = r.mount /\ q.cleaning = r.cleaning /\ q.confirm = r.confirm /\ q.testing = FALSE
      BY <1>2 DEF Pages, SameShow
    <3>2. form' = [form EXCEPT !.page = q]
      BY <1>1, <2>1 DEF r
    <3> QED
      BY <2>1, <3>1, <3>2
  <2>2. CASE ~Here(r, c)
    BY <1>1, <1>2, <2>2 DEF r, SameShow
  <2> QED
    BY <2>1, <2>2
<1>8. form' \in Forms /\ form'.page = q /\ form'.quick = form.quick
  BY <1>0, <1>7 DEF Forms
<1>9. OneAtATime(q)
  BY <1>0, <1>1, <1>2, <1>3, <1>7 DEF OneAtATime, Writes, Cleans, SameFlags, Here
<1>10. OneSetup(q, form.quick)
  BY <1>0, <1>1, <1>2, <1>7 DEF OneSetup
<1>11. UpToDate(q, config.values)
  BY <1>0, <1>2, <1>7, StaysUpToDate DEF SameShow
<1> QED
  BY <1>1, <1>8, <1>9, <1>10, <1>11 DEF FormCorrect

LEMMA StatusEndsHolds == FormCorrect /\ StatusEnds => FormCorrect'
<1> SUFFICES ASSUME FormCorrect, StatusEnds
             PROVE  FormCorrect'
  OBVIOUS
<1> DEFINE p == form.page
<1>0. /\ form \in Forms /\ p \in Pages /\ p.calls \subseteq Calls
      /\ OneAtATime(p) /\ OneSetup(p, form.quick) /\ UpToDate(p, config.values)
  BY DEF FormCorrect, Forms, Pages
<1>1. PICK c \in p.calls : /\ c.op = "status" /\ config' = config
        /\ form' = [form EXCEPT !.page = IF ~Here(Over(p, c), c) THEN Over(p, c)
                                         ELSE [Over(p, c) EXCEPT !.status = IF c.stage = "done" THEN "known" ELSE "unknown",
                                                                 !.busy = FALSE]]
  BY DEF StatusEnds
<1> DEFINE r == Over(p, c)
<1>2. r \in Pages /\ r.calls = p.calls \ {c} /\ SameFlags(r, p) /\ SameShow(r, p)
  BY <1>0, OverIs
<1>3. c \in Calls /\ c.mount \in Nat /\ c.mount <= p.mount
  BY <1>0 DEF Calls, OneAtATime
<1> HIDE DEF r
<1>7. PICK q \in Pages : form' = [form EXCEPT !.page = q] /\ q.calls = r.calls /\ SameShow(q, r) /\ SameFlags(q, r)
  <2>1. CASE Here(r, c)
    <3>1. PICK status \in {"known", "unknown"} : status = IF c.stage = "done" THEN "known" ELSE "unknown"
      OBVIOUS
    <3> DEFINE q == [r EXCEPT !.status = status, !.busy = FALSE]
    <3>2. q \in Pages /\ q.calls = r.calls /\ SameShow(q, r) /\ SameFlags(q, r)
      BY <1>2 DEF Pages, SameShow, SameFlags
    <3>3. form' = [form EXCEPT !.page = q]
      BY <1>1, <2>1, <3>1 DEF r
    <3> QED
      BY <3>2, <3>3
  <2>2. CASE ~Here(r, c)
    BY <1>1, <1>2, <2>2 DEF r, SameShow, SameFlags
  <2> QED
    BY <2>1, <2>2
<1>8. form' \in Forms /\ form'.page = q /\ form'.quick = form.quick
  BY <1>0, <1>7 DEF Forms
<1>9. OneAtATime(q)
  BY <1>0, <1>1, <1>2, <1>3, <1>7 DEF OneAtATime, Writes, Cleans, SameFlags, Here
<1>10. OneSetup(q, form.quick)
  BY <1>0, <1>1, <1>2, <1>7 DEF OneSetup
<1>11. UpToDate(q, config.values)
  BY <1>0, <1>2, <1>7, StaysUpToDate DEF SameShow
<1> QED
  BY <1>1, <1>8, <1>9, <1>10, <1>11 DEF FormCorrect

LEMMA TriggerEndsHolds == FormCorrect /\ TriggerEnds => FormCorrect'
<1> SUFFICES ASSUME FormCorrect, TriggerEnds
             PROVE  FormCorrect'
  OBVIOUS
<1> DEFINE p == form.page
<1>0. /\ form \in Forms /\ p \in Pages /\ p.calls \subseteq Calls
      /\ OneAtATime(p) /\ OneSetup(p, form.quick) /\ UpToDate(p, config.values)
  BY DEF FormCorrect, Forms, Pages
<1>1. PICK c \in p.calls : /\ c.op = "trigger" /\ c.stage \in {"done", "failed"} /\ config' = config
        /\ form' = [form EXCEPT !.page =
             IF c.stage = "failed" THEN [Over(p, c) EXCEPT !.busy = IF Here(Over(p, c), c) THEN FALSE ELSE @]
             ELSE [Over(p, c) EXCEPT !.calls = @ \cup {Call("status", c.mount, Nobody)}]]
  BY DEF TriggerEnds
<1> DEFINE r == Over(p, c)
<1>2. r \in Pages /\ r.calls = p.calls \ {c} /\ SameFlags(r, p) /\ SameShow(r, p)
  BY <1>0, OverIs
<1>3. c \in Calls /\ c.mount \in Nat /\ c.mount <= p.mount
  BY <1>0 DEF Calls, OneAtATime
<1> HIDE DEF r
<1>7. PICK q \in Pages : /\ form' = [form EXCEPT !.page = q] /\ SameShow(q, r) /\ SameFlags(q, r) /\ r.calls \subseteq q.calls
        /\ \A e \in q.calls \ r.calls : e.op = "status" /\ e.mount = c.mount /\ e.stage = "sent"
  <2>1. CASE c.stage = "failed"
    <3>1. PICK b \in BOOLEAN : b = IF Here(r, c) THEN FALSE ELSE r.busy
      BY <1>2 DEF Pages
    <3> DEFINE q == [r EXCEPT !.busy = b]
    <3>2. q \in Pages /\ q.calls = r.calls /\ SameShow(q, r) /\ SameFlags(q, r)
      BY <1>2, <3>1 DEF Pages, SameShow, SameFlags
    <3>3. form' = [form EXCEPT !.page = q]
      BY <1>1, <2>1, <3>1 DEF r
    <3> QED
      BY <3>2, <3>3
  <2>2. CASE c.stage = "done"
    <3> DEFINE d == Call("status", c.mount, Nobody)
               q == [r EXCEPT !.calls = @ \cup {d}]
    <3>1. /\ q \in Pages /\ q.calls = r.calls \cup {d} /\ SameShow(q, r) /\ SameFlags(q, r)
          /\ d.op = "status" /\ d.mount = c.mount /\ d.stage = "sent"
      BY <1>2, <1>3, SentIs, NobodyIs DEF CallOps
    <3>2. form' = [form EXCEPT !.page = q]
      BY <1>1, <2>2 DEF r
    <3> HIDE DEF q, d
    <3> QED
      BY <3>1, <3>2
  <2> QED
    BY <1>1, <2>1, <2>2
<1>8. form' \in Forms /\ form'.page = q /\ form'.quick = form.quick
  BY <1>0, <1>7 DEF Forms
<1>9. OneAtATime(q)
  BY <1>0, <1>1, <1>2, <1>3, <1>7 DEF OneAtATime, Writes, Cleans, SameFlags, Here
<1>10. OneSetup(q, form.quick)
  BY <1>0, <1>1, <1>2, <1>7 DEF OneSetup
<1>11. UpToDate(q, config.values)
  BY <1>0, <1>2, <1>7, StaysUpToDate DEF SameShow
<1> QED
  BY <1>1, <1>8, <1>9, <1>10, <1>11 DEF FormCorrect

LEMMA ArmEndsHolds == FormCorrect /\ ArmEnds => FormCorrect'
<1> SUFFICES ASSUME FormCorrect, ArmEnds
             PROVE  FormCorrect'
  OBVIOUS
<1> DEFINE p == form.page
<1>0. /\ form \in Forms /\ p \in Pages /\ p.calls \subseteq Calls
      /\ OneAtATime(p) /\ OneSetup(p, form.quick) /\ UpToDate(p, config.values)
  BY DEF FormCorrect, Forms, Pages
<1>1. PICK c \in p.calls : /\ c.op = "arm" /\ c.stage \in {"done", "failed"} /\ config' = config
        /\ form' = [form EXCEPT !.page =
             IF c.stage = "failed" THEN [Over(p, c) EXCEPT !.cleaning = FALSE]
             ELSE [Over(p, c) EXCEPT !.calls = @ \cup {Call("pend", c.mount, Nobody)}]]
  BY DEF ArmEnds
<1> DEFINE r == Over(p, c)
<1>2. r \in Pages /\ r.calls = p.calls \ {c} /\ SameFlags(r, p) /\ SameShow(r, p)
  BY <1>0, OverIs
<1>3. c \in Calls /\ c.mount \in Nat /\ c.mount <= p.mount
  BY <1>0 DEF Calls, OneAtATime
<1> HIDE DEF r
<1>4. p.cleaning /\ p.confirm /\ c.mount = p.mount /\ \A e \in r.calls : e.op \notin Cleans
  BY <1>0, <1>1, <1>2 DEF OneAtATime, Cleans
<1>5. CASE c.stage = "failed"
  <2> DEFINE q == [r EXCEPT !.cleaning = FALSE]
  <2>1. form' = [form EXCEPT !.page = q]
    BY <1>1, <1>5 DEF r
  <2>2. /\ q \in Pages /\ q.calls = r.calls /\ SameShow(q, r) /\ q.saving = r.saving /\ q.testing = r.testing
        /\ q.mount = r.mount /\ q.cleaning = FALSE
    BY <1>2 DEF Pages, SameShow
  <2> HIDE DEF q
  <2>3. form' \in Forms /\ form'.page = q /\ form'.quick = form.quick
    BY <1>0, <2>1, <2>2 DEF Forms
  <2>4. OneAtATime(q)
    BY <1>0, <1>1, <1>2, <1>3, <1>4, <2>2 DEF OneAtATime, Writes, Cleans, SameFlags
  <2>5. OneSetup(q, form.quick)
    BY <1>0, <1>1, <1>2, <2>2 DEF OneSetup
  <2>6. UpToDate(q, config.values)
    BY <1>0, <1>2, <2>2, StaysUpToDate DEF SameShow
  <2> QED
    BY <1>1, <2>3, <2>4, <2>5, <2>6 DEF FormCorrect
<1>6. CASE c.stage = "done"
  <2> DEFINE d == Call("pend", c.mount, Nobody)
             q == [r EXCEPT !.calls = @ \cup {d}]
  <2>1. form' = [form EXCEPT !.page = q]
    BY <1>1, <1>6 DEF r
  <2>2. /\ q \in Pages /\ q.calls = r.calls \cup {d} /\ SameShow(q, r) /\ SameFlags(q, r)
        /\ d.op = "pend" /\ d.mount = c.mount /\ d.stage = "sent"
    BY <1>2, <1>3, SentIs, NobodyIs DEF CallOps
  <2> HIDE DEF q, d
  <2>3. form' \in Forms /\ form'.page = q /\ form'.quick = form.quick
    BY <1>0, <2>1, <2>2 DEF Forms
  <2>4. OneAtATime(q)
    BY <1>0, <1>1, <1>2, <1>3, <1>4, <2>2 DEF OneAtATime, Writes, Cleans, SameFlags
  <2>5. OneSetup(q, form.quick)
    BY <1>0, <1>1, <1>2, <2>2 DEF OneSetup
  <2>6. UpToDate(q, config.values)
    BY <1>0, <1>2, <2>2, StaysUpToDate DEF SameShow
  <2> QED
    BY <1>1, <2>3, <2>4, <2>5, <2>6 DEF FormCorrect
<1> QED
  BY <1>1, <1>5, <1>6

LEMMA PendEndsHolds == FormCorrect /\ PendEnds => FormCorrect'
<1> SUFFICES ASSUME FormCorrect, PendEnds
             PROVE  FormCorrect'
  OBVIOUS
<1> DEFINE p == form.page
<1>0. /\ form \in Forms /\ p \in Pages /\ p.calls \subseteq Calls
      /\ OneAtATime(p) /\ OneSetup(p, form.quick) /\ UpToDate(p, config.values)
  BY DEF FormCorrect, Forms, Pages
<1>1. PICK c \in p.calls : /\ c.op = "pend" /\ c.stage \in {"done", "failed"} /\ config' = config
        /\ form' = [form EXCEPT !.page =
             IF c.stage = "failed" THEN [Over(p, c) EXCEPT !.cleaning = FALSE]
             ELSE [Over(p, c) EXCEPT !.cleaning = FALSE, !.confirm = FALSE, !.calls = @ \cup {Call("status", c.mount, Nobody)}]]
  BY DEF PendEnds
<1> DEFINE r == Over(p, c)
<1>2. r \in Pages /\ r.calls = p.calls \ {c} /\ SameFlags(r, p) /\ SameShow(r, p)
  BY <1>0, OverIs
<1>3. c \in Calls /\ c.mount \in Nat /\ c.mount <= p.mount
  BY <1>0 DEF Calls, OneAtATime
<1> HIDE DEF r
<1>4. c.mount = p.mount /\ \A e \in r.calls : e.op \notin Cleans
  BY <1>0, <1>1, <1>2 DEF OneAtATime, Cleans
<1>7. PICK q \in Pages : /\ form' = [form EXCEPT !.page = q] /\ SameShow(q, r) /\ r.calls \subseteq q.calls
        /\ q.saving = r.saving /\ q.testing = r.testing /\ q.mount = r.mount /\ q.cleaning = FALSE
        /\ \A e \in q.calls \ r.calls : e.op = "status" /\ e.mount = c.mount /\ e.stage = "sent"
  <2>1. CASE c.stage = "failed"
    <3> DEFINE q == [r EXCEPT !.cleaning = FALSE]
    <3>1. form' = [form EXCEPT !.page = q]
      BY <1>1, <2>1 DEF r
    <3>2. /\ q \in Pages /\ q.calls = r.calls /\ SameShow(q, r) /\ q.saving = r.saving /\ q.testing = r.testing
          /\ q.mount = r.mount /\ q.cleaning = FALSE
      BY <1>2 DEF Pages, SameShow
    <3> QED
      BY <3>1, <3>2
  <2>2. CASE c.stage = "done"
    <3> DEFINE d == Call("status", c.mount, Nobody)
               s == [r EXCEPT !.cleaning = FALSE, !.confirm = FALSE]
               q == [s EXCEPT !.calls = @ \cup {d}]
    <3>1. form' = [form EXCEPT !.page = q]
      <4>1. q = [r EXCEPT !.cleaning = FALSE, !.confirm = FALSE, !.calls = @ \cup {d}]
        BY <1>2 DEF Pages
      <4> QED
        BY <1>1, <2>2, <4>1 DEF r
    <3>2. /\ s \in Pages /\ s.calls = r.calls /\ SameShow(s, r) /\ s.saving = r.saving /\ s.testing = r.testing
          /\ s.mount = r.mount /\ s.cleaning = FALSE
      BY <1>2 DEF Pages, SameShow
    <3> HIDE DEF s
    <3>3. /\ q \in Pages /\ q.calls = s.calls \cup {d} /\ SameShow(q, s) /\ SameFlags(q, s)
          /\ d.op = "status" /\ d.mount = c.mount /\ d.stage = "sent"
      BY <1>3, <3>2, SentIs, NobodyIs DEF CallOps
    <3> HIDE DEF q, d
    <3> QED
      BY <3>1, <3>2, <3>3 DEF SameShow, SameFlags
  <2> QED
    BY <1>1, <2>1, <2>2
<1>8. form' \in Forms /\ form'.page = q /\ form'.quick = form.quick
  BY <1>0, <1>7 DEF Forms
<1>9. OneAtATime(q)
  BY <1>0, <1>1, <1>2, <1>3, <1>4, <1>7 DEF OneAtATime, Writes, Cleans, SameFlags, Here
<1>10. OneSetup(q, form.quick)
  BY <1>0, <1>1, <1>2, <1>7 DEF OneSetup
<1>11. UpToDate(q, config.values)
  BY <1>0, <1>2, <1>7, StaysUpToDate DEF SameShow
<1> QED
  BY <1>1, <1>8, <1>9, <1>10, <1>11 DEF FormCorrect

LEMMA QuickEndsHolds == FormCorrect /\ QuickEnds => FormCorrect'
<1> SUFFICES ASSUME FormCorrect, QuickEnds
             PROVE  FormCorrect'
  OBVIOUS
<1> DEFINE p == form.page
<1>0. /\ form \in Forms /\ p \in Pages /\ p.calls \subseteq Calls
      /\ OneAtATime(p) /\ OneSetup(p, form.quick) /\ UpToDate(p, config.values)
  BY DEF FormCorrect, Forms, Pages
<1>1. PICK c \in p.calls : /\ c.op = "quick" /\ config' = config
        /\ form' = [form EXCEPT !.page = Over(p, c), !.quick = IF c.stage = "done" THEN "closed" ELSE "open",
                                !.caps = IF c.stage = "done" THEN c.out["generation"] ELSE @]
  BY DEF QuickEnds
<1> DEFINE r == Over(p, c)
<1>2. r \in Pages /\ r.calls = p.calls \ {c} /\ SameFlags(r, p) /\ SameShow(r, p)
  BY <1>0, OverIs
<1>3. c \in Calls /\ c.mount \in Nat /\ c.mount <= p.mount
  BY <1>0 DEF Calls, OneAtATime
<1> HIDE DEF r
<1>4. PICK caps \in Int : caps = IF c.stage = "done" THEN c.out["generation"] ELSE form.caps
  BY <1>0, <1>3, FieldsAre DEF Forms, Calls, Values
<1>5. PICK quick \in {"closed", "open"} : quick = IF c.stage = "done" THEN "closed" ELSE "open"
  OBVIOUS
<1>6. form' = [form EXCEPT !.page = r, !.quick = quick, !.caps = caps]
  BY <1>0, <1>1, <1>4, <1>5 DEF r, Forms
<1>7. form' \in Forms /\ form'.page = r /\ form'.quick = quick
  BY <1>0, <1>2, <1>6 DEF Forms
<1>8. OneAtATime(r)
  BY <1>0, <1>1, <1>2 DEF OneAtATime, Writes, Cleans, SameFlags
<1>9. OneSetup(r, quick)
  BY <1>0, <1>1, <1>2 DEF OneSetup
<1>10. UpToDate(r, config.values)
  BY <1>0, <1>2, StaysUpToDate DEF SameShow
<1> QED
  BY <1>1, <1>7, <1>8, <1>9, <1>10 DEF FormCorrect

LEMMA AppStartsHolds == FormCorrect /\ AppStarts => FormCorrect'
<1> SUFFICES ASSUME FormCorrect, AppStarts
             PROVE  FormCorrect'
  OBVIOUS
<1> DEFINE q == Mounted("other", form.page.mount + 1, {})
<1>1. /\ form' = [form EXCEPT !.page = q, !.caps = config.values["generation"], !.quick = "closed"]
      /\ config' = [config EXCEPT !.pending = FALSE]
  BY DEF AppStarts
<1>2. /\ form \in Forms /\ config \in [values : Values, pending : BOOLEAN]
      /\ form.page.mount + 1 \in Nat /\ config.values["generation"] \in Int
  BY FieldsAre DEF FormCorrect, Forms, Pages, Values
<1>3. /\ q \in Pages /\ q.tab = "other" /\ ~q.saving /\ ~q.testing /\ ~q.cleaning /\ q.calls = {}
  BY <1>2, MountIs DEF SettingsTabs
<1> HIDE DEF q
<1>4. /\ form' \in Forms /\ form'.page = q /\ form'.quick = "closed"
      /\ config' \in [values : Values, pending : BOOLEAN] /\ config'.values = config.values
  BY <1>1, <1>2, <1>3 DEF Forms
<1>5. OneAtATime(q) /\ OneSetup(q, "closed") /\ UpToDate(q, config.values)
  BY <1>3, FieldsAre DEF OneAtATime, OneSetup, UpToDate, Writes, Cleans
<1> QED
  BY <1>4, <1>5 DEF FormCorrect

LEMMA OpenTabHolds == FormCorrect /\ OpenTab => FormCorrect'
<1> SUFFICES ASSUME FormCorrect, OpenTab
             PROVE  FormCorrect'
  OBVIOUS
<1> DEFINE p == form.page
<1>0. /\ form \in Forms /\ p \in Pages /\ p.calls \subseteq Calls
      /\ OneAtATime(p) /\ OneSetup(p, form.quick) /\ UpToDate(p, config.values)
  BY DEF FormCorrect, Forms, Pages
<1>1. PICK t \in SettingsTabs \ {p.tab} :
        /\ form.quick = "closed" /\ ~p.confirm /\ config' = config
        /\ form' = [form EXCEPT !.touches = @ + 1, !.page = Mounted(t, p.mount + 1, p.calls)]
  BY <1>0 DEF OpenTab, CanTouch, Touch, Forms
<1> DEFINE q == Mounted(t, p.mount + 1, p.calls)
<1>2. form.touches + 1 \in Nat /\ p.mount + 1 \in Nat
  BY <1>0 DEF Forms, Pages
<1>3. /\ q \in Pages /\ q.tab = t /\ q.mount = p.mount + 1 /\ ~q.saving /\ ~q.testing /\ ~q.cleaning
      /\ ~q.touched /\ q.phase = (IF t = "other" THEN "ready" ELSE "loading")
      /\ p.calls \subseteq q.calls
      /\ \A c \in q.calls \ p.calls : c.mount = q.mount /\ c.op \in {"load", "status"} /\ c.stage = "sent"
  BY <1>0, <1>2, MountIs
<1> HIDE DEF q
<1>4. form' \in Forms /\ form'.page = q /\ form'.quick = form.quick
  BY <1>0, <1>1, <1>2, <1>3 DEF Forms, q
<1>5. ~p.cleaning /\ \A c \in p.calls : c.op \notin Cleans
  BY <1>0, <1>1 DEF OneAtATime, Pages
<1>6. \A c \in p.calls : c.mount \in Nat /\ c.mount < q.mount
  BY <1>0, <1>3 DEF OneAtATime, Calls, Pages
<1>7. OneAtATime(q)
  <2>1. \A c \in q.calls : c.mount <= q.mount /\ c.op \notin Cleans
    BY <1>3, <1>5, <1>6 DEF Cleans, Pages, Calls
  <2>2. \A c \in q.calls : c.mount = q.mount => c.op \notin Writes \cup {"test"}
    BY <1>3, <1>6 DEF Writes, Pages
  <2> QED
    BY <1>3, <2>1, <2>2 DEF OneAtATime
<1>8. OneSetup(q, form.quick)
  BY <1>0, <1>3 DEF OneSetup
<1>9. UpToDate(q, config.values)
  BY <1>0, <1>3, FieldsAre, StaysUpToDate
<1> QED
  BY <1>1, <1>4, <1>7, <1>8, <1>9 DEF FormCorrect

LEMMA RetryLoadHolds == FormCorrect /\ RetryLoad => FormCorrect'
<1> SUFFICES ASSUME FormCorrect, RetryLoad
             PROVE  FormCorrect'
  OBVIOUS
<1> DEFINE p == form.page
<1>0. /\ form \in Forms /\ p \in Pages /\ p.calls \subseteq Calls
      /\ OneAtATime(p) /\ OneSetup(p, form.quick) /\ UpToDate(p, config.values)
  BY DEF FormCorrect, Forms, Pages
<1> DEFINE s == [p EXCEPT !.phase = "loading"]
           d == Call("load", p.mount, Nobody)
           q == [s EXCEPT !.calls = @ \cup {d}]
<1>1. form.touches + 1 \in Nat /\ config' = config
  BY <1>0 DEF RetryLoad, CanTouch, Forms
<1>2. /\ s \in Pages /\ s.calls = p.calls /\ s.mount = p.mount /\ s.saving = p.saving /\ s.testing = p.testing
      /\ s.cleaning = p.cleaning /\ s.confirm = p.confirm
      /\ s.phase = "loading"
  BY <1>0 DEF Pages
<1>3. form' = [form EXCEPT !.touches = @ + 1, !.page = q]
  BY <1>0, <1>2 DEF RetryLoad, Sent, Touch, Forms
<1>4. Nobody \in Patches
  BY NobodyIs
<1> HIDE DEF s
<1>5. /\ q \in Pages /\ q.calls = s.calls \cup {d} /\ SameFlags(q, s) /\ SameShow(q, s)
      /\ d.op = "load" /\ d.mount = p.mount /\ d.stage = "sent"
  <2>1. p.mount \in Nat
    BY <1>0 DEF Pages
  <2> QED
    BY <1>2, <1>4, <2>1, SentIs DEF CallOps
<1> HIDE DEF q, d
<1>6. form' \in Forms /\ form'.page = q /\ form'.quick = form.quick
  BY <1>0, <1>1, <1>3, <1>5 DEF Forms
<1>7. OneAtATime(q)
  <2>1. p.mount \in Nat
    BY <1>0 DEF Pages
  <2> QED
    BY <1>0, <1>1, <1>2, <1>5, <2>1 DEF OneAtATime, Writes, Cleans, SameFlags
<1>8. OneSetup(q, form.quick)
  BY <1>0, <1>2, <1>5 DEF OneSetup
<1>9. UpToDate(q, config.values)
  BY <1>0, <1>2, <1>5, StaysUpToDate DEF SameShow
<1> QED
  BY <1>1, <1>6, <1>7, <1>8, <1>9 DEF FormCorrect

LEMMA SaveFormHolds == FormCorrect /\ SaveForm => FormCorrect'
<1> SUFFICES ASSUME FormCorrect, SaveForm
             PROVE  FormCorrect'
  OBVIOUS
<1> DEFINE p == form.page
<1>0. /\ form \in Forms /\ p \in Pages /\ p.calls \subseteq Calls
      /\ OneAtATime(p) /\ OneSetup(p, form.quick) /\ UpToDate(p, config.values)
  BY DEF FormCorrect, Forms, Pages
<1> DEFINE s == [p EXCEPT !.saving = TRUE, !.verdict = FALSE]
           d == Call("save", p.mount, Part(p.draft, FieldsOf(p.tab)))
           q == [s EXCEPT !.calls = @ \cup {d}]
<1>1. ~p.saving /\ ~p.testing /\ form.touches + 1 \in Nat /\ config' = config
  BY <1>0 DEF SaveForm, CanTouch, Forms
<1>2. /\ s \in Pages /\ s.calls = p.calls /\ s.mount = p.mount /\ s.saving = TRUE /\ s.testing = p.testing
      /\ s.cleaning = p.cleaning /\ s.confirm = p.confirm /\ s.tab = p.tab /\ s.phase = p.phase /\ s.draft = p.draft
      /\ s.touched = p.touched /\ s.behind = p.behind
  BY <1>0 DEF Pages
<1>3. form' = [form EXCEPT !.touches = @ + 1, !.page = q]
  BY <1>0, <1>2 DEF SaveForm, Sent, Touch, Forms
<1>4. Part(p.draft, FieldsOf(p.tab)) \in Patches
  <2>1. FieldsOf(p.tab) \subseteq Fields /\ p.draft \in Values
    BY <1>0, FieldsAre DEF Pages
  <2> QED
    BY <2>1 DEF Part, Patches, Values
<1> HIDE DEF s
<1>5. /\ q \in Pages /\ q.calls = s.calls \cup {d} /\ SameFlags(q, s) /\ SameShow(q, s)
      /\ d.op = "save" /\ d.mount = p.mount /\ d.stage = "sent"
  <2>1. p.mount \in Nat
    BY <1>0 DEF Pages
  <2> QED
    BY <1>2, <1>4, <2>1, SentIs DEF CallOps
<1> HIDE DEF q, d
<1>6. form' \in Forms /\ form'.page = q /\ form'.quick = form.quick
  BY <1>0, <1>1, <1>3, <1>5 DEF Forms
<1>7. OneAtATime(q)
  <2>1. p.mount \in Nat
    BY <1>0 DEF Pages
  <2> QED
    BY <1>0, <1>1, <1>2, <1>5, <2>1 DEF OneAtATime, Writes, Cleans, SameFlags
<1>8. OneSetup(q, form.quick)
  BY <1>0, <1>2, <1>5 DEF OneSetup
<1>9. UpToDate(q, config.values)
  BY <1>0, <1>2, <1>5, StaysUpToDate DEF SameShow
<1> QED
  BY <1>1, <1>6, <1>7, <1>8, <1>9 DEF FormCorrect

LEMMA TestFormHolds == FormCorrect /\ TestForm => FormCorrect'
<1> SUFFICES ASSUME FormCorrect, TestForm
             PROVE  FormCorrect'
  OBVIOUS
<1> DEFINE p == form.page
<1>0. /\ form \in Forms /\ p \in Pages /\ p.calls \subseteq Calls
      /\ OneAtATime(p) /\ OneSetup(p, form.quick) /\ UpToDate(p, config.values)
  BY DEF FormCorrect, Forms, Pages
<1> DEFINE s == [p EXCEPT !.testing = TRUE, !.verdict = FALSE]
           d == Call("test", p.mount, Nobody)
           q == [s EXCEPT !.calls = @ \cup {d}]
<1>1. ~p.saving /\ ~p.testing /\ form.touches + 1 \in Nat /\ config' = config
  BY <1>0 DEF TestForm, CanTouch, Forms
<1>2. /\ s \in Pages /\ s.calls = p.calls /\ s.mount = p.mount /\ s.saving = p.saving /\ s.testing = TRUE
      /\ s.cleaning = p.cleaning /\ s.confirm = p.confirm /\ s.tab = p.tab /\ s.phase = p.phase /\ s.draft = p.draft
      /\ s.touched = p.touched /\ s.behind = p.behind
  BY <1>0 DEF Pages
<1>3. form' = [form EXCEPT !.touches = @ + 1, !.page = q]
  BY <1>0, <1>2 DEF TestForm, Sent, Touch, Forms
<1>4. Nobody \in Patches
  BY NobodyIs
<1> HIDE DEF s
<1>5. /\ q \in Pages /\ q.calls = s.calls \cup {d} /\ SameFlags(q, s) /\ SameShow(q, s)
      /\ d.op = "test" /\ d.mount = p.mount /\ d.stage = "sent"
  <2>1. p.mount \in Nat
    BY <1>0 DEF Pages
  <2> QED
    BY <1>2, <1>4, <2>1, SentIs DEF CallOps
<1> HIDE DEF q, d
<1>6. form' \in Forms /\ form'.page = q /\ form'.quick = form.quick
  BY <1>0, <1>1, <1>3, <1>5 DEF Forms
<1>7. OneAtATime(q)
  <2>1. p.mount \in Nat
    BY <1>0 DEF Pages
  <2> QED
    BY <1>0, <1>1, <1>2, <1>5, <2>1 DEF OneAtATime, Writes, Cleans, SameFlags
<1>8. OneSetup(q, form.quick)
  BY <1>0, <1>2, <1>5 DEF OneSetup
<1>9. UpToDate(q, config.values)
  BY <1>0, <1>2, <1>5, StaysUpToDate DEF SameShow
<1> QED
  BY <1>1, <1>6, <1>7, <1>8, <1>9 DEF FormCorrect

LEMMA SetupParserHolds == FormCorrect /\ SetupParser => FormCorrect'
<1> SUFFICES ASSUME FormCorrect, SetupParser
             PROVE  FormCorrect'
  OBVIOUS
<1> DEFINE p == form.page
<1>0. /\ form \in Forms /\ p \in Pages /\ p.calls \subseteq Calls
      /\ OneAtATime(p) /\ OneSetup(p, form.quick) /\ UpToDate(p, config.values)
  BY DEF FormCorrect, Forms, Pages
<1> DEFINE s == [p EXCEPT !.saving = TRUE]
           d == Call("setup", p.mount, Nobody)
           q == [s EXCEPT !.calls = @ \cup {d}]
<1>1. ~p.saving /\ ~p.testing /\ form.touches + 1 \in Nat /\ config' = config
  BY <1>0 DEF SetupParser, CanTouch, Forms
<1>2. /\ s \in Pages /\ s.calls = p.calls /\ s.mount = p.mount /\ s.saving = TRUE /\ s.testing = p.testing
      /\ s.cleaning = p.cleaning /\ s.confirm = p.confirm /\ s.tab = p.tab /\ s.phase = p.phase /\ s.draft = p.draft
      /\ s.touched = p.touched /\ s.behind = p.behind
  BY <1>0 DEF Pages
<1>3. form' = [form EXCEPT !.touches = @ + 1, !.page = q]
  BY <1>0, <1>2 DEF SetupParser, Sent, Touch, Forms
<1>4. Nobody \in Patches
  BY NobodyIs
<1> HIDE DEF s
<1>5. /\ q \in Pages /\ q.calls = s.calls \cup {d} /\ SameFlags(q, s) /\ SameShow(q, s)
      /\ d.op = "setup" /\ d.mount = p.mount /\ d.stage = "sent"
  <2>1. p.mount \in Nat
    BY <1>0 DEF Pages
  <2> QED
    BY <1>2, <1>4, <2>1, SentIs DEF CallOps
<1> HIDE DEF q, d
<1>6. form' \in Forms /\ form'.page = q /\ form'.quick = form.quick
  BY <1>0, <1>1, <1>3, <1>5 DEF Forms
<1>7. OneAtATime(q)
  <2>1. p.mount \in Nat
    BY <1>0 DEF Pages
  <2> QED
    BY <1>0, <1>1, <1>2, <1>5, <2>1 DEF OneAtATime, Writes, Cleans, SameFlags
<1>8. OneSetup(q, form.quick)
  BY <1>0, <1>2, <1>5 DEF OneSetup
<1>9. UpToDate(q, config.values)
  BY <1>0, <1>2, <1>5, StaysUpToDate DEF SameShow
<1> QED
  BY <1>1, <1>6, <1>7, <1>8, <1>9 DEF FormCorrect

LEMMA MaintainNowHolds == FormCorrect /\ MaintainNow => FormCorrect'
<1> SUFFICES ASSUME FormCorrect, MaintainNow
             PROVE  FormCorrect'
  OBVIOUS
<1> DEFINE p == form.page
<1>0. /\ form \in Forms /\ p \in Pages /\ p.calls \subseteq Calls
      /\ OneAtATime(p) /\ OneSetup(p, form.quick) /\ UpToDate(p, config.values)
  BY DEF FormCorrect, Forms, Pages
<1> DEFINE s == [p EXCEPT !.busy = TRUE]
           d == Call("trigger", p.mount, Nobody)
           q == [s EXCEPT !.calls = @ \cup {d}]
<1>1. form.touches + 1 \in Nat /\ config' = config
  BY <1>0 DEF MaintainNow, CanTouch, Forms
<1>2. /\ s \in Pages /\ s.calls = p.calls /\ s.mount = p.mount /\ s.saving = p.saving /\ s.testing = p.testing
      /\ s.cleaning = p.cleaning /\ s.confirm = p.confirm /\ s.tab = p.tab /\ s.phase = p.phase /\ s.draft = p.draft
      /\ s.touched = p.touched /\ s.behind = p.behind
  BY <1>0 DEF Pages
<1>3. form' = [form EXCEPT !.touches = @ + 1, !.page = q]
  BY <1>0, <1>2 DEF MaintainNow, Sent, Touch, Forms
<1>4. Nobody \in Patches
  BY NobodyIs
<1> HIDE DEF s
<1>5. /\ q \in Pages /\ q.calls = s.calls \cup {d} /\ SameFlags(q, s) /\ SameShow(q, s)
      /\ d.op = "trigger" /\ d.mount = p.mount /\ d.stage = "sent"
  <2>1. p.mount \in Nat
    BY <1>0 DEF Pages
  <2> QED
    BY <1>2, <1>4, <2>1, SentIs DEF CallOps
<1> HIDE DEF q, d
<1>6. form' \in Forms /\ form'.page = q /\ form'.quick = form.quick
  BY <1>0, <1>1, <1>3, <1>5 DEF Forms
<1>7. OneAtATime(q)
  <2>1. p.mount \in Nat
    BY <1>0 DEF Pages
  <2> QED
    BY <1>0, <1>1, <1>2, <1>5, <2>1 DEF OneAtATime, Writes, Cleans, SameFlags
<1>8. OneSetup(q, form.quick)
  BY <1>0, <1>2, <1>5 DEF OneSetup
<1>9. UpToDate(q, config.values)
  BY <1>0, <1>2, <1>5, StaysUpToDate DEF SameShow
<1> QED
  BY <1>1, <1>6, <1>7, <1>8, <1>9 DEF FormCorrect

LEMMA ConfirmCleanHolds == FormCorrect /\ ConfirmClean => FormCorrect'
<1> SUFFICES ASSUME FormCorrect, ConfirmClean
             PROVE  FormCorrect'
  OBVIOUS
<1> DEFINE p == form.page
<1>0. /\ form \in Forms /\ p \in Pages /\ p.calls \subseteq Calls
      /\ OneAtATime(p) /\ OneSetup(p, form.quick) /\ UpToDate(p, config.values)
  BY DEF FormCorrect, Forms, Pages
<1> DEFINE s == [p EXCEPT !.cleaning = TRUE]
           d == Call("arm", p.mount, Nobody)
           q == [s EXCEPT !.calls = @ \cup {d}]
<1>1. p.confirm /\ ~p.cleaning /\ form.touches + 1 \in Nat /\ config' = config
  BY <1>0 DEF ConfirmClean, CanTouch, Forms
<1>2. /\ s \in Pages /\ s.calls = p.calls /\ s.mount = p.mount /\ s.saving = p.saving /\ s.testing = p.testing
      /\ s.cleaning = TRUE /\ s.confirm = p.confirm /\ s.tab = p.tab /\ s.phase = p.phase /\ s.draft = p.draft
      /\ s.touched = p.touched /\ s.behind = p.behind
  BY <1>0 DEF Pages
<1>3. form' = [form EXCEPT !.page = q]
  BY <1>0, <1>2 DEF ConfirmClean, Sent, Touch, Forms
<1>4. Nobody \in Patches
  BY NobodyIs
<1> HIDE DEF s
<1>5. /\ q \in Pages /\ q.calls = s.calls \cup {d} /\ SameFlags(q, s) /\ SameShow(q, s)
      /\ d.op = "arm" /\ d.mount = p.mount /\ d.stage = "sent"
  <2>1. p.mount \in Nat
    BY <1>0 DEF Pages
  <2> QED
    BY <1>2, <1>4, <2>1, SentIs DEF CallOps
<1> HIDE DEF q, d
<1>6. form' \in Forms /\ form'.page = q /\ form'.quick = form.quick
  BY <1>0, <1>1, <1>3, <1>5 DEF Forms
<1>7. OneAtATime(q)
  <2>1. p.mount \in Nat
    BY <1>0 DEF Pages
  <2> QED
    BY <1>0, <1>1, <1>2, <1>5, <2>1 DEF OneAtATime, Writes, Cleans, SameFlags
<1>8. OneSetup(q, form.quick)
  BY <1>0, <1>2, <1>5 DEF OneSetup
<1>9. UpToDate(q, config.values)
  BY <1>0, <1>2, <1>5, StaysUpToDate DEF SameShow
<1> QED
  BY <1>1, <1>6, <1>7, <1>8, <1>9 DEF FormCorrect

LEMMA EditKeyHolds == FormCorrect /\ EditKey => FormCorrect'
<1> SUFFICES ASSUME FormCorrect, EditKey
             PROVE  FormCorrect'
  OBVIOUS
<1> DEFINE p == form.page
<1>0. /\ form \in Forms /\ p \in Pages /\ p.calls \subseteq Calls
      /\ OneAtATime(p) /\ OneSetup(p, form.quick) /\ UpToDate(p, config.values)
  BY DEF FormCorrect, Forms, Pages
<1> DEFINE q == [p EXCEPT !.key = TRUE, !.touched = TRUE]
<1>1. config' = config /\ form.touches + 1 \in Nat
  BY <1>0 DEF EditKey, CanTouch, Forms
<1>2. form' = [form EXCEPT !.touches = @ + 1, !.page = q]
  BY <1>0 DEF EditKey, Touch, Forms, Pages
<1>3. /\ q \in Pages /\ q.calls = p.calls /\ q.mount = p.mount /\ q.saving = p.saving /\ q.testing = p.testing
      /\ q.cleaning = p.cleaning /\ q.confirm = p.confirm /\ q.touched
  BY <1>0 DEF Pages
<1> HIDE DEF q
<1>4. form' \in Forms /\ form'.page = q /\ form'.quick = form.quick
  BY <1>0, <1>1, <1>2, <1>3 DEF Forms
<1>5. OneAtATime(q) /\ OneSetup(q, form.quick)
  BY <1>0, <1>1, <1>3 DEF OneAtATime, OneSetup
<1>6. UpToDate(q, config.values)
  BY <1>0, <1>3, StaysUpToDate
<1> QED
  BY <1>1, <1>4, <1>5, <1>6 DEF FormCorrect

LEMMA ResetFormHolds == FormCorrect /\ ResetForm => FormCorrect'
<1> SUFFICES ASSUME FormCorrect, ResetForm
             PROVE  FormCorrect'
  OBVIOUS
<1> DEFINE p == form.page
<1>0. /\ form \in Forms /\ p \in Pages /\ p.calls \subseteq Calls
      /\ OneAtATime(p) /\ OneSetup(p, form.quick) /\ UpToDate(p, config.values)
  BY DEF FormCorrect, Forms, Pages
<1> DEFINE q == [p EXCEPT !.draft = Recommended, !.touched = TRUE, !.key = FALSE,
                          !.verdict = FALSE]
<1>1. config' = config /\ form.touches + 1 \in Nat
  BY <1>0 DEF ResetForm, CanTouch, Forms
<1>2. form' = [form EXCEPT !.touches = @ + 1, !.page = q]
  BY <1>0 DEF ResetForm, Touch, Forms, Pages
<1>r. Recommended \in Values
  BY DEF Recommended, Values
<1>3. /\ q \in Pages /\ q.calls = p.calls /\ q.mount = p.mount /\ q.saving = p.saving /\ q.testing = p.testing
      /\ q.cleaning = p.cleaning /\ q.confirm = p.confirm /\ q.touched
  BY <1>0, <1>r DEF Pages
<1> HIDE DEF q
<1>4. form' \in Forms /\ form'.page = q /\ form'.quick = form.quick
  BY <1>0, <1>1, <1>2, <1>3 DEF Forms
<1>5. OneAtATime(q) /\ OneSetup(q, form.quick)
  BY <1>0, <1>1, <1>3 DEF OneAtATime, OneSetup
<1>6. UpToDate(q, config.values)
  BY <1>0, <1>3, StaysUpToDate
<1> QED
  BY <1>1, <1>4, <1>5, <1>6 DEF FormCorrect

LEMMA AskCleanHolds == FormCorrect /\ AskClean => FormCorrect'
<1> SUFFICES ASSUME FormCorrect, AskClean
             PROVE  FormCorrect'
  OBVIOUS
<1> DEFINE p == form.page
<1>0. /\ form \in Forms /\ p \in Pages /\ p.calls \subseteq Calls
      /\ OneAtATime(p) /\ OneSetup(p, form.quick) /\ UpToDate(p, config.values)
  BY DEF FormCorrect, Forms, Pages
<1> DEFINE q == [p EXCEPT !.confirm = TRUE]
<1>1. config' = config /\ form.touches + 1 \in Nat
  BY <1>0 DEF AskClean, CanTouch, Forms
<1>2. form' = [form EXCEPT !.touches = @ + 1, !.page = q]
  BY <1>0 DEF AskClean, Touch, Forms, Pages
<1>3. /\ q \in Pages /\ q.calls = p.calls /\ q.mount = p.mount /\ q.saving = p.saving /\ q.testing = p.testing
      /\ q.cleaning = p.cleaning /\ q.confirm = TRUE /\ q.tab = p.tab /\ q.phase = p.phase
      /\ q.draft = p.draft /\ q.touched = p.touched /\ q.behind = p.behind
  BY <1>0 DEF Pages
<1> HIDE DEF q
<1>4. form' \in Forms /\ form'.page = q /\ form'.quick = form.quick
  BY <1>0, <1>1, <1>2, <1>3 DEF Forms
<1>5. OneAtATime(q) /\ OneSetup(q, form.quick)
  BY <1>0, <1>1, <1>3 DEF OneAtATime, OneSetup
<1>6. UpToDate(q, config.values)
  BY <1>0, <1>3, StaysUpToDate
<1> QED
  BY <1>1, <1>4, <1>5, <1>6 DEF FormCorrect

LEMMA CancelCleanHolds == FormCorrect /\ CancelClean => FormCorrect'
<1> SUFFICES ASSUME FormCorrect, CancelClean
             PROVE  FormCorrect'
  OBVIOUS
<1> DEFINE p == form.page
<1>0. /\ form \in Forms /\ p \in Pages /\ p.calls \subseteq Calls
      /\ OneAtATime(p) /\ OneSetup(p, form.quick) /\ UpToDate(p, config.values)
  BY DEF FormCorrect, Forms, Pages
<1> DEFINE q == [p EXCEPT !.confirm = FALSE]
<1>1. p.confirm /\ ~p.cleaning /\ config' = config /\ form.touches + 1 \in Nat
  BY <1>0 DEF CancelClean, CanTouch, Forms
<1>2. form' = [form EXCEPT !.page = q]
  BY <1>0 DEF CancelClean, Touch, Forms, Pages
<1>3. /\ q \in Pages /\ q.calls = p.calls /\ q.mount = p.mount /\ q.saving = p.saving /\ q.testing = p.testing
      /\ q.cleaning = p.cleaning /\ q.tab = p.tab /\ q.phase = p.phase
      /\ q.draft = p.draft /\ q.touched = p.touched /\ q.behind = p.behind
  BY <1>0 DEF Pages
<1> HIDE DEF q
<1>4. form' \in Forms /\ form'.page = q /\ form'.quick = form.quick
  BY <1>0, <1>1, <1>2, <1>3 DEF Forms
<1>5. OneAtATime(q) /\ OneSetup(q, form.quick)
  BY <1>0, <1>1, <1>3 DEF OneAtATime, OneSetup
<1>6. UpToDate(q, config.values)
  BY <1>0, <1>3, StaysUpToDate
<1> QED
  BY <1>1, <1>4, <1>5, <1>6 DEF FormCorrect

LEMMA EditFieldHolds == FormCorrect /\ EditField => FormCorrect'
<1> SUFFICES ASSUME FormCorrect, EditField
             PROVE  FormCorrect'
  OBVIOUS
<1> DEFINE p == form.page
<1>0. /\ form \in Forms /\ p \in Pages /\ p.calls \subseteq Calls
      /\ OneAtATime(p) /\ OneSetup(p, form.quick) /\ UpToDate(p, config.values)
  BY DEF FormCorrect, Forms, Pages
<1>1. PICK f \in FieldsOf(p.tab) :
        config' = config /\ form' = [Touch(form) EXCEPT !.page.draft[f] = 1 - @, !.page.touched = TRUE]
  BY DEF EditField
<1> DEFINE draft == [p.draft EXCEPT ![f] = 1 - p.draft[f]]
           q == [p EXCEPT !.draft = draft, !.touched = TRUE]
<1>2. form' = [form EXCEPT !.touches = @ + 1, !.page = q] /\ form.touches + 1 \in Nat
  <2> DEFINE a == [form EXCEPT !.touches = @ + 1]
             v == 1 - p.draft[f]
             b == [a EXCEPT !.page.draft[f] = v]
  <2>1. a \in Forms /\ a.page = p /\ form.touches + 1 \in Nat
    BY <1>0 DEF Forms
  <2>2. form' = [b EXCEPT !.page.touched = TRUE]
    BY <1>1, <2>1 DEF Touch
  <2> HIDE DEF a, v
  <2>3. b = [a EXCEPT !.page = [p EXCEPT !.draft = [p.draft EXCEPT ![f] = v]]]
    BY <2>1 DEF Forms, Pages
  <2>4. form' = [a EXCEPT !.page = [p EXCEPT !.draft = [p.draft EXCEPT ![f] = v], !.touched = TRUE]]
    BY <2>1, <2>2, <2>3 DEF Forms, Pages
  <2> QED
    BY <1>0, <2>1, <2>4 DEF Forms, a, v
<1>3. draft \in Values
  <2>1. f \in Fields /\ p.draft \in Values
    BY <1>0, FieldsAre DEF Pages
  <2>2. 1 - p.draft[f] \in Int
    BY <2>1 DEF Values
  <2> QED
    BY <2>1, <2>2 DEF Values
<1> HIDE DEF draft
<1>4. /\ q \in Pages /\ q.calls = p.calls /\ q.mount = p.mount /\ q.saving = p.saving /\ q.testing = p.testing
      /\ q.cleaning = p.cleaning /\ q.confirm = p.confirm /\ q.touched
  BY <1>0, <1>3 DEF Pages
<1> HIDE DEF q
<1>5. form' \in Forms /\ form'.page = q /\ form'.quick = form.quick
  BY <1>0, <1>2, <1>4 DEF Forms
<1>6. OneAtATime(q) /\ OneSetup(q, form.quick)
  BY <1>0, <1>4 DEF OneAtATime, OneSetup
<1>7. UpToDate(q, config.values)
  BY <1>0, <1>4, StaysUpToDate
<1> QED
  BY <1>1, <1>5, <1>6, <1>7 DEF FormCorrect

LEMMA SubmitQuickHolds == FormCorrect /\ SubmitQuick => FormCorrect'
<1> SUFFICES ASSUME FormCorrect, SubmitQuick
             PROVE  FormCorrect'
  OBVIOUS
<1> DEFINE p == form.page
<1>0. /\ form \in Forms /\ p \in Pages /\ p.calls \subseteq Calls
      /\ OneAtATime(p) /\ OneSetup(p, form.quick) /\ UpToDate(p, config.values)
  BY DEF FormCorrect, Forms, Pages
<1> DEFINE d == Call("quick", p.mount, Nobody)
           q == [p EXCEPT !.calls = @ \cup {d}]
<1>1. form.quick = "open" /\ form.touches + 1 \in Nat /\ config' = config
  BY <1>0 DEF SubmitQuick, Forms
<1>2. form' = [form EXCEPT !.touches = @ + 1, !.quick = "saving", !.page = q]
  BY <1>0 DEF SubmitQuick, Sent, Touch, Forms
<1>3. /\ q \in Pages /\ q.calls = p.calls \cup {d} /\ SameFlags(q, p) /\ SameShow(q, p)
      /\ d.op = "quick" /\ d.mount = p.mount /\ d.stage = "sent" /\ p.mount \in Nat
  <2>1. p.mount \in Nat
    BY <1>0 DEF Pages
  <2> QED
    BY <1>0, <2>1, SentIs, NobodyIs DEF CallOps
<1> HIDE DEF q, d
<1>4. form' \in Forms /\ form'.page = q /\ form'.quick = "saving"
  BY <1>0, <1>1, <1>2, <1>3 DEF Forms
<1>5. OneAtATime(q)
  BY <1>0, <1>3 DEF OneAtATime, Writes, Cleans, SameFlags
<1>6. OneSetup(q, "saving")
  BY <1>0, <1>1, <1>3 DEF OneSetup
<1>7. UpToDate(q, config.values)
  BY <1>0, <1>3, StaysUpToDate DEF SameShow
<1> QED
  BY <1>1, <1>4, <1>5, <1>6, <1>7 DEF FormCorrect

LEMMA SkipQuickHolds == FormCorrect /\ SkipQuick => FormCorrect'
<1> SUFFICES ASSUME FormCorrect, SkipQuick
             PROVE  FormCorrect'
  OBVIOUS
<1> DEFINE p == form.page
<1>0. /\ form \in Forms /\ p \in Pages /\ p.calls \subseteq Calls
      /\ OneAtATime(p) /\ OneSetup(p, form.quick) /\ UpToDate(p, config.values)
  BY DEF FormCorrect, Forms, Pages
<1>1. form.quick = "open" /\ form' = [form EXCEPT !.quick = "closed"] /\ config' = config
  BY DEF SkipQuick
<1>2. form' \in Forms /\ form'.page = p /\ form'.quick = "closed"
  BY <1>0, <1>1 DEF Forms
<1>3. OneSetup(p, "closed")
  BY <1>0, <1>1 DEF OneSetup
<1> QED
  BY <1>0, <1>1, <1>2, <1>3 DEF FormCorrect

LEMMA FormNextHolds == FormCorrect /\ [FormNext]_formVars => FormCorrect'
<1> SUFFICES ASSUME FormCorrect, [FormNext]_formVars
             PROVE  FormCorrect'
  OBVIOUS
<1>1. CASE UNCHANGED formVars
  BY <1>1 DEF formVars, FormCorrect
<1>2. CASE FormNext
  BY <1>2, ServeHolds, RefuseHolds, LoadEndsHolds, WriteEndsHolds, CapsEndHolds, TestEndsHolds, StatusEndsHolds,
     TriggerEndsHolds, ArmEndsHolds, PendEndsHolds, AppStartsHolds, QuickEndsHolds, OpenTabHolds,
     RetryLoadHolds, EditFieldHolds, EditKeyHolds, ResetFormHolds, SaveFormHolds, TestFormHolds,
     SetupParserHolds, MaintainNowHolds, AskCleanHolds, ConfirmCleanHolds, CancelCleanHolds, SubmitQuickHolds,
     SkipQuickHolds
     DEF FormNext
<1> QED
  BY <1>1, <1>2

\* The forms of the settings write one configuration at a time, and an untouched
\* form shows what the server holds but for what was written behind its back
\* (system-config-form.tsx, model-config-form.tsx, knowledge-config-form.tsx).
THEOREM FormsHold == FormSpec => []FormsConsistent
<1>1. FormSpec => []FormCorrect
  BY FormInitHolds, FormNextHolds, PTL DEF FormSpec
<1> QED
  BY <1>1, FormsAreConsistent, PTL

(***************************************************************************)
(* The local resources (LocalResources).                                   *)
(***************************************************************************)
Sights == [Items -> States]
Looks == [part : {"models", "grammars"}, stage : {"sent", "looked"}, saw : Sights]
Ranks == [model : Models, asked : Models \cup {NoVerdict}, verdict : Models \cup {NoVerdict}]
ToolBoxes ==
  [part : {"models", "ranker", "grammars"}, seen : Sights, known : BOOLEAN, ticked : SUBSET Models,
   action : {"none", "backend", "rerankerBackend", "download"}, reads : SUBSET Looks,
   draft : Drafts, testing : BOOLEAN, verdict : Drafts \cup {NoVerdict}, asked : Drafts \cup {NoVerdict},
   rank : Ranks,
   card : States, cardBusy : BOOLEAN, order : {"none", "sent", "taken"}, hands : Nat, drops : Nat]

\* Of any state of the tools: an answer on the screen is about the draft on the
\* screen, and what disables a button is under way.
ToolsAgree(k) ==
  /\ k \in ToolBoxes
  /\ k.verdict # NoVerdict => k.verdict = k.draft
  /\ k.testing <=> k.asked # NoVerdict
  /\ k.rank.asked # NoVerdict => k.rank.verdict = NoVerdict
  /\ k.action # "none" <=> k.order # "none"
ResourceCorrect == machine \in Sights /\ ToolsAgree(tools)

LEMMA ResourcesAre == ResourceCorrect => ResourcesConsistent
  BY DEF ResourceCorrect, ToolsAgree, ToolBoxes, Sights, ResourcesConsistent, ResourceTypeOK

LEMMA HandAgrees ==
  ASSUME NEW k, ToolsAgree(k)
  PROVE  /\ ToolsAgree(Hand(k))
         /\ \A f \in DOMAIN k \ {"hands"} : Hand(k)[f] = k[f]
  BY DEF ToolsAgree, ToolBoxes, Hand

LEMMA AskAgrees ==
  ASSUME NEW k, ToolsAgree(k)
  PROVE  ToolsAgree(AskStatus(k)) /\ ToolsAgree(AskCard(k))
<1>1. NothingSeen \in Sights
  BY DEF NothingSeen, Sights, States
<1>2. Read("models", "sent") \in Looks /\ Read("grammars", "sent") \in Looks
  BY <1>1 DEF Read, Looks
<1>3. ASSUME NEW r \in Looks
      PROVE  ToolsAgree([k EXCEPT !.reads = @ \cup {r}])
  BY DEF ToolsAgree, ToolBoxes
<1> QED
  BY <1>2, <1>3 DEF AskStatus, AskCard

LEMMA SeenIsSight ==
  ASSUME machine \in Sights, NEW p
  PROVE  Seen(p) \in Sights
  BY DEF Seen, Sights, States

LEMMA DraftedAgrees ==
  ASSUME NEW k, ToolsAgree(k), NEW d \in Drafts
  PROVE  ToolsAgree(Drafted(k, d))
  BY DEF ToolsAgree, ToolBoxes, Drafted

LEMMA LooksAgree == ResourceCorrect /\ (LoadStatus \/ PollStatus \/ RefreshStatus \/ ServerLooks \/ StatusArrives \/ StatusFails)
                      => ResourceCorrect'
<1> SUFFICES ASSUME ResourceCorrect,
                    LoadStatus \/ PollStatus \/ RefreshStatus \/ ServerLooks \/ StatusArrives \/ StatusFails
             PROVE  ResourceCorrect'
  OBVIOUS
<1>0. machine \in Sights /\ ToolsAgree(tools) /\ tools \in ToolBoxes
  BY DEF ResourceCorrect, ToolsAgree
<1>1. CASE LoadStatus \/ PollStatus \/ RefreshStatus
  BY <1>0, <1>1, AskAgrees, HandAgrees DEF LoadStatus, PollStatus, RefreshStatus, ResourceCorrect
<1>2. CASE ServerLooks
  <2>1. PICK r \in tools.reads :
          /\ tools' = [tools EXCEPT !.reads = (@ \ {r}) \cup {[r EXCEPT !.stage = "looked", !.saw = Seen(r.part)]}]
          /\ machine' = machine
    BY <1>2 DEF ServerLooks
  <2>2. r \in Looks
    BY <1>0 DEF ToolBoxes
  <2>3. [r EXCEPT !.stage = "looked", !.saw = Seen(r.part)] \in Looks
    BY <1>0, <2>2, SeenIsSight DEF Looks
  <2>4. ASSUME NEW q \in Looks
        PROVE  ToolsAgree([tools EXCEPT !.reads = (@ \ {r}) \cup {q}])
    BY <1>0 DEF ToolsAgree, ToolBoxes
  <2> QED
    BY <1>0, <2>1, <2>3, <2>4 DEF ResourceCorrect
<1>3. CASE StatusArrives
  <2>1. PICK r \in tools.reads :
          tools' = [tools EXCEPT !.reads = @ \ {r}, !.known = TRUE, !.seen = r.saw] /\ machine' = machine
    BY <1>3 DEF StatusArrives
  <2>2. r.saw \in Sights
    BY <1>0 DEF ToolBoxes, Looks
  <2> QED
    BY <1>0, <2>1, <2>2 DEF ResourceCorrect, ToolsAgree, ToolBoxes
<1>4. CASE StatusFails
  <2>1. PICK r \in tools.reads : tools' = [tools EXCEPT !.reads = @ \ {r}, !.drops = @ + 1] /\ machine' = machine
    BY <1>4 DEF StatusFails
  <2>2. tools.drops + 1 \in Nat /\ tools.reads \ {r} \in SUBSET Looks
    BY <1>0 DEF ToolBoxes
  <2> QED
    BY <1>0, <2>1, <2>2 DEF ResourceCorrect, ToolsAgree, ToolBoxes
<1> QED
  BY <1>1, <1>2, <1>3, <1>4

LEMMA FetchesAgree == ResourceCorrect /\ (FetchEnds \/ InstallBackend \/ InstallReranker \/ DownloadModels \/ TickModel
                                           \/ ServerFetches \/ OrderAnswered \/ OrderLost) => ResourceCorrect'
<1> SUFFICES ASSUME ResourceCorrect
             PROVE  (FetchEnds \/ InstallBackend \/ InstallReranker \/ DownloadModels \/ TickModel
                       \/ ServerFetches \/ OrderAnswered \/ OrderLost) => ResourceCorrect'
  OBVIOUS
<1>0. machine \in Sights /\ ToolsAgree(tools) /\ tools \in ToolBoxes
  BY DEF ResourceCorrect, ToolsAgree
<1>1. CASE FetchEnds
  BY <1>0, <1>1 DEF FetchEnds, ResourceCorrect, Sights, States
<1>2. CASE InstallBackend \/ InstallReranker \/ DownloadModels
  <2>1. PICK a \in {"backend", "rerankerBackend", "download"} :
          tools' = [Hand(tools) EXCEPT !.action = a, !.order = "sent"] /\ machine' = machine
    BY <1>2 DEF InstallBackend, InstallReranker, DownloadModels
  <2>2. ToolsAgree(Hand(tools))
    BY <1>0, HandAgrees
  <2> QED
    BY <1>0, <2>1, <2>2 DEF ResourceCorrect, ToolsAgree, ToolBoxes
<1>3. CASE TickModel
  <2>1. PICK m \in Models : /\ tools' = [Hand(tools) EXCEPT !.ticked = IF m \in @ THEN @ \ {m} ELSE @ \cup {m}]
                            /\ machine' = machine
    BY <1>3 DEF TickModel
  <2>2. ToolsAgree(Hand(tools))
    BY <1>0, HandAgrees
  <2> QED
    BY <1>0, <2>1, <2>2 DEF ResourceCorrect, ToolsAgree, ToolBoxes
<1>4. CASE ServerFetches
  <2>1. /\ tools.order = "sent" /\ tools' = [tools EXCEPT !.order = "taken"]
        /\ machine' = [i \in Items |-> IF i \in Ordered /\ machine[i] # "ready" THEN "fetching" ELSE machine[i]]
    BY <1>4 DEF ServerFetches
  <2>2. machine' \in Sights
    BY <1>0, <2>1 DEF Sights, States
  <2>3. ToolsAgree(tools')
    BY <1>0, <2>1 DEF ToolsAgree, ToolBoxes
  <2> QED
    BY <2>2, <2>3 DEF ResourceCorrect
<1>5. CASE OrderAnswered
  <2>1. /\ tools' = [tools EXCEPT !.order = "none", !.action = "none", !.seen = Seen("models")]
        /\ machine' = machine
    BY <1>5 DEF OrderAnswered
  <2>2. Seen("models") \in Sights
    BY <1>0, SeenIsSight
  <2> QED
    BY <1>0, <2>1, <2>2 DEF ResourceCorrect, ToolsAgree, ToolBoxes
<1>6. CASE OrderLost
  <2>1. tools' = [tools EXCEPT !.order = "none", !.action = "none", !.drops = @ + 1] /\ machine' = machine
    BY <1>6 DEF OrderLost
  <2>2. tools.drops + 1 \in Nat
    BY <1>0 DEF ToolBoxes
  <2> QED
    BY <1>0, <2>1, <2>2 DEF ResourceCorrect, ToolsAgree, ToolBoxes
<1> QED
  BY <1>1, <1>2, <1>3, <1>4, <1>5, <1>6

LEMMA TestsAgree == ResourceCorrect /\ (ChooseProvider \/ ChooseModel \/ EditContext \/ TestEmbedding \/ TestAnswered
                                         \/ ChooseRanker \/ TestReranker \/ RerankerAnswered) => ResourceCorrect'
<1> SUFFICES ASSUME ResourceCorrect
             PROVE  (ChooseProvider \/ ChooseModel \/ EditContext \/ TestEmbedding \/ TestAnswered
                       \/ ChooseRanker \/ TestReranker \/ RerankerAnswered) => ResourceCorrect'
  OBVIOUS
<1>0. machine \in Sights /\ ToolsAgree(tools) /\ tools \in ToolBoxes /\ tools.draft \in Drafts
  BY DEF ResourceCorrect, ToolsAgree, ToolBoxes
<1>1. CASE ChooseProvider \/ ChooseModel \/ EditContext
  <2>1. PICK d \in Drafts : tools' = Drafted(Hand(tools), d) /\ machine' = machine
    <3>1. CASE ChooseProvider
      BY <1>0, <3>1 DEF ChooseProvider, Drafts
    <3>2. CASE ChooseModel
      BY <1>0, <3>2 DEF ChooseModel, Drafts
    <3>3. CASE EditContext
      BY <1>0, <3>3 DEF EditContext, Drafts
    <3> QED
      BY <1>1, <3>1, <3>2, <3>3
  <2> QED
    BY <1>0, <2>1, HandAgrees, DraftedAgrees DEF ResourceCorrect
<1>2. CASE TestEmbedding
  <2>1. /\ tools' = [Hand(tools) EXCEPT !.testing = TRUE, !.verdict = NoVerdict, !.asked = tools.draft]
        /\ machine' = machine
    BY <1>2 DEF TestEmbedding
  <2>2. ToolsAgree(Hand(tools))
    BY <1>0, HandAgrees
  <2>3. tools.draft # NoVerdict
    BY <1>0, ResourceAssumption
  <2> QED
    BY <1>0, <2>1, <2>2, <2>3 DEF ResourceCorrect, ToolsAgree, ToolBoxes
<1>3. CASE TestAnswered
  BY <1>0, <1>3 DEF TestAnswered, TestOver, ResourceCorrect, ToolsAgree, ToolBoxes
<1>4. CASE ChooseRanker \/ TestReranker \/ RerankerAnswered
  <2>1. ToolsAgree(Hand(tools)) /\ Hand(tools).rank = tools.rank
    BY <1>0, HandAgrees DEF ToolBoxes
  <2>2. PICK k \in {tools, Hand(tools)}, r \in Ranks :
                                           /\ tools' = [k EXCEPT !.rank = r] /\ machine' = machine
                                           /\ r.asked # NoVerdict => r.verdict = NoVerdict
    <3>1. tools.rank \in Ranks
          /\ (tools.rank.asked # NoVerdict => tools.rank.verdict = NoVerdict)
      BY <1>0 DEF ToolsAgree, ToolBoxes
    <3>2. CASE ChooseRanker
      <4>1. PICK m \in Models : tools' = [Hand(tools) EXCEPT !.rank.model = m] /\ machine' = machine
        BY <3>2 DEF ChooseRanker
      <4>2. tools' = [Hand(tools) EXCEPT !.rank = [tools.rank EXCEPT !.model = m]]
        BY <2>1, <4>1 DEF ToolsAgree, ToolBoxes
      <4> DEFINE r == [tools.rank EXCEPT !.model = m]
      <4>3. r \in Ranks /\ (r.asked # NoVerdict => r.verdict = NoVerdict)
        BY <1>0, <3>1, <4>1 DEF Ranks, ToolBoxes
      <4> QED
        BY <4>1, <4>2, <4>3
    <3>3. CASE TestReranker
      <4>1. tools' = [Hand(tools) EXCEPT !.rank.asked = tools.rank.model, !.rank.verdict = NoVerdict] /\ machine' = machine
        BY <3>3 DEF TestReranker
      <4>2. tools' = [Hand(tools) EXCEPT !.rank = [tools.rank EXCEPT !.asked = tools.rank.model, !.verdict = NoVerdict]]
        BY <2>1, <4>1 DEF ToolsAgree, ToolBoxes
      <4> DEFINE r == [tools.rank EXCEPT !.asked = tools.rank.model, !.verdict = NoVerdict]
      <4>3. r \in Ranks /\ (r.asked # NoVerdict => r.verdict = NoVerdict)
        BY <1>0, <3>1, <4>1 DEF Ranks, ToolBoxes
      <4> QED
        BY <4>1, <4>2, <4>3
    <3>4. CASE RerankerAnswered
      <4>1. tools' = [tools EXCEPT !.rank.verdict = tools.rank.asked, !.rank.asked = NoVerdict] /\ machine' = machine
        BY <3>4 DEF RerankerAnswered
      <4>2. tools' = [tools EXCEPT !.rank = [tools.rank EXCEPT !.verdict = tools.rank.asked, !.asked = NoVerdict]]
        BY <1>0, <4>1 DEF ToolsAgree, ToolBoxes
      <4> DEFINE r == [tools.rank EXCEPT !.verdict = tools.rank.asked, !.asked = NoVerdict]
      <4>3. r \in Ranks /\ (r.asked # NoVerdict => r.verdict = NoVerdict)
        BY <1>0, <3>1, <4>1 DEF Ranks, ToolBoxes
      <4> QED
        BY <4>1, <4>2, <4>3
    <3> QED
      BY <1>4, <3>2, <3>3, <3>4
  <2>3. ToolsAgree(k)
    BY <1>0, <2>1
  <2> QED
    <3>1. tools'.rank = r /\ tools' \in ToolBoxes
      BY <2>2, <2>3 DEF ToolsAgree, ToolBoxes
    <3>2. /\ tools'.verdict = k.verdict /\ tools'.draft = k.draft /\ tools'.testing = k.testing
          /\ tools'.asked = k.asked /\ tools'.action = k.action /\ tools'.order = k.order
      BY <2>2, <2>3 DEF ToolsAgree, ToolBoxes
    <3>3. ToolsAgree(tools')
      BY <2>2, <2>3, <3>1, <3>2 DEF ToolsAgree
    <3> QED
      BY <1>0, <2>2, <3>3 DEF ResourceCorrect
<1> QED
  BY <1>1, <1>2, <1>3, <1>4

LEMMA CardsAgree == ResourceCorrect /\ (PollCard \/ OpenCard \/ CardArrives \/ OrderCard \/ CardAnswered \/ CardFails)
                      => ResourceCorrect'
<1> SUFFICES ASSUME ResourceCorrect
             PROVE  (PollCard \/ OpenCard \/ CardArrives \/ OrderCard \/ CardAnswered \/ CardFails) => ResourceCorrect'
  OBVIOUS
<1>0. machine \in Sights /\ ToolsAgree(tools) /\ tools \in ToolBoxes
  BY DEF ResourceCorrect, ToolsAgree
<1>1. CASE PollCard \/ OpenCard
  BY <1>0, <1>1, AskAgrees, HandAgrees DEF PollCard, OpenCard, ResourceCorrect
<1>2. CASE CardArrives
  <2>1. PICK r \in tools.reads :
          tools' = [tools EXCEPT !.reads = @ \ {r}, !.card = r.saw["grammars"]] /\ machine' = machine
    BY <1>2 DEF CardArrives
  <2>2. r.saw["grammars"] \in States
    BY <1>0 DEF ToolBoxes, Looks, Sights, Items
  <2> QED
    BY <1>0, <2>1, <2>2 DEF ResourceCorrect, ToolsAgree, ToolBoxes
<1>3. CASE OrderCard
  <2>1. tools' = [Hand(tools) EXCEPT !.cardBusy = TRUE] /\ machine' = machine
    BY <1>3 DEF OrderCard
  <2>2. ToolsAgree(Hand(tools))
    BY <1>0, HandAgrees
  <2> QED
    BY <1>0, <2>1, <2>2 DEF ResourceCorrect, ToolsAgree, ToolBoxes
<1>4. CASE CardAnswered
  <2>1. PICK to \in States : /\ machine' = [machine EXCEPT !["grammars"] = to]
                             /\ tools' = [tools EXCEPT !.cardBusy = FALSE, !.card = to]
    BY <1>4 DEF CardAnswered
  <2>2. machine' \in Sights
    BY <1>0, <2>1 DEF Sights
  <2>3. ToolsAgree(tools')
    BY <1>0, <2>1 DEF ToolsAgree, ToolBoxes
  <2> QED
    BY <2>2, <2>3 DEF ResourceCorrect
<1>5. CASE CardFails
  <2>1. tools' = [tools EXCEPT !.cardBusy = FALSE, !.drops = @ + 1] /\ machine' = machine
    BY <1>5 DEF CardFails
  <2>2. tools.drops + 1 \in Nat
    BY <1>0 DEF ToolBoxes
  <2> QED
    BY <1>0, <2>1, <2>2 DEF ResourceCorrect, ToolsAgree, ToolBoxes
<1> QED
  BY <1>1, <1>2, <1>3, <1>4, <1>5

LEMMA ResourceInitHolds == ResourceInit => ResourceCorrect
<1> SUFFICES ASSUME ResourceInit
             PROVE  ResourceCorrect
  OBVIOUS
<1>1. machine \in Sights
  BY DEF ResourceInit, Sights, States
<1>2. PICK m \in Models, pt \in {"models", "ranker", "grammars"} :
     tools = [part |-> pt, seen |-> NothingSeen, known |-> FALSE, ticked |-> {m}, action |-> "none", reads |-> {},
              draft |-> [provider |-> "local", model |-> m, context |-> 0], testing |-> FALSE, verdict |-> NoVerdict,
              asked |-> NoVerdict, rank |-> [model |-> m, asked |-> NoVerdict, verdict |-> NoVerdict], card |-> "absent",
              cardBusy |-> FALSE, order |-> "none", hands |-> 0, drops |-> 0]
  BY DEF ResourceInit
<1>3. NothingSeen \in Sights
  BY DEF NothingSeen, Sights, States
<1>4. [provider |-> "local", model |-> m, context |-> 0] \in Drafts
  BY DEF Drafts
<1>5. tools \in ToolBoxes
  BY <1>2, <1>3, <1>4 DEF ToolBoxes, States, Ranks
<1> QED
  BY <1>1, <1>2, <1>5 DEF ResourceCorrect, ToolsAgree

LEMMA ResourceNextHolds == ResourceCorrect /\ [ResourceNext]_resourceVars => ResourceCorrect'
<1>1. ResourceCorrect /\ UNCHANGED resourceVars => ResourceCorrect'
  BY DEF ResourceCorrect, resourceVars
<1> QED
  BY <1>1, LooksAgree, FetchesAgree, TestsAgree, CardsAgree DEF ResourceNext

\* A verdict that the local models show is about the draft on the screen, and
\* what disables a button is under way (local-models-panel.tsx).
THEOREM ResourcesHold == ResourceInit /\ [][ResourceNext]_resourceVars => []ResourcesConsistent
<1>1. ResourceInit /\ [][ResourceNext]_resourceVars => []ResourceCorrect
  BY ResourceInitHolds, ResourceNextHolds, PTL
<1> QED
  BY <1>1, ResourcesAre, PTL

(***************************************************************************)
(* What the runs check of two surfaces at once.                            *)
(***************************************************************************)
\* The page of a source and the feed beside it, whatever the order of their
\* answers (source-detail.tsx, ingest-activity-panel.tsx).
THEOREM DocumentsHold == BenchSpec /\ FeedSpec => []DocumentsConsistent
BY BenchHolds, FeedHolds, PTL DEF DocumentsConsistent

\* The forms of the settings and the resources they manage (system-config-form.tsx,
\* local-models-panel.tsx).
THEOREM SettingsHold ==
  FormSpec /\ ResourceInit /\ [][ResourceNext]_resourceVars => []SettingsConsistent
BY FormsHold, ResourcesHold, PTL DEF SettingsConsistent

=============================================================================
