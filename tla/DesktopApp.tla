----------------------------- MODULE DesktopApp -----------------------------
(* The packaged desktop application: it starts the web server and the API as   *)
(* processes of its own, waits until both answer, shows its window, watches    *)
(* for updates and stops what it started when it quits or restarts (main.ts,   *)
(* runtime.ts, updater.ts).  A start is a sequence of awaits: other events of   *)
(* the application come between its steps, a second start included.            *)
EXTENDS Naturals, FiniteSets, FiniteSetsExt

CONSTANTS WebPorts,      \* ports a web server may take
          ApiPort,       \* the port of the API
          MaxBoots,      \* bound: starts
          MaxLaunches    \* bound: launches of the application

ASSUME DesktopAssumption == /\ WebPorts \subseteq Nat /\ ApiPort \in Nat \ WebPorts
                            /\ MaxBoots \in Nat /\ MaxLaunches \in Nat

VARIABLES app, procs
desktopVars == <<app, procs>>

Installs == {"whole", "no web", "no api"}

(***************************************************************************)
(* Processes.  One that is told to stop goes on until it is done: it lets   *)
(* its port go first.  Web servers die with the application, the API does   *)
(* not.                                                                     *)
(***************************************************************************)
HeldPorts(port) == (port = ApiPort /\ app.foreign) \/ \E p \in procs : p.port = port /\ p.phase = "up"
Answers(port) == \E p \in procs : p.port = port /\ p.phase = "up"
Signalled(ps, boot) == {IF p.boot = boot THEN [p EXCEPT !.killed = TRUE] ELSE p : p \in ps}

ProcessBinds == \E p \in procs :
  /\ p.phase = "starting"
  /\ procs' = IF HeldPorts(p.port) THEN procs \ {p} ELSE (procs \ {p}) \cup {[p EXCEPT !.phase = "up"]}
  /\ UNCHANGED app
ProcessCloses == \E p \in procs :
  /\ p.killed /\ p.phase = "up"
  /\ procs' = (procs \ {p}) \cup {[p EXCEPT !.phase = "closing"]}
  /\ UNCHANGED app
\* It is done, or it fails: nobody is told.
ProcessEnds == \E p \in procs :
  procs' = procs \ {p} /\ UNCHANGED app

(***************************************************************************)
(* Starts.                                                                 *)
(***************************************************************************)
NewBoot(a) == [a EXCEPT !.boots   = @ \cup {[n |-> a.count + 1, step |-> "api", web |-> FALSE, api |-> FALSE, port |-> 0]},
                        !.count   = @ + 1,
                        !.overlap = @ \/ a.boots # {},
                        !.lost    = IF a.splash \in {"shown", "error"} THEN @ + 1 ELSE @,
                        !.splash  = "shown"]

\* Mutant: a start that fails leaves the processes it began.
FailsAlone(b) ==
  /\ app' = [app EXCEPT !.boots = @ \ {b}, !.splash = IF @ = "shown" THEN "error" ELSE @]
  /\ UNCHANGED procs
Fails(b) ==
  /\ app' = [app EXCEPT !.boots = @ \ {b}, !.splash = IF @ = "shown" THEN "error" ELSE @]
  /\ procs' = Signalled(procs, b.n)

Steps(b, c) == app' = [app EXCEPT !.boots = (@ \ {b}) \cup {c}]

CheckApiPort == \E b \in app.boots :
  /\ app.up /\ b.step = "api"
  /\ IF HeldPorts(ApiPort) THEN Fails(b) ELSE Steps(b, [b EXCEPT !.step = "web"]) /\ UNCHANGED procs

FreePorts == {port \in WebPorts : ~HeldPorts(port)}
Process(b, kind, port) == [boot |-> b.n, launch |-> app.launch, kind |-> kind, port |-> port,
                           phase |-> "starting", killed |-> FALSE]
StartProcesses == \E b \in app.boots :
  /\ app.up /\ b.step = "web"
  /\ IF FreePorts = {} \/ app.install = "no web" THEN Fails(b)
     ELSE LET web == Process(b, "web", Min(FreePorts))
          IN  IF app.install = "no api"
              THEN /\ app' = [app EXCEPT !.boots = @ \ {b}, !.splash = IF @ = "shown" THEN "error" ELSE @]
                   /\ procs' = procs \cup {[web EXCEPT !.killed = TRUE]}
              ELSE /\ Steps(b, [b EXCEPT !.step = "wait", !.port = web.port])
                   /\ procs' = procs \cup {web, Process(b, "api", ApiPort)}

WebAnswers == \E b \in app.boots :
  /\ app.up /\ b.step = "wait" /\ ~b.web /\ Answers(b.port)
  /\ Steps(b, [b EXCEPT !.web = TRUE]) /\ UNCHANGED procs
ApiAnswers == \E b \in app.boots :
  /\ app.up /\ b.step = "wait" /\ ~b.api /\ Answers(ApiPort)
  /\ Steps(b, [b EXCEPT !.api = TRUE]) /\ UNCHANGED procs
StartTimesOut == \E b \in app.boots :
  /\ app.up /\ b.step = "wait" /\ ~(b.web /\ b.api)
  /\ Fails(b)
StartDone == \E b \in app.boots :
  /\ app.up /\ b.web /\ b.api
  /\ app' = [app EXCEPT !.boots = @ \ {b}, !.runtime = b.n, !.main = "loading", !.ipc = TRUE,
                        !.lost = IF app.main # "none" THEN @ + 1 ELSE @,
                        !.updaters = @ + 1]
  /\ UNCHANGED procs

(***************************************************************************)
(* The application and its windows.                                        *)
(***************************************************************************)
Off(a) == [a EXCEPT !.up = FALSE, !.boots = {}, !.runtime = 0, !.main = "none", !.splash = "none",
                    !.ipc = FALSE, !.updaters = 0, !.lost = 0, !.quitting = FALSE,
                    !.update = IF @ = "downloaded" THEN "installed" ELSE "none", !.checkpoint = "none"]
\* Before it quits it stops what it runs; what a start still under way began is not known yet.
Quits(a) == /\ app' = [a EXCEPT !.quitting = TRUE, !.runtime = 0, !.updaters = 0, !.cut = a.boots # {}]
            /\ procs' = Signalled(procs, a.runtime)

DesktopInit ==
  /\ \E darwin, foreign \in BOOLEAN, install \in Installs :
       app = [up |-> FALSE, launch |-> 0, darwin |-> darwin, foreign |-> foreign, install |-> install,
              quitting |-> FALSE, relaunch |-> FALSE, splash |-> "none", main |-> "none", runtime |-> 0,
              boots |-> {}, count |-> 0, overlap |-> FALSE, cut |-> FALSE, ipc |-> FALSE, lost |-> 0,
              updaters |-> 0, update |-> "none", checkpoint |-> "none"]
  /\ procs = {}

Launch ==
  /\ ~app.up /\ app.launch < MaxLaunches /\ app.count < MaxBoots
  /\ app' = NewBoot([app EXCEPT !.up = TRUE, !.launch = @ + 1, !.relaunch = FALSE, !.overlap = FALSE,
                             !.cut = FALSE, !.update = "none"])
  /\ UNCHANGED procs
WindowReady ==
  /\ app.up /\ app.main = "loading"
  /\ app' = [app EXCEPT !.main = "shown", !.splash = "none"]
  /\ UNCHANGED procs
CloseMain ==
  /\ app.up /\ app.main = "shown"
  /\ LET a == [app EXCEPT !.main = "none"]
     IN  IF app.darwin \/ app.lost > 0 \/ app.splash \in {"shown", "error"}
         THEN app' = a /\ UNCHANGED procs ELSE Quits(a)
CloseSplash ==
  /\ app.up /\ app.splash \in {"shown", "error"}
  /\ LET a == [app EXCEPT !.splash = "closed"]
     IN  IF app.darwin \/ app.lost > 0 \/ app.main # "none"
         THEN app' = a /\ UNCHANGED procs ELSE Quits(a)
\* The icon of the dock: the window again, or another start when there is nothing to show.
ActivateApp ==
  /\ app.up /\ app.darwin /\ app.main = "none"
  /\ IF app.runtime # 0 THEN app' = [app EXCEPT !.main = "loading"]
     ELSE ~app.quitting /\ app.count < MaxBoots /\ app' = NewBoot(app)
  /\ UNCHANGED procs
Quit == app.up /\ ~app.quitting /\ Quits(app)
Exit ==
  /\ app.up /\ app.quitting
  /\ app' = Off(app)
  /\ procs' = {p \in procs : p.kind = "api"}

\* The maintenance asks for a restart: stop, relaunch and leave at once.
RestartForMaintenance ==
  /\ app.up /\ app.ipc /\ app.main = "shown"
  /\ app' = [Off(app) EXCEPT !.relaunch = TRUE]
  /\ procs' = {p \in Signalled(procs, app.runtime) : p.kind = "api"}

(***************************************************************************)
(* Updates: looked for, downloaded, a copy of the database asked of the     *)
(* API, then the question whether to install now.                           *)
(***************************************************************************)
CheckForUpdates ==
  /\ app.up /\ app.updaters > 0 /\ app.update \in {"none", "failed"}
  /\ app' = [app EXCEPT !.update = "checking"] /\ UNCHANGED procs
UpdateFound == \E u \in {"none", "failed", "downloading"} :
  /\ app.up /\ app.update = "checking"
  /\ app' = [app EXCEPT !.update = u] /\ UNCHANGED procs
UpdateDownloaded == \E u \in {"failed", "downloaded"} :
  /\ app.up /\ app.update = "downloading"
  /\ app' = [app EXCEPT !.update = u, !.checkpoint = IF u = "downloaded" THEN "asked" ELSE @] /\ UNCHANGED procs
CheckpointDone == \E ok \in BOOLEAN :
  /\ app.up /\ app.checkpoint = "asked" /\ (ok => Answers(ApiPort))
  /\ app' = [app EXCEPT !.checkpoint = IF app.main = "none" THEN "untold" ELSE IF ok THEN "made" ELSE "missing"]
  /\ UNCHANGED procs
InstallNow ==
  /\ app.up /\ ~app.quitting /\ app.checkpoint \in {"made", "missing"}
  /\ Quits([app EXCEPT !.checkpoint = "told"])
InstallLater ==
  /\ app.up /\ app.checkpoint \in {"made", "missing"}
  /\ app' = [app EXCEPT !.checkpoint = "told"] /\ UNCHANGED procs

DesktopNext ==
  \/ ProcessBinds \/ ProcessCloses \/ ProcessEnds
  \/ CheckApiPort \/ StartProcesses \/ WebAnswers \/ ApiAnswers \/ StartTimesOut \/ StartDone
  \/ Launch \/ WindowReady \/ CloseMain \/ CloseSplash \/ ActivateApp \/ Quit \/ Exit \/ RestartForMaintenance
  \/ CheckForUpdates \/ UpdateFound \/ UpdateDownloaded \/ CheckpointDone \/ InstallNow \/ InstallLater

DesktopSpec == DesktopInit /\ [][DesktopNext]_desktopVars

(***************************************************************************)
(* Properties.                                                             *)
(***************************************************************************)
DesktopTypeOK ==
  /\ app.splash \in {"none", "shown", "error", "closed"} /\ app.main \in {"none", "loading", "shown"}
  /\ app.runtime \in 0..MaxBoots /\ app.launch \in 0..MaxLaunches
  /\ app.boots \subseteq [n : 1..MaxBoots, step : {"api", "web", "wait"}, web : BOOLEAN, api : BOOLEAN, port : {0} \cup WebPorts]
  /\ procs \subseteq [boot : 1..MaxBoots, launch : 1..MaxLaunches, kind : {"web", "api"}, port : {ApiPort} \cup WebPorts,
                      phase : {"starting", "up", "closing"}, killed : BOOLEAN]

\* What the application started and has not told to stop is in somebody's hands:
\* a start that waits for it or the runtime that will stop it (runtime.ts), as
\* long as no start begins during another.
ProcessesAreHeld ==
  (app.up /\ ~app.quitting /\ ~app.overlap) =>
    \A p \in procs : (p.launch = app.launch /\ ~p.killed) =>
      p.boot = app.runtime \/ \E b \in app.boots : b.n = p.boot /\ b.step = "wait"

\* An application that is gone, or about to come back, has told everything it
\* began to stop, unless it went while a start was under way.
NothingOutlives == (~app.up /\ ~app.cut /\ ~app.overlap) =>
  \A p \in procs : p.launch = app.launch => p.killed

\* A window is served by the runtime its page came from.
WindowIsServed == (app.up /\ ~app.quitting /\ app.main # "none") => app.runtime # 0 /\ app.ipc

\* What the application runs, shows and has to stop agree (main.ts, runtime.ts).
DesktopConsistent == DesktopTypeOK /\ ProcessesAreHeld /\ NothingOutlives /\ WindowIsServed
=============================================================================
