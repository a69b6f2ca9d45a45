------------------------------ MODULE DevRunner ------------------------------
(* The development runner dev.mjs: it starts the API and the web server, or    *)
(* uses those that already answer, waits for both, starts Electron, and        *)
(* restarts the API when the maintenance asks for it.  Each wait is a sequence *)
(* of probes; the exits of children and requests come between them.            *)
EXTENDS Naturals, FiniteSets

CONSTANTS MaxApis,       \* bound: API processes started
          MaxRestarts    \* bound: requests for a restart

ASSUME DevAssumption == MaxApis \in Nat /\ MaxRestarts \in Nat

VARIABLES dev
devVars == <<dev>>

(***************************************************************************)
(* dev.apis are the API processes alive: the one in front holds the port.   *)
(* A process that is told to stop while it starts still finishes its start. *)
(***************************************************************************)
Api(n, phase) == [n |-> n, phase |-> phase, told |-> FALSE]
Reachable == \E a \in dev.apis : a.phase = "up"
Told(as, ns) == {IF a.n \in ns THEN [a EXCEPT !.told = TRUE] ELSE a : a \in as}
StopAll(d) == [d EXCEPT !.up = FALSE, !.stopping = TRUE, !.apis = Told(@, d.children),
                        !.web = "none", !.electron = FALSE, !.restart = "none"]
StartApi(d) == [d EXCEPT !.apis = @ \cup {Api(d.count + 1, "starting")}, !.count = @ + 1,
                         !.children = @ \cup {d.count + 1}]

\* A child that fails ends the whole group, except while the API is restarted.
ChildFails(d) == IF d.restart = "none" THEN StopAll(d) ELSE d

DevInit ==
  \E api, web \in BOOLEAN :
    dev = [up |-> TRUE, step |-> "api", stopping |-> FALSE, restart |-> "none", failed |-> FALSE,
           apis |-> IF api THEN {Api(0, "up")} ELSE {}, children |-> {}, count |-> 0, requests |-> 0,
           web |-> IF web THEN "reused" ELSE "none", electron |-> FALSE]

(***************************************************************************)
(* The script.                                                             *)
(***************************************************************************)
EnsureApi ==
  /\ dev.up /\ dev.step = "api" /\ dev.count < MaxApis
  /\ dev' = [IF Reachable THEN dev ELSE StartApi(dev) EXCEPT !.step = "web"]
EnsureWeb ==
  /\ dev.up /\ dev.step = "web"
  /\ dev' = [dev EXCEPT !.step = "wait", !.web = IF @ = "reused" THEN @ ELSE "starting"]
WebComes == dev.up /\ dev.web = "starting" /\ dev' = [dev EXCEPT !.web = "up"]
BothAnswer ==
  /\ dev.up /\ dev.step = "wait" /\ dev.web \in {"up", "reused"} /\ Reachable
  /\ dev' = [dev EXCEPT !.step = "run", !.electron = TRUE]
\* A wait that times out ends the script, not its children.
ScriptFails ==
  /\ dev.up /\ dev.step = "wait"
  /\ dev' = [dev EXCEPT !.up = FALSE, !.failed = TRUE, !.restart = "none"]
ElectronExits == dev.up /\ dev.electron /\ dev' = StopAll(dev)
Interrupted   == dev.up /\ ~dev.failed /\ dev' = StopAll(dev)
WebFails == dev.up /\ dev.web \in {"starting", "up"} /\ dev' = ChildFails([dev EXCEPT !.web = "none"])

(***************************************************************************)
(* API processes.                                                          *)
(***************************************************************************)
ApiComes == \E a \in dev.apis :
  /\ a.phase = "starting"
  /\ LET d == [dev EXCEPT !.apis = @ \ {a}]
     IN  IF ~Reachable THEN dev' = [d EXCEPT !.apis = @ \cup {[a EXCEPT !.phase = "up"]}]
         ELSE dev' = IF dev.up /\ a.n > 0 THEN ChildFails(d) ELSE d
ApiCloses == \E a \in dev.apis :
  /\ a.told /\ a.phase = "up"
  /\ dev' = [dev EXCEPT !.apis = (@ \ {a}) \cup {[a EXCEPT !.phase = "closing"]}]
ApiStops == \E a \in dev.apis : a.told /\ dev' = [dev EXCEPT !.apis = @ \ {a}]
ApiFails == \E a \in dev.apis :
  /\ ~a.told
  /\ LET d == [dev EXCEPT !.apis = @ \ {a}]
     IN  dev' = IF dev.up /\ a.n > 0 THEN ChildFails(d) ELSE d

(***************************************************************************)
(* The restart for maintenance: stop the API, wait until it answers no       *)
(* more, start another, wait until that answers.                            *)
(***************************************************************************)
ApiChild == {n \in dev.children : \A k \in dev.children : n <= k}
\* Mutant: the child that is stopped is not stopped, only forgotten.
ForgetsChild ==
  /\ dev.up /\ dev.electron /\ dev.restart = "none" /\ dev.requests < MaxRestarts /\ dev.count < MaxApis
  /\ LET d == [dev EXCEPT !.requests = @ + 1]
     IN  dev' = IF dev.children = {} THEN [StartApi(d) EXCEPT !.restart = "ready"]
                ELSE [d EXCEPT !.restart = "down", !.children = {}]
RequestRestart ==
  /\ dev.up /\ dev.electron /\ dev.restart = "none" /\ dev.requests < MaxRestarts /\ dev.count < MaxApis
  /\ LET d == [dev EXCEPT !.requests = @ + 1]
     IN  dev' = IF dev.children = {} THEN [StartApi(d) EXCEPT !.restart = "ready"]
                ELSE [d EXCEPT !.restart = "down", !.apis = Told(@, ApiChild), !.children = @ \ ApiChild]
ApiIsDown ==
  /\ dev.up /\ dev.restart = "down" /\ ~Reachable
  /\ dev' = [StartApi(dev) EXCEPT !.restart = "ready"]
ApiIsReady ==
  /\ dev.up /\ dev.restart = "ready" /\ Reachable
  /\ dev' = [dev EXCEPT !.restart = "none"]
RestartTimesOut ==
  /\ dev.up /\ \/ dev.restart = "down" /\ Reachable
               \/ dev.restart = "ready" /\ ~Reachable
  /\ dev' = [dev EXCEPT !.restart = "none"]

DevNext ==
  \/ EnsureApi \/ EnsureWeb \/ WebComes \/ BothAnswer \/ ScriptFails \/ ElectronExits \/ Interrupted \/ WebFails
  \/ ApiComes \/ ApiCloses \/ ApiStops \/ ApiFails
  \/ RequestRestart \/ ApiIsDown \/ ApiIsReady \/ RestartTimesOut

DevSpec == DevInit /\ [][DevNext]_devVars

(***************************************************************************)
(* Properties.                                                             *)
(***************************************************************************)
\* Whatever API the runner started is its child until it has been told to stop:
\* none is left behind by a restart, a second restart, or the end of the group.
ApisAreChildren ==
  ~dev.failed => \A a \in dev.apis :
    a.n > 0 => a.told \/ (dev.up /\ a.n \in dev.children)

DevTypeOK ==
  /\ dev \in [up : BOOLEAN, step : {"api", "web", "wait", "run"}, stopping : BOOLEAN,
              restart : {"none", "down", "ready"}, failed : BOOLEAN,
              apis : SUBSET [n : Nat, phase : {"starting", "up", "closing"}, told : BOOLEAN],
              children : SUBSET Nat, count : Nat, requests : Nat,
              web : {"none", "reused", "starting", "up"}, electron : BOOLEAN]
  /\ \A a \in dev.apis : a.n <= dev.count
  /\ dev.children \subseteq 1..dev.count

\* The runner, the group it holds and the API it restarts (start, stopAll,
\* restartApiForMaintenance): a script that failed holds nothing any more, and a
\* number is given to one process only.
RunnerConsistent == DevTypeOK /\ (dev.failed => ~dev.up) /\ ApisAreChildren
=============================================================================
