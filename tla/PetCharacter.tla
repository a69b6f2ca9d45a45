---------------------------- MODULE PetCharacter ----------------------------
(* The astronaut of the web client: the character object of pet-agent.ts     *)
(* (activity, speech, expression, queue of motions, each with its timer) and  *)
(* the effects of pet.tsx that drive it from the conversation's run, from the *)
(* searches of its panel and from its two forms.  React renders a change of a *)
(* store and runs the effects before the next task, so a change and the       *)
(* effects it sets off are one action (`Settled`); timers, clicks and the      *)
(* answers of the server come in any order between them.                      *)
EXTENDS Naturals, Sequences, FiniteSets

CONSTANTS Sessions,      \* conversations
          NoSession,     \* no conversation
          MaxRuns,       \* bound: runs started
          MaxSearches,   \* bound: searches started from the panel
          MaxPlays       \* bound: motions, expressions and changes of form begun by hand or by the idle timer

ASSUME PetAssumption == NoSession \notin Sessions

VARIABLES pet, work
petVars == <<pet, work>>

RunActivities == {"thinking", "working", "answering"}
Activities    == RunActivities \cup {"idle", "searching", "done", "error"}
Motions       == {"idle", "wave", "jump", "fly", "roam", "dance"}
Tones         == {"none", "active", "success", "error"}

(***************************************************************************)
(* The character (pet-agent.ts).                                           *)
(***************************************************************************)
Quiet(p)      == [p EXCEPT !.speech = "none", !.speechTimer = FALSE]
Unmasked(p)   == [p EXCEPT !.face = FALSE, !.faceTimer = FALSE]
PetStill(p)      == [p EXCEPT !.queue = <<>>, !.motionTimer = FALSE]
Interrupted(p) == [PetStill(p) EXCEPT !.motion = "idle"]

Rested(p) == [Quiet(Interrupted(Unmasked(p))) EXCEPT !.activityTimer = FALSE, !.activity = "idle"]

Tone(a) == CASE a = "done"  -> "success"
             [] a = "error" -> "error"
             [] OTHER       -> "active"

Said(p, tone, timed) == [p EXCEPT !.speech = tone, !.speechTimer = timed]

Occupied(p, a, timed) ==
  [Said(Interrupted(Unmasked(p)), Tone(a), timed) EXCEPT !.activity = a, !.activityTimer = timed]

\* The next motion of the queue, each with a timer of its own.
Started(p) ==
  IF p.queue = <<>> THEN [p EXCEPT !.motion = "idle"]
  ELSE [p EXCEPT !.motion = Head(p.queue), !.queue = Tail(p.queue), !.motionTimer = TRUE]

Moved(p, motions) == Started([PetStill(p) EXCEPT !.queue = motions])

Completed(p) == Moved(Occupied(p, "done", TRUE), <<"jump", "wave">>)
Failed(p)    == Occupied(p, "error", TRUE)
Emoted(p)    == [p EXCEPT !.face = TRUE, !.faceTimer = TRUE]

(***************************************************************************)
(* What the component sees of the conversations: the run of whichever       *)
(* session has one, and otherwise the session in front.                     *)
(***************************************************************************)
Running(w)   == w.run # NoSession
ShowsFailure(w) == ~Running(w) /\ w.front \in w.failed
MayAct       == ~Running(work) /\ pet.motion = "idle"

Landed(p) == IF p.form = "launching" /\ p.motion # "fly" THEN [p EXCEPT !.form = "idle"] ELSE p

Seen(p, w) ==
  IF w.inView /\ ~Running(w) /\ (p.activity = "done" \/ p.speech = "active")
  THEN Rested(p) ELSE p

\* The effect that follows the run: busy while one runs; at its end silent
\* when an answer is in view, and otherwise one announcement for each run.
\* Mutant: an announcement is remembered for the session, not for its run.
ToldBySession(p, w) ==
  IF Running(w) THEN Occupied(p, w.doing, FALSE)
  ELSE IF ~w.was \/ (~w.inView /\ \E k \in w.told : k[1] = w.key[1]) THEN p
  ELSE IF w.inView THEN Rested(p)
  ELSE IF ShowsFailure(w) THEN Failed(p) ELSE Completed(p)
Followed(p, w) ==
  IF Running(w) THEN Occupied(p, w.doing, FALSE)
  ELSE IF ~w.was \/ (~w.inView /\ w.key \in w.told) THEN p
  ELSE IF w.inView THEN Rested(p)
  ELSE IF ShowsFailure(w) THEN Failed(p) ELSE Completed(p)

Noted(w) ==
  [w EXCEPT !.was  = Running(w),
            !.told = IF w.was /\ ~Running(w) /\ ~w.inView THEN w.told \cup {w.key} ELSE w.told]

\* A change of the conversations, and the effects it sets off.
Settled(p, w) == /\ pet'  = Landed(Seen(Followed(p, w), w))
                 /\ work' = Noted(w)
\* A change of the character alone.
Shown(p) == pet' = Landed(Seen(p, work))

PetCharacterInit ==
  /\ pet = [activity |-> "idle", activityTimer |-> FALSE, motion |-> "idle", queue |-> <<>>,
            motionTimer |-> FALSE, speech |-> "none", speechTimer |-> FALSE,
            face |-> FALSE, faceTimer |-> FALSE, form |-> "idle", formTimer |-> FALSE,
            collapsed |-> TRUE]
  /\ \E s \in Sessions, seen, reduced \in BOOLEAN :
       work = [run |-> NoSession, doing |-> "thinking", key |-> <<s, 0>>, front |-> s, failed |-> {},
               inView |-> seen, was |-> FALSE, told |-> {}, search |-> "none",
               runs |-> 0, searches |-> 0, plays |-> 0, reduced |-> reduced]

(***************************************************************************)
(* The conversations.                                                      *)
(***************************************************************************)
RunStarts ==
  /\ ~Running(work) /\ work.runs < MaxRuns
  /\ LET s == work.front
     IN  Settled(pet, [work EXCEPT !.run = s, !.doing = "thinking", !.key = <<s, work.runs + 1>>,
                                   !.failed = @ \ {s}, !.runs = @ + 1])

RunSteps == \E d \in RunActivities \ {work.doing} :
  Running(work) /\ Settled(pet, [work EXCEPT !.doing = d])

RunEnds == \E bad \in BOOLEAN :
  /\ Running(work)
  /\ Settled(pet, [work EXCEPT !.run = NoSession, !.doing = "thinking",
                               !.failed = IF bad THEN @ \cup {work.run} ELSE @])

\* Another conversation comes to the front; a page or a section shows answers or not.
OpenSession == \E s \in Sessions \ {work.front} : Settled(pet, [work EXCEPT !.front = s])
Look        == Settled(pet, [work EXCEPT !.inView = ~@])

(***************************************************************************)
(* The searches of the panel.  A search that another surface supersedes, or *)
(* that choosing a source clears, calls the panel back no more.             *)
(***************************************************************************)
SearchStarts ==
  /\ work.searches < MaxSearches
  /\ work' = [work EXCEPT !.search = "here", !.searches = @ + 1]
  /\ Shown(Occupied(pet, "searching", FALSE))
SearchEnds ==
  /\ work.search = "here"
  /\ work' = [work EXCEPT !.search = "none"]
  /\ \E p \in {Completed(pet), Failed(pet), Rested(pet)} : Shown(p)
SearchLost ==
  /\ work.search = "here"
  /\ work' = [work EXCEPT !.search = "lost"]
  /\ UNCHANGED pet

(***************************************************************************)
(* Timers and play.                                                        *)
(***************************************************************************)
SpeechEnds == pet.speechTimer /\ Shown(Quiet(pet)) /\ UNCHANGED work
ActivityEnds == /\ pet.activityTimer
                /\ Shown(Rested(pet))
                /\ UNCHANGED work
FaceEnds   == pet.faceTimer /\ Shown(Unmasked(pet)) /\ UNCHANGED work
MotionEnds == pet.motionTimer /\ Shown(Started([pet EXCEPT !.motionTimer = FALSE])) /\ UNCHANGED work

Plays(p) == /\ work.plays < MaxPlays
            /\ work' = [work EXCEPT !.plays = @ + 1]
            /\ Shown(p)

Play == \E m \in Motions \ {"idle"} :
  /\ MayAct /\ ~work.reduced
  /\ Plays(Moved(pet, <<m>>))
MakeFace ==
  /\ pet.activity = "idle" /\ pet.motion = "idle" /\ ~pet.face /\ ~work.reduced
  /\ Plays(Emoted(pet))

\* From the head to the whole figure: burst, fall, and a launch when nothing else goes on.
Expand ==
  /\ pet.collapsed /\ pet.form = "idle"
  /\ Plays(IF work.reduced THEN [pet EXCEPT !.collapsed = FALSE]
           ELSE [pet EXCEPT !.form = "bursting", !.formTimer = TRUE])
Collapse ==
  /\ ~pet.collapsed
  /\ Plays([pet EXCEPT !.form = "idle", !.formTimer = FALSE, !.collapsed = TRUE])
Falls ==
  /\ pet.formTimer /\ pet.form = "bursting"
  /\ Shown([pet EXCEPT !.form = "falling"])
  /\ UNCHANGED work
\* Mutant: the launch begins whatever the character is doing.
LaunchesAnyway ==
  /\ pet.formTimer /\ pet.form = "falling"
  /\ LET p == Emoted([pet EXCEPT !.formTimer = FALSE, !.collapsed = FALSE])
     IN  Shown(Moved([p EXCEPT !.form = "launching"], <<"fly">>))
  /\ UNCHANGED work
Launches ==
  /\ pet.formTimer /\ pet.form = "falling"
  /\ LET p == Emoted([pet EXCEPT !.formTimer = FALSE, !.collapsed = FALSE])
     IN  IF p.activity = "idle" /\ p.motion = "idle"
         THEN Shown(Moved([p EXCEPT !.form = "launching"], <<"fly">>))
         ELSE Shown([p EXCEPT !.form = "idle"])
  /\ UNCHANGED work

PetTimers == SpeechEnds \/ ActivityEnds \/ FaceEnds \/ MotionEnds \/ Falls \/ Launches
PetCharacterNext ==
  \/ RunStarts \/ RunSteps \/ RunEnds \/ OpenSession \/ Look
  \/ SearchStarts \/ SearchEnds \/ SearchLost
  \/ Play \/ MakeFace \/ Expand \/ Collapse \/ PetTimers

PetCharacterSpec == PetCharacterInit /\ [][PetCharacterNext]_petVars

(***************************************************************************)
(* Properties.                                                             *)
(***************************************************************************)
PetTypeOK ==
  /\ pet \in [activity : Activities, activityTimer : BOOLEAN, motion : Motions,
              queue : {<<>>, <<"wave">>}, motionTimer : BOOLEAN, speech : Tones,
              speechTimer : BOOLEAN, face : BOOLEAN, faceTimer : BOOLEAN,
              form : {"idle", "bursting", "falling", "launching"}, formTimer : BOOLEAN,
              collapsed : BOOLEAN]
  /\ work.run \in Sessions \cup {NoSession} /\ work.front \in Sessions /\ work.failed \subseteq Sessions
  /\ work.search \in {"none", "here", "lost"} /\ work.doing \in RunActivities

\* Whatever has an end has the timer that brings it: a motion and its queue, an
\* announcement and its words, an expression, the first half of a change of
\* form; a launch lasts exactly as long as its flight (pet-agent.ts, pet.tsx).
NothingLingers ==
  /\ pet.motionTimer <=> pet.motion # "idle"
  /\ pet.queue # <<>> => pet.motionTimer
  /\ pet.activityTimer <=> pet.activity \in {"done", "error"}
  /\ pet.speech \in {"success", "error"} => pet.speechTimer
  /\ pet.face => pet.faceTimer
  /\ pet.formTimer <=> pet.form \in {"bursting", "falling"}
  /\ pet.form = "launching" => pet.motion = "fly"

\* The character looks busy with an answer only while a run goes on, and the
\* tricks of idle time never run under it (pet.tsx, the run effect).
BusyWithARun ==
  /\ pet.activity \in RunActivities => Running(work)
  /\ pet.activity \in RunActivities => pet.motion = "idle"

\* What the character does, says and queues agrees with its timers and its run
\* (pet-agent.ts, the effects of pet.tsx).
PetConsistent == PetTypeOK /\ NothingLingers /\ BusyWithARun

\* A run that ends where no answer is in view is announced: the memory of what
\* was announced never swallows a later run of the same conversation.
RunEndIsTold ==
  [][ (Running(work) /\ ~Running(work') /\ ~work.inView)
        => pet'.activity \in {"done", "error"} /\ pet'.activityTimer ]_petVars
=============================================================================
