------------------------------- MODULE MCView -------------------------------
(***************************************************************************)
(* What the reader looks at, each on its small instance: the camera and    *)
(* its motions, the node that is read, the pet, and the panel beside it.   *)
(* One of them is chosen at the start and runs alone; the others keep one  *)
(* initial state.                                                          *)
(***************************************************************************)
EXTENDS UniverseScene, SceneReading, PetCharacter, PetPanel

CONSTANTS s1, s2, none, n1, n2, doc, t1

-----------------------------------------------------------------------------
\* Trips of the camera.
MCTrip(reduced, acts, left) == [reduced |-> reduced, acts |-> acts, left |-> left]
MCTrips == { MCTrip(FALSE, {"enter", "back", "wheel", "grab", "hide"}, 4),
             MCTrip(TRUE, {"enter", "back", "wheel", "turn", "sync"}, 4),
             MCTrip(FALSE, {"enter", "wheel", "turn", "lock", "sync", "poll"}, 4),
             MCTrip(FALSE, {"enter", "wheel", "gather", "return", "hide"}, 5),
             MCTrip(FALSE, {"enter", "orbit", "search", "home", "leave"}, 4) }

-----------------------------------------------------------------------------
\* Trips of the reader among four nodes.
MCReadLinks == {{1, 3}, {2, 3}, {2, 4}}
MCReadTrip(acts, left, still) == [acts |-> acts, left |-> left, still |-> still]
MCReadTrips == { MCReadTrip({"hover", "keys", "click", "turn", "sync"}, 3, FALSE),
                 MCReadTrip({"click", "turn", "sync", "hide", "leave", "cards"}, 3, FALSE),
                 MCReadTrip({"assistant", "gather", "more", "home", "fail"}, 3, FALSE),
                 MCReadTrip({"assistant", "turn", "sync"}, 3, FALSE),
                 MCReadTrip({"click", "sync", "gather", "poll", "hide"}, 3, TRUE) }

-----------------------------------------------------------------------------
VARIABLE part
viewVars == <<sceneVars, readVars, petVars, panelVars, part>>

ViewInit ==
    /\ part \in {"scene", "reading", "pet", "panel"}
    /\ SceneInit /\ (part # "scene" => stage.trip = CHOOSE t \in SceneTrips : TRUE)
    /\ ReadInit /\ (part # "reading" => desk.trip = (CHOOSE t \in ReadTrips : TRUE) /\ desk.scene = {})
    /\ PetCharacterInit /\ (part # "pet" => work.front = s1 /\ work.inView /\ work.reduced)
    /\ PetPanelInit
    /\ part # "panel" => panel.path = "search" /\ panel.section = "search" /\ panel.mode = "normal"

ViewNext ==
    \/ part = "scene" /\ SceneNext /\ UNCHANGED <<readVars, petVars, panelVars, part>>
    \/ part = "reading" /\ ReadNext /\ UNCHANGED <<sceneVars, petVars, panelVars, part>>
    \/ part = "pet" /\ PetCharacterNext /\ UNCHANGED <<sceneVars, readVars, panelVars, part>>
    \/ part = "panel" /\ PetPanelNext /\ UNCHANGED <<sceneVars, readVars, petVars, part>>

ViewSpec == ViewInit /\ [][ViewNext]_viewVars /\ SceneFairness
=============================================================================
