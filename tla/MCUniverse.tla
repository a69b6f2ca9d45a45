------------------------------ MODULE MCUniverse ------------------------------
(***************************************************************************)
(* The three ways the graph of the universe is fed, each on its small      *)
(* instance: browsing a timeline, answers and searches, and the working    *)
(* set below them.  One of them is chosen at the start and runs alone; the *)
(* others keep one initial state.                                          *)
(***************************************************************************)
EXTENDS UniverseTimeline, SearchWorkspace, UniverseWorkingSet

-----------------------------------------------------------------------------
\* Timelines: a scenario opens one or two disturbances.
Settings(visible, page, pages, capacity) ==
    [visible |-> visible, page |-> page, pages |-> pages, capacity |-> capacity]

Bound(events, ghost, settings, acts, budget) ==
    [events |-> events, ghost |-> ghost, settings |-> settings, acts |-> acts, budget |-> budget]

MCScenarios ==
    { Bound(9, TRUE, <<Settings(2, 2, 1, 7)>>, {"lock", "error", "capacity"}, 3),
      Bound(7, FALSE, <<Settings(2, 1, 1, 4)>>, {"play", "lock"}, 4),
      Bound(8, FALSE, <<Settings(1, 2, 1, 6), Settings(3, 2, 1, 8), Settings(2, 2, 1, 7)>>,
            {"config", "filter", "error"}, 4),
      Bound(8, FALSE, <<Settings(2, 3, 0, 5)>>, {"capacity", "origin", "lock"}, 3),
      Bound(6, FALSE, <<Settings(2, 2, 1, 7)>>, {"context", "suspend", "error"}, 4),
      Bound(5, TRUE, <<Settings(2, 2, 1, 7)>>, {"snapshot", "manifest", "context"}, 4),
      Bound(6, FALSE, <<Settings(2, 1, 1, 5)>>, {"activate", "home", "origin"}, 3) }

-----------------------------------------------------------------------------
\* Sessions: four events, answers and searches that share parts of them, one
\* source with a timeline of two places, an entity whose events come in two pages.
Tale(event, entities) == [event |-> event, entities |-> entities]

MCAnswers == { <<Tale(1, {11}), Tale(2, {12})>>, <<Tale(3, {11}), Tale(1, {11, 12}), Tale(4, {})>> }
MCBrowseScene == << << <<Tale(1, {11})>>, <<Tale(1, {11}), Tale(2, {12})>> >> >>
MCExpansionPages == [node \in {11} |-> << <<Tale(1, {11}), Tale(3, {11})>>, <<Tale(4, {11})>> >>]
MCSceneSettings == << [window |-> 2, transition |-> 1, cache |-> 3],
                      [window |-> 1, transition |-> 2, cache |-> 2] >>
MCQueries == {1, 2}
MCSearchHits == [q \in MCQueries |-> << <<Tale(q + 1, {11})>>,
                                       <<Tale(q + 1, {11}), Tale(4, {12})>> >>]
MCJourneys ==
    { [acts |-> {"browse", "panel", "answer", "expand"}, left |-> 5],
      [acts |-> {"browse", "lock", "panel", "search"}, left |-> 4],
      [acts |-> {"search"}, left |-> 4],
      [acts |-> {"answer", "settings", "expand"}, left |-> 5] }

-----------------------------------------------------------------------------
\* The working set: three pages, expansions that overlap them, two budgets.
Ev(id, e, ents) == [id |-> id, origin |-> "timeline", anchor |-> 0, root |-> 0, epoch |-> 1,
                    nodes |-> <<e>> \o ents, rels |-> [i \in DOMAIN ents |-> <<e, ents[i]>>], ver |-> 1]
Ex(id, n, others, rels) == [id |-> id, origin |-> "expansion", anchor |-> n, root |-> 0, epoch |-> 1,
                    nodes |-> <<n>> \o others, rels |-> rels, ver |-> 1]
MCTimelinePages == << <<Ev(1, 1, <<11, 12>>)>>, <<Ev(2, 2, <<12>>), Ev(3, 3, <<13>>)>>, <<Ev(4, 4, <<11>>)>> >>
MCExpansionOffers == { Ex(21, 12, <<5, 13>>, <<<<5, 12>>, <<5, 13>>>>),
                       Ex(22, 13, <<6>>, <<<<6, 13>>>>),
                       Ex(23, 5, <<14>>, <<<<5, 14>>>>),
                       Ex(22, 13, <<7>>, <<<<7, 13>>>>),
                       Ex(24, 13, <<6, 7>>, <<<<6, 13>>>>) }
MCActivations == { [nodes |-> <<1, 11, 8, 15>>, rels |-> <<<<1, 11>>, <<8, 11>>, <<1, 8>>, <<8, 16>>>>] }
MCBudgets == << [nodes |-> 7, edges |-> 6], [nodes |-> 5, edges |-> 4] >>
MCWindow == [cache |-> 2, visible |-> 1, events |-> 3, perEvent |-> 2]

-----------------------------------------------------------------------------
VARIABLE part
universeVars == <<vars, searchVars, facts, part>>

UniverseInit ==
    /\ part \in {"timeline", "session", "facts"}
    /\ Init /\ (part # "timeline" => world.bound = CHOOSE b \in Scenarios : TRUE)
    /\ SessionInit /\ (part # "session" => journey = CHOOSE j \in Journeys : TRUE)
    /\ FactsInit

UniverseNext ==
    \/ part = "timeline" /\ Next /\ UNCHANGED <<searchVars, facts, part>>
    \/ part = "session" /\ SessionNext /\ UNCHANGED <<vars, facts, part>>
    \/ part = "facts" /\ FactsNext /\ UNCHANGED <<vars, searchVars, part>>

UniverseSpec == UniverseInit /\ [][UniverseNext]_universeVars /\ Fairness
=============================================================================
