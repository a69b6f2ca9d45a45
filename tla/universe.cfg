SPECIFICATION UniverseSpec
CONSTANTS
    Scenarios <- MCScenarios
    Answers <- MCAnswers
    BrowseScene <- MCBrowseScene
    ExpansionPages <- MCExpansionPages
    SceneSettings <- MCSceneSettings
    Queries <- MCQueries
    MaxTopK = 2
    SearchHits <- MCSearchHits
    Journeys <- MCJourneys
    FactEvents = {1, 2, 3, 4, 5, 6, 7, 8}
    TimelinePages <- MCTimelinePages
    ExpansionOffers <- MCExpansionOffers
    FactActivations <- MCActivations
    FactBudgets <- MCBudgets
    FactWindow <- MCWindow
CHECK_DEADLOCK FALSE
INVARIANTS TimelineConsistent SessionConsistent FactsConsistent
PROPERTIES FocusStays  ExplorationRestored 
