SPECIFICATION Spec
CONSTANTS
    None = None
    MaxUnits = 3
    MaxSteps = 3
    MaxBalance = 14
    MaxEdits = 1
    MapDocuments <- MCMaps
    ScenarioDocuments <- MCScenarios
    Games <- MCGames
    Actors <- MCActors
    Variants <- MCVariants
INVARIANT
    TypeOK
    ExportsOpen
    DigestNamesState
    OpensWhatWasSaved
    ScenariosOpen
CHECK_DEADLOCK FALSE
