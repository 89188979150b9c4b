CONSTANTS
    p = p
    q = q
    ranger = ranger
    cannon = cannon
    scout = scout
    ghost = ghost
    crown = crown
    port = port
    None = None
    Cols = 3
    Rows = 2
    Players = {p, q}
    Units = {ranger, cannon, scout}
    Artifacts = {crown}
    Cities = {port}
    UnitIds <- MCUnitIds
    Owner <- MCOwner
    MovementDomain <- MCDomain
    Maximum <- MCMaximum
    ArtifactMaximum <- MCArtifactMaximum
    Defined = {ranger, cannon, scout}
    Traders = {}
    CityOwner <- MCCityOwner
    CityCenter <- MCCityCenter
    CityHexes <- MCCityHexes
    RoadOwners <- MCRoadOwners
    TileTerrain <- MCTerrain
    MaxCost = 300
    MaxSteps = 300
    MovementLimit = 14
    Stacking = FALSE
    InitialGames <- MCInitialGames
    MaxRevision = 4
    MaxAsked = 0
SPECIFICATION PlannedSpec
PROPERTY SkipIsReversible
