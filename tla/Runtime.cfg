CONSTANTS
    p = p
    q = q
    ranger = ranger
    cannon = cannon
    scout = scout
    ghost = ghost
    crown = crown
    port = port
    None = None
    Cols = 3
    Rows = 2
    Players = {p, q}
    Units = {ranger, cannon, scout}
    Artifacts = {crown}
    Cities = {port}
    UnitIds <- MCUnitIds
    Owner <- MCOwner
    MovementDomain <- MCDomain
    Maximum <- MCMaximum
    ArtifactMaximum <- MCArtifactMaximum
    Defined = {ranger, cannon, scout}
    Traders = {}
    CityOwner <- MCCityOwner
    CityCenter <- MCCityCenter
    CityHexes <- MCCityHexes
    RoadOwners <- MCRoadOwners
    TileTerrain <- MCTerrain
    MaxCost = 100
    MovementLimit = 14
    Stacking = FALSE
    Openings <- MCOpenings
    Questions <- MCQuestions
    Orders <- MCOrders
    MaxOffset = 2
    MaxEntries = 2
    MaxRevision = 3
SPECIFICATION Spec
INVARIANTS TypeOK ReplayVerifies
PROPERTIES KeepsPromise PatchCarriesView
VIEW State
