CONSTANTS
    p = p
    q = q
    rider = rider
    boat = boat
    caravan = caravan
    relic = relic
    ghost = ghost
    mask = mask
    None = None
    Cols = 6
    Rows = 1
    Players = {p, q}
    Units = {rider, boat, caravan, relic}
    Artifacts = {mask}
    Cities = {}
    UnitIds = {rider, boat, caravan, relic, ghost}
    Owner <- MCOwner
    MovementDomain <- MCDomain
    Maximum <- MCMaximum
    ArtifactMaximum <- MCArtifactMaximum
    Defined = {rider, boat, caravan}
    Traders = {caravan}
    CityOwner <- MCCityOwner
    CityCenter <- MCCityOwner
    CityHexes <- MCCityOwner
    RoadOwners <- MCRoadOwners
    TileTerrain <- MCTerrain
    MaxCost = 100
    MovementLimit = 14
    Stacking = TRUE
    InitialGames <- MCInitialGames
    MaxRevision = 4
SPECIFICATION Spec
INVARIANTS NoFault ContactsComplete PlansExecute OverlayMatchesPlan QueriesBlindToHidden
