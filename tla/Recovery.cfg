CONSTANTS
    Connections = {c1,c2}
    c1 = c1
    c2 = c2
    Commands = {move}
    move = move
    Acceptable = {move}
    Refusable = {}
    None = None
    MaxLog = 3
    MaxTick = 1
    MaxQueue = 1
    Sweeping = FALSE
    Lagging = FALSE
    Started = 1
SPECIFICATION FairSpec
INVARIANTS QuietIsCurrent
PROPERTIES OffsetsAreMonotonic Recovers
