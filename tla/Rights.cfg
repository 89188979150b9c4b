CONSTANTS
    Connections = {c1,c2}
    c1 = c1
    c2 = c2
    Commands = {move}
    move = move
    Acceptable = {move}
    Refusable = {move}
    None = None
    MaxLog = 1
    MaxTick = 1
    MaxQueue = 1
    Sweeping = TRUE
    Lagging = TRUE
    Started = 0
SYMMETRY Interchangeable
SPECIFICATION Spec
INVARIANTS KeepsRecoveryRights
