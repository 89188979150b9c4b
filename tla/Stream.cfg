CONSTANTS
    Connections = {c1}
    c1 = c1
    Commands = {move}
    move = move
    Acceptable = {move}
    Refusable = {move}
    None = None
    MaxLog = 2
    MaxTick = 1
    MaxQueue = 1
    Sweeping = TRUE
    Lagging = TRUE
    Started = 0
SYMMETRY Interchangeable
SPECIFICATION Spec
INVARIANTS TypeOK AppliedOnce EventsBringTheirState
