CONSTANTS
    Connections = {c1,c2}
    c1 = c1
    c2 = c2
    Commands = {move}
    move = move
    Acceptable = {move}
    Refusable = {move}
    None = None
    MaxLog = 2
    MaxTick = 2
    MaxQueue = 1
    Sweeping = FALSE
    Lagging = TRUE
    Started = 0
SYMMETRY Interchangeable
SPECIFICATION Spec
INVARIANTS AppliedOnce AnswersAreTrue PresenceFollowsStreams
PROPERTIES EchoesAreOwn NoEventIsMissed
