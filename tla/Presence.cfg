SPECIFICATION HistorySpec
CONSTANTS
    p = p
    q = q
    c1 = c1
    c2 = c2
    c3 = c3
    t1 = t1
    t2 = t2
    s1 = s1
    s2 = s2
    None = None
    Users = {p, q}
    Connections = {c1, c2, c3}
    Tokens = {t1, t2}
    Servers = {s1, s2}
    UserOf <- StreamsOf
    Lobbies <- LobbyKinds
    Creator = p
    MinPlayers = 2
    InitialLease = 1
    ConnectedLease = 1
    ReconnectLease = 1
    Countdown = 1
    TurnTimeout = 1
    InactivityTimeout = 2
    NextDelay = 1
    RecoveryDelay = 1
    Setups <- SetupsLookedAt
INVARIANTS
    LeasesFollowMembership
PROPERTIES
    TakenOnlyWhenLost
    TurnsAreAttended
    AbandonedOnlyIdle
    LapsedIsSwept
