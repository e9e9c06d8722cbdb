\* Three commands on two connections, one of them behind a tunnel, with fairness.
CONSTANTS
    NoConn = NoConn
    NoCommand = NoCommand
    Conns = {c1, c2}
    Ssh = {c2}
    Commands = {k1, k2, k3}
SPECIFICATION FairSpec
INVARIANTS
    ConnectedIsUsable
    SessionHonoursFlag
    ConnectingIsUnderway
    RegistryFollowsStore
PROPERTIES
    ToolKeepsTunnel
    EveryCommandEnds
