SPECIFICATION SocketSpec
CONSTANTS
    Servers = {s1, s2}
    Inodes = {1, 2, 3}
    NoNode = NoNode
    Replacing = FALSE
    MaxDeaths = 1
INVARIANT
    LiveSocketsStay
CHECK_DEADLOCK FALSE
