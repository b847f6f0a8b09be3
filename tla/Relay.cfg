CONSTANTS
    Session = {host, guest}
    Host = host
    MaxConns = 3
    Writers = {guest}
    None = None
    Null = Null
    MaxPlayers = 2
    WaitSeconds = 2
    MaxWrites = 1
SPECIFICATION Spec
INVARIANTS
    TypeOK
    
    PlayersSeated
    FullIsLocked
    AwayIsWaitedFor
CHECK_DEADLOCK FALSE
