SPECIFICATION FairSpec
CONSTANTS
    Clients <- MCClients
    Jobs = {j1}
    None = None
INVARIANTS
    RoomsAgree
    ActiveJoined
PROPERTY ConnectChatSettles
CHECK_DEADLOCK FALSE
