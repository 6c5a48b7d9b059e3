SPECIFICATION Spec
CONSTANTS
    Clients <- MCClients
    Jobs = {j1}
    None = None
INVARIANT RoomsRejoined
CHECK_DEADLOCK FALSE
