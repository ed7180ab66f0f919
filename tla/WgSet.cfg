SPECIFICATION Spec
CONSTANTS
    Keys = {1, 2}
    None = None
    MarkMax = 8
    Retries = 2
    Commands <- MCCommands
    Devices <- MCDevices
    Transports = {"linux", "library", "openbsd", "freebsd", "windows", "uapi"}
    BufferSizes <- MCBufferSizes
    Roamed <- MCRoamed
    Faults = TRUE
CHECK_DEADLOCK FALSE
INVARIANTS
    TypeOK
    NoMisrouting
    SetExact
    FileExact
    Copies
PROPERTIES
    SyncKeepsPeers
    Terminates
