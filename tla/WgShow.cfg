SPECIFICATION Spec
CONSTANTS
    Keys = {1, 2}
    None = None
    Bad = Bad
    Unresolvable = Unresolvable
    Off = Off
    NoneShown = NoneShown
    Order <- MCOrder
    Systems = {"linux", "library", "openbsd", "freebsd", "windows"}
    Commands <- MCCommands
    Starts <- MCStarts
    Devices <- MCDevices
    MaxItems = 2
    MaxChanges = 2
    Faults = TRUE
CHECK_DEADLOCK FALSE
INVARIANTS
    
    
    DumpAgrees
PROPERTIES
    Terminates
