SPECIFICATION Spec
CONSTANTS
    Ifaces <- MCIfaces
    AppIfaces <- MCAppIfaces
    Files <- MCFiles
    Netids = {n1, n2}
    Packages <- MCPackages
    MaxUid = 6
    Batch = 2
    RouteMtu <- MCRouteMtu
    Binder = TRUE
    MaxFaults = 1
    None = None
SYMMETRY Symmetry
PROPERTIES
    UpComplete
    UsersExact
    FailureClean
    DownComplete
    OthersUntouched
