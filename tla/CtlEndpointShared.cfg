SPECIFICATION EpSpec
CONSTANTS
    NumRuntimes = 2
    NumExplicit = 1
    SharedPath = TRUE
    MaxLife = 2
INVARIANT EndpointReachable
