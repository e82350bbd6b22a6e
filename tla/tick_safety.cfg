CONSTANTS
    a1 = a1
    a2 = a2
    s1 = s1
    s2 = s2
    s3 = s3
    Actuators <- MCActuators
    EnableDuration = 1
    OperatorCodes <- DashboardCodes
    ZeroRequests <- ZeroAllOrOne
    Blocks <- Vectors
    Stamps <- MCStamps
    ZeroStamp = ZeroStamp
    NoStamp = NoStamp
    DirectTx = FALSE
    Faults = {"send"}
SPECIFICATION Spec
SYMMETRY ActuatorSymmetry
INVARIANTS
    TypeOK
    NoPolicyInCutModes
    
PROPERTIES
    
    ImplementsDriveAuthority
