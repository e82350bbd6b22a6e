CONSTANTS
    a1 = a1
    a2 = a2
    s1 = s1
    s2 = s2
    s3 = s3
    Actuators <- OneActuator
    EnableDuration = 1
    OperatorCodes <- ArmRunStop
    ZeroRequests <- ZeroAll
    Blocks <- OneStore
    Stamps <- MCStamps
    ZeroStamp = ZeroStamp
    NoStamp = NoStamp
    DirectTx = FALSE
    Faults = {"task"}
SPECIFICATION FairSpec
PROPERTIES
    CommandNotHeldForever
