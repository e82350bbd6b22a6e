CONSTANTS
    controller = controller
    dashboard = dashboard
    Clients <- MCClients
    Reconnecting <- MCReconnecting
    QueueSize = 1
    OnFull = {"wait", "refuse"}
    MaxFrames = 1
    NoFrame = NoFrame
    Faults = {"bus", "accept", "join", "kill"}
SPECIFICATION FairSpec
INVARIANTS
    TypeOK
    NoOvertaking
    RefusedIsNotSent
    AckedIsAccounted
PROPERTIES
    ImplementsFrameLine
    EveryCallReturns
    AckedIsTransmitted
    SignalEndsDaemon
