CONSTANTS
    leftFrontHipRoll = leftFrontHipRoll
    rightRearKneePitch = rightRearKneePitch
    Motors <- OneMotor
    CanId <- MCCanId
    MaxID = 51
    Fields = {"pos", "Kd"}
    MaxVersion = 2
    Faults = {"error", "silent", "late", "writer", "kill"}
SPECIFICATION FairSpec
INVARIANTS
    TypeOK
    NoCommandBeforeCalibration
    FramesArePublished
PROPERTIES
    CommandReachesMotor
    FeedbackIsCalibrated
    StopEnds
