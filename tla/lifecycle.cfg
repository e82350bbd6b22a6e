\* a daemon without a window and a task controller in one; one request thread
CONSTANTS
    Configs <- MCConfigs
    Windowed = {"task_controller"}
    Requests = {r1}
    MaxLaunches = 3
    MaxRequests = 1
    MaxBoots = 2
    Faults = {"spawn", "connect", "send", "slow", "kill", "exit"}
SPECIFICATION FairSpec
   
PROPERTY StopEndsManaged StopRequestEnds
CHECK_DEADLOCK FALSE
