\* a stop signal while the controller starts; nothing else goes wrong
CONSTANTS
    Configs <- MCConfigs
    Windowed = {"task_controller"}
    Requests = {}
    MaxLaunches = 3
    MaxRequests = 0
    MaxBoots = 1
    Faults = {"early"}
SPECIFICATION FairSpec
PROPERTY SignalEndsController
CHECK_DEADLOCK FALSE
