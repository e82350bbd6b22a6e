CONSTANTS
    Motors = {1}
    Timeout = 0
    MaxQueue = 1
    MaxPending = 2
    MaxFrames = 2
    Faults = {"daemon", "link"}
SPECIFICATION FairSpec
INVARIANT HintIsLastOnBus
PROPERTY SilenceTimesOut PollRecovers
