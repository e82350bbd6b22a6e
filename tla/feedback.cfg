SPECIFICATION FairSpec
CONSTANTS
    Motors = {m1}
    Commands = {"enter"}
    Timeout = 0
    StaleTimeout = 0
    Window = 0
    MaxInput = 1
    MaxSends = 1
    Faults = {"drop", "die", "bad"}
INVARIANT DeafOnlyWhenDropped
PROPERTY  SilenceIsShown
