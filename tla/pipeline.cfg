SPECIFICATION Spec
CONSTANTS
    Ids <- MCIds
    Input <- MCInput
    Output <- MCOutput
    Default <- MCDefault
    Postures <- MCPostures
    Pads <- MCPads
    Net <- MCNet
INVARIANTS BatchComplete EachJointItsOwn
PROPERTIES  ReleaseIsSeen
CHECK_DEADLOCK FALSE
