CONSTANTS
    w1 = w1
    w2 = w2
    w3 = w3
    Words <- MCWords
    SeqMod = 4
    MaxVersion = 5
    Faults = {"writer"}
SPECIFICATION Spec
SYMMETRY WordSymmetry
PROPERTY
    AcceptedIsLatest
