SPECIFICATION CkSpec
CONSTANTS
    Layers = 2
    MaxSteps = 3
    MaxSaves = 2
PROPERTY RestoreIsTheSave
CHECK_DEADLOCK FALSE
