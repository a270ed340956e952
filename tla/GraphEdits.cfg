CONSTANTS
    Graphs <- MCGraphs
    MaxBlocks = 7
    MaxEdits = 3
SPECIFICATION Spec
INVARIANTS
    GraphIsSound
PROPERTIES
    EditsDoWhatTheySay
CHECK_DEADLOCK FALSE
