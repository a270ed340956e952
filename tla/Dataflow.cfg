SPECIFICATION Spec
CONSTANTS
    x = x  y = y  c1 = c1  c2 = c2
    Nodes = {0, 1, 2, 3}
    Entry = 0
    Vars = {x, y}
    Consts = {c1, c2}
    Top = Top
    Programs <- MCPrograms
    MaxDefs = 2
    MaxIterations = 24
INVARIANTS TypeOK FactsHold
PROPERTIES Converges
CHECK_DEADLOCK FALSE
