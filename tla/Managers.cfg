SPECIFICATION Spec
CONSTANTS
    f = f  g = g  a = a  b = b  n1 = n1  n2 = n2  ea = ea
    X = X  Y = Y  Big = Big  on = on  off = off  blk1 = blk1  blk2 = blk2
    Blocks = {blk1}
    Funcs = {f, g}
    LastMaturity = 3
    PipelineMaturity = 2
    Passes = 1
    FlowRules = {a}
    Priority <- HighFirst
    NeedDispatcher = {}
    BasePasses = 2
    ScaledPasses <- Sizes
    Addresses = {ea}
    Nodes = {n1}
    AddressOf <- OneAddress
    Nested <- Inside
    Forms = {X, Y, Big}
    Size <- FormSize
    Rewrites <- Circle
    Answers = {on, off}
    Active <- Everywhere
    NoRules = off
CHECK_DEADLOCK FALSE
INVARIANTS TypeOK PipelineOnce RulesOffAfterPipeline NamesAreCurrent
PROPERTIES QuietAfterFailure EveryPassEnds
