SPECIFICATION Spec
CONSTANTS
    Shapes <- PrintedShapes
    Arena <- Nodes
    Fitting <- Fits
    MustBreak <- WillBreak
    EdgeOf <- Edge
    WordsOf <- SpelledWords
    Widths = {4}
    TabWidth = 2
INVARIANTS
    WidthHonoured
    TextKept
    CommentsKept
    PassThroughFits
    NothingSwallowed
    FitsIsMeasured
    FlatIsRendered
