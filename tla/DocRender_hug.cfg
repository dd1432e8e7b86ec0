SPECIFICATION Spec
CONSTANTS
    Shapes <- HugShapes
    Arena <- Nodes
    Fitting <- Fits
    MustBreak <- WillBreak
    EdgeOf <- Edge
    WordsOf <- SpelledWords
    Widths = {4}
    TabWidth = 2
INVARIANTS
    PassThroughFits
