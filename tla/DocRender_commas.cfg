SPECIFICATION Spec
CONSTANTS
    Shapes <- CommaShapes
    Arena <- Nodes
    Fitting <- Fits
    MustBreak <- WillBreak
    EdgeOf <- Edge
    WordsOf <- SpelledWords
    Widths = {6}
    TabWidth = 2
INVARIANTS
    WidthHonoured
