\* The parser on every sequence of up to MaxLines accepted lines, with any
\* number of rejected lines and calls of finish in between.
CONSTANTS
    f = f
    g = g
    x = x
    Blank = Blank
    MarkerText = MarkerText
    None = None
    Names = {f, g}
    Lines <- MCLines
    InputLines <- MCInputLines
    MaxLines = 7

SPECIFICATION Spec

INVARIANTS
    TypeOK
    FinishedUpdatesAreWhole
    SectionsAreAligned
    EveryLineIsInItsHunk

PROPERTIES
    ShownHunksStay
    EnvironmentIsFixed
    EndOfFileClosesSection
