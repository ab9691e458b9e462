\* Files that mix line endings, edited next to a lone carriage return.
SPECIFICATION Spec
CONSTANTS
    a = a
    aTrail = aTrail
    aLead = aLead
    aFancy = aFancy
    b = b
    Blank = Blank
    None = None
    Lines <- MCLines
    Look <- MCLook
    Updates <- MixedUpdates
INVARIANTS
    LinesReadBack
