\* Chunks with blank context lines, at the end of short files.
SPECIFICATION Spec
CONSTANTS
    a = a
    aTrail = aTrail
    aLead = aLead
    aFancy = aFancy
    b = b
    Blank = Blank
    None = None
    Lines <- MCLines
    Look <- MCLook
    Updates <- AllUpdates
INVARIANTS
    ContextIsKept
