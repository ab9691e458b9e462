\* Chunks with and without the end-of-file marker.
SPECIFICATION Spec
CONSTANTS
    a = a
    aTrail = aTrail
    aLead = aLead
    aFancy = aFancy
    b = b
    Blank = Blank
    None = None
    Lines <- MCLines
    Look <- MCLook
    Updates <- AllUpdates
INVARIANTS
    EndOfFileFallsBack
