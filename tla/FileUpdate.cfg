\* Files of up to three lines; one chunk of every shape, or two short ones.
SPECIFICATION Spec
CONSTANTS
    a = a
    aTrail = aTrail
    aLead = aLead
    aFancy = aFancy
    b = b
    Blank = Blank
    None = None
    Lines <- MCLines
    Look <- MCLook
    Updates <- AllUpdates
INVARIANTS
    TypeOK
    NeverOverlap
    ResultIsTheSplice
    EndOfFileChunksReachTheEnd
