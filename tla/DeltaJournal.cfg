\* Two places, two texts, a place may be opaque; three recorded changes.
SPECIFICATION Spec
CONSTANTS
    Files = {f1, f2}
    Texts = {t1, t2}
    None = None
    opaque = opaque
    Nodes <- MCNodes
    MaxLog = 2
CONSTRAINT Bounded
INVARIANTS
    Consistent
