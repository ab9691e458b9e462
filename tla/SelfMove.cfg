\* Single hunks: a move onto its own source among them.
SPECIFICATION Spec
CONSTANTS
    near = near
    other = other
    far = far
    bad = bad
    here = here
    there = there
    t1 = t1
    t2 = t2
    Outside = outside
    None = None
    Binary = Binary
    Directory = Directory
    Link = Link
    Regular = Regular
    Failed = Failed
    Paths <- MCPaths
    Dirs <- MCDirs
    Parent <- MCParent
    Texts <- MCTexts
    Edits <- MCEdits
    InitialDirs = {here}
    Unresolvable = {bad}
    FollowSymlinks = {FALSE}
    StorageMayFail = FALSE
    Hunks <- MCHunks
    Patches <- LastHunkPatches
    InitialTrees <- ChainTrees
INVARIANTS
    MoveDeliversContent
