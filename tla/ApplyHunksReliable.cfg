\* The patches and trees of ApplyHunksFaults and more, through a host or the
\* executable, on a storage that fails only where the tree says so.
SPECIFICATION CallSpec
CONSTANTS
    junk = junk
    sub = sub
    gone = gone
    r1 = r1
    r2 = r2
    r3 = r3
    BeginPatch = BeginPatch
    EndPatch = EndPatch
    HeredocStart = HeredocStart
    HeredocEnd = HeredocEnd
    BlankLine = BlankLine
    OtherLines = {junk}
    Stripped <- MCStripped
    Lower <- MCLower
    Callers <- MCCallers
    Under <- MCUnder
    Disturbances <- MCDisturbances
    MaxDisturbances = 1
    near = near
    other = other
    far = far
    bad = bad
    here = here
    there = there
    t1 = t1
    t2 = t2
    Outside = outside
    None = None
    Binary = Binary
    Directory = Directory
    Link = Link
    Regular = Regular
    Failed = Failed
    Paths <- MCPaths
    Dirs <- MCDirs
    Parent <- MCParent
    Texts <- MCCallTexts
    Edits <- MCCallEdits
    InitialDirs = {here}
    Unresolvable = {bad}
    FollowSymlinks = {TRUE, FALSE}
    StorageMayFail = FALSE
    Hunks <- MCCallHunks
    Patches = {}
    InitialTrees <- AllMCTrees
INVARIANTS
    CallTypeOK
    StopsOnlyWhereItMust
    ExactUnlessOpaque
    PredictionIsWhatHappens
    PreviewMatchesDelta
    VerifiedPatchesApply
    AppliedIsVerified
    InterceptionAgrees
    ExitCodeTellsOutcome
