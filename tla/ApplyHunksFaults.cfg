\* Every pair of hunks and chains of three, on every kind of tree;
\* any storage call may fail, and every call returns.
SPECIFICATION FairSpec
CONSTANTS
    near = near
    other = other
    far = far
    bad = bad
    here = here
    there = there
    t1 = t1
    t2 = t2
    Outside = outside
    None = None
    Binary = Binary
    Directory = Directory
    Link = Link
    Regular = Regular
    Failed = Failed
    Paths <- MCPaths
    Dirs <- MCDirs
    Parent <- MCParent
    Texts <- MCTexts
    Edits <- MCEdits
    InitialDirs = {here}
    Unresolvable = {bad}
    FollowSymlinks = {TRUE, FALSE}
    StorageMayFail = TRUE
    Hunks <- MCHunks
    Patches <- PairAndChainPatches
    InitialTrees <- AllMCTrees
INVARIANTS
    TypeOK
    ExactDeltaIsTheWholeStory
    HunksTakeEffectInOrder
    MoveNeverLosesText
    LinksAreLeftAlone
    SummaryAgreesWithDelta
PROPERTIES
    ImplementsDeltaJournal
    Terminates
