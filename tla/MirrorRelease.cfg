\* Pages of two releases, so that upstream publishes between two pages; two
\* failures; two runs, kept apart by the concurrency group.
SPECIFICATION FairSpec
CONSTANTS
    linux = linux
    windows = windows
    None = None
    Runs = {r1, r2}
    Archives <- MCArchives
    MacBundle = macos
    PageSize = 2
    MaxReleases = 5
    MaxFailures = 2
INVARIANTS
    TypeOK
    NoReleaseIsSkipped
    PassedReleasesAreWhole
PROPERTIES
    BaselineNeverGoesBack
    EveryReleaseIsMirrored
