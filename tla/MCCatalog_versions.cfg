SPECIFICATION Spec
CONSTANTS
    Indexes <- MCIndexes
    MaxUint = 99
    MaxVersions = 4
CHECK_DEADLOCK FALSE
INVARIANTS
    CatalogTypeOK
    SameReleases
    NewestFirst
    ReleasesFirst
