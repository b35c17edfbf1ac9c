SPECIFICATION Spec
CONSTANTS
    Reader = {c1, c2}
    Release = {a}
    LongPath = {}
    LastFile = 3
    Manifest = 1
    Source = 2
    Content = {Empty, x, y}
    Empty = Empty
    Absent = Absent
    Odd = Odd
    SizeOf <- MCSizeOf
    MaxFiles = 2
    MaxBytes = 3
    MaxWrites = 1
    Nobody = Nobody
    NoRelease = NoRelease
    NoArchive = NoArchive
    x = x
    y = y
SYMMETRY MCSymmetry
INVARIANTS
    RegistryTypeOK
    OneDigestPerProcess
    PageIsCurrent
    ArchivesBounded
    Reproducible
PROPERTIES
    ImplementsPinnedReleases
