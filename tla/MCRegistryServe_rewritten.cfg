SPECIFICATION Spec
CONSTANTS
    Reader = {c1}
    Release = {a}
    LongPath = {}
    LastFile = 2
    Manifest = 1
    Source = 2
    Content = {Empty, x, y}
    Empty = Empty
    Absent = Absent
    Odd = Odd
    SizeOf <- MCSizeOf
    MaxFiles = 2
    MaxBytes = 3
    MaxWrites = 1
    Nobody = Nobody
    NoRelease = NoRelease
    NoArchive = NoArchive
    x = x
    y = y
INVARIANT
    VersionIsReproducible
