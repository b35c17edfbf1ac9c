SPECIFICATION FairSpec
CONSTANTS
    Reader = {c1, c2}
    Release = {a, b}
    LongPath = {b}
    LastFile = 3
    Manifest = 1
    Source = 2
    Content = {Empty, x}
    Empty = Empty
    Absent = Absent
    Odd = Odd
    SizeOf <- MCSmallSizeOf
    MaxFiles = 2
    MaxBytes = 2
    MaxWrites = 0
    Nobody = Nobody
    NoRelease = NoRelease
    NoArchive = NoArchive
    x = x
    y = y
PROPERTY
    EveryRequestAnswered
