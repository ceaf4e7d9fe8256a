SPECIFICATION FairSpec
CONSTANTS
    Files = {iso, kernel}
    Needed <- Order
    Chunks = {a, b}
    Remote <- Mirror
    Empty = Empty
    Bound = 2
    None = None
    MaxFaults = 3
    iso = iso
    kernel = kernel
    a = a
    b = b
INVARIANTS
    TypeOK
    DigestIsOfFile
    FetchedIsWhole
PROPERTIES
    OnlyGrows
    AttemptsEnd
