SPECIFICATION Spec
CONSTANTS
    Files = {iso, kernel}
    Needed <- Order
    Chunks = {a, b}
    Remote <- Mirror
    Empty = Empty
    Bound = 2
    None = None
    MaxFaults = 1
    iso = iso
    kernel = kernel
    a = a
    b = b
INVARIANT
    ImageIsChecked
