SPECIFICATION ListSpec
CONSTANTS
    Listing = "transfers"
    Ids = {1, 2, 3}
    MaxTs = 2
    Filters = {x, y}
    Limit = 1
    MaxShown = 3
    Loads = {l1, l2}
    None = None
SYMMETRY Symmetry
INVARIANTS
    EachRowOnce
    NoRowSkipped
