SPECIFICATION Spec
CONSTANTS
    o1 = o1  o2 = o2
    MaxInt = 9
    MaxArray = 8
    Objects <- Addresses
    Strings <- Short
    Hash <- Hashes
    Written <- Stored
    Values = {x}
    ArrayHints = {0, 5}
    NodeHints = {0, 2, 4}
    MaxList = 2
    Nil = Nil
    None = None
    Idle = Idle
INVARIANTS TypeOK SizeKnown ChainsEnd IsMap LengthIsBorder
PROPERTY VisitsOnce
