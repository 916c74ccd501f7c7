SPECIFICATION Spec
CONSTANTS
    Objects = {a, b, c, d}
    MaxRefs = 2
    Refs = Refs
    MarkedRefs = MarkedRefs
    Nil = Nil
SYMMETRY Interchangeable
INVARIANT RefInv
PROPERTY RootsMarked
