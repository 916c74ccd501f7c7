SPECIFICATION Spec
CONSTANTS
    Engines <- Both
    Signed = {"MODK", "GTI"}
INVARIANT ModuloFloors
