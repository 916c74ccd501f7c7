SPECIFICATION Spec
CONSTANTS
    Threads = {a, b, c}
    ResumesCalled = FALSE
    MaxDepth = 4
SYMMETRY Interchangeable
CHECK_DEADLOCK FALSE
INVARIANTS FramesIntact ResumedOnce YieldAnswered StatusTrue
PROPERTY SuspendedUntouched
