SPECIFICATION FairSpec
CONSTANTS
    t1 = t1  t2 = t2  s1 = s1  u1 = u1
    m1 = m1  m2 = m2  m3 = m3
    Nil = Nil
    Objects <- Few
    Leaves <- Unscanned
    Allocators <- Dropping
    SweepMarks <- Pads
    Batch = 2
    Frees = 1
    Percent = 20
    MaxDebt = 3
CHECK_DEADLOCK FALSE
INVARIANTS ListExact MarksRecycled WhiteBeforeCell DebtCovers
PROPERTY SweepEnds
