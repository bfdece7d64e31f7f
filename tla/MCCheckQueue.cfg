SPECIFICATION Spec
CONSTANTS
    w1 = w1
    w2 = w2
    c1 = c1
    c2 = c2
    c3 = c3
    Master = master
    BatchSize = 2
    Workers <- MCWorkers
    Checks <- MCChecks
    Failing <- MCFailing
INVARIANTS
    TypeOK
    NoCheckOutlives
    AssertIdle
PROPERTIES
    WaitReturns
    ImplementsVerdict
