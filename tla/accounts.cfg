\* One person, two concurrent requests, one set of two backup codes; one-time
\* codes of one period, which are good for three ticks.
SPECIFICATION Spec
CONSTANTS
    r1 = r1
    r2 = r2
    Requests = {r1, r2}
    Period = 1
    Periods = {1}
    MaxAttempts = 1
    MaxTime = 3
    MaxSecrets = 2
    MaxEnrolments = 1
    k1 = k1
    k2 = k2
    Slots = {k1, k2}
SYMMETRY Symmetry
\* The clock stops, and a person who is done may rest.
CHECK_DEADLOCK FALSE
INVARIANTS
    TypeOK
    
    GuessesBounded
    EnabledIsProved
    CodesExact
