SPECIFICATION Spec
CONSTANTS
    pricing = pricing
    review = review
    beta = beta
    alice = alice
    bob = bob
    system = system
    Keys = {pricing}
    Names = {review, beta}
    Releases = {1, 2, 3}
    Callers = {alice, bob}
    SYSTEM = system
    MaxId = 3
    Seeds <- MCSeeds
INVARIANTS
    TypeOK
    DriftOnlyByRace
    CheckFindsAll
PROPERTIES
    HandmadeStays
    SetReplaces
SYMMETRY MCCallers
