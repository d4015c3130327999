SPECIFICATION MCSpec
CONSTANTS
    apex = apex
    mail = mail
    web = web
    Names <- MCNames
    Under <- MCUnder
    RootOf <- MCRootOf
    Requests = {s1}
    Sweeper = sweeper
    Overlap = TRUE
    MaxGen = 2
    None = None
INVARIANTS
    ControlIsProved
PROPERTIES
    FamiliesHold
    ProofIsFound
CHECK_DEADLOCK FALSE
