SPECIFICATION Spec
CONSTANTS
    OutHashes = {p1, p2}
    InHashes = {r1}
    MaxPays = 3
    MaxRestarts = 1
SYMMETRY Symmetry
INVARIANTS
    TypeOK
    SucceededWasSent
    OneInFlight
    ClaimsListed
CHECK_DEADLOCK FALSE
