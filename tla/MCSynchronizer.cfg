\* The handshake: safety, the ledger and liveness.
SPECIFICATION Spec
CONSTANTS
    Mutators = {m1, m2, m3}
    MaxCycles = 3
INVARIANTS
    TypeOK
    RequestsAlternate
    StoppedMeansParked
    ResponsesMatchRequests
    NoLostWakeup
PROPERTIES
    Ledger
    ParkedEventuallyRuns
