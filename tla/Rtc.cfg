SPECIFICATION FairSpec
CONSTANTS
    Readers = {r1}
    Writers = {w1}
    Values = {2, 3, 128, 1024}
INVARIANTS
    TypeOK
    MaskRestored
    RateAsAsked
    TickPerRead
PROPERTIES
    RequestsServed
    RtcReadReturns
    ClockGoesOn
