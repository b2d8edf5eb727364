CONSTANTS
    acm0 = acm0
    acm1 = acm1
    Ports <- TwoPorts
    Limits <- SomeLimits
SPECIFICATION FairSpec
INVARIANTS ReadyIsIdle
PROPERTIES ReadyReturns EverySyncEnds
