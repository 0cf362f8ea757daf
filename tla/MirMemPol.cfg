SPECIFICATION Spec
CONSTANTS
    Configs <- SmallConfigs
    Sizes = {7, 11}
    MaxBlocks = 3
    MaxResets = 1
    PageSize = 4
    HeaderSize = 1
    Footprints <- SmallFootprints
INVARIANT TypeOK
INVARIANT RoundTurns
INVARIANT DistributionTells
PROPERTY LockIsReleased
CHECK_DEADLOCK FALSE
