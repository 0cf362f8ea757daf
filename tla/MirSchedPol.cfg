SPECIFICATION FairSpec
CONSTANTS
    Setups <- SmallSetups
    Busy = {}
    FootprintSizes <- Footprints
INVARIANT TypeOK
PROPERTY PopMissesNothing
PROPERTY NearestFirst
PROPERTY LeastCostWins
PROPERTY QueuedIsExecuted
CHECK_DEADLOCK FALSE
