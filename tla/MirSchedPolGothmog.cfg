SPECIFICATION Spec
CONSTANTS
    Setups <- GothmogSetups
    Busy <- AllButTwo
    FootprintSizes <- Footprints
PROPERTY PopMissesNothing
CHECK_DEADLOCK FALSE
