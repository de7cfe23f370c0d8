SPECIFICATION FieldSpec
CONSTANTS
    Builds <- MCBuilds
    Polys <- MCPolys
    Settings <- MCSettings
    Bases <- MCBases
    CompositePolys <- MCCompositePolys
    SmallWords <- MCSmallWords
    Exponents <- MCExponents
    LogExponents <- MCLogExponents
INVARIANTS AcceptedIsReady ProductsAgree QuotientsUndo RegionsAgree
CHECK_DEADLOCK FALSE
