SPECIFICATION Spec
CONSTANTS
    TtlArgs <- NegativeAndBoundaryTtl
    BwArgs = {125, 250, 499, 500}
    ChanArgs = {0, 1, 255, 256}
INVARIANT HangsOnlyForRadio
PROPERTIES BootsWhole OnlyLoadSplitsChannel
