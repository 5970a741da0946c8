SPECIFICATION FairSpec
CONSTANTS
    b1 = b1
    b2 = b2
    Block = {b1, b2}
    Image <- MCImage
    Signed <- MCSigned
    Factory <- MCFactory
    Key = {k1, k2}
    MaxVersion = 1
    HeaderSize = 2
    MAX_FIRMWARE_SIZE = 2
    MaxChunk = 2
    MaxBegins = 3
INVARIANTS StartsAfterReset NoHandleLost HashedIsWritten OnlySignedRuns
PROPERTIES UpdateSpec TransferEnds
