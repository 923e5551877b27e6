CONSTANTS
    TimeTexts <- MCTimeTexts
    Parsed <- MCParsed
    Instants = {t1}
    ZeroInstant = ZeroInstant
    ParseError = ParseError
    IDs = {"", "x"}
    SortOrders <- MCSortOrders
    Limits = {0, 50}
    Upper <- MCUpper
    Alphabet <- MCAlphabet
    Paths <- MCPaths
    ParamKeys <- MCParamKeys
    ParamVals <- MCParamVals
    Expires <- MCExpires
    Signature <- MCSignature
    TTL = 2
    MaxTime = 2
    None = None
SPECIFICATION ApiSpec
INVARIANTS
    TypeOK
    IssuedLinkVerifies
    ValidityBoundedByTTL
    TamperEvident
