CONSTANTS
    Alphabet <- MCAlphabet
    Paths <- MCPaths
    ParamKeys <- MCParamKeysAB
    ParamVals <- MCParamValsSeparator
    Expires <- MCExpires
    Signature <- MCSignature
    TTL = 2
    MaxTime = 3
    None = None

SPECIFICATION Spec

INVARIANT TamperEvident
