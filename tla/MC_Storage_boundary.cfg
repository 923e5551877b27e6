CONSTANTS
    MaxRows = 2
    MaxTotal = 3
    Null = Null
    Logs <- MCLogs
    Tokens <- MCTokens
    Nows <- MCNows
    Collation <- MCCollation
    CostPerByte = 1
    CostPerLog = 2
SPECIFICATION StorageSpec
INVARIANT CSVCountsHalfOpenWindow
