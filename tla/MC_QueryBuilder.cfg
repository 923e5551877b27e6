CONSTANTS
    LogsTable = "telemetry.logs_mv"
    TracesTable = "telemetry.traces_mv"
    MaxOpenConns = 30
    KeyBytes <- MCKeyBytes
    TimeRanges <- MCTimeRanges
    Limits <- MCLimits
    BaseFilterSets <- MCBaseFilterSets
    IDs <- MCIDs
    Optionals <- MCOptionals
    IDLists <- MCIDLists
    LabelKeys <- MCLabelKeys
    LabelValues <- MCLabelValues
    APIIDs <- MCAPIIDs
    APIVersions <- MCAPIVersions

SPECIFICATION Spec

INVARIANT TypeOK
INVARIANT PlaceholdersBindArgs
INVARIANT OrderIndependent
INVARIANT LimitResolved
INVARIANT LabelKeysStayQuoted
