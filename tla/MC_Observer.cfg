CONSTANTS
    EnvValues <- MCEnvValues
    Unset = Unset
    Malformed = Malformed
    None = None
    HealthTimeout = 5
    QueryTimeouts = {0, 2, 10}
    DefaultQuery = 10
    Latencies = {1, 3}
    Hang = Hang
SPECIFICATION ObserverSpec
INVARIANTS
    ObserverTypeOK
    HostsUsable
    SignerIffKeyConfigured
    TLSAsConfigured
    HealthAnsweredInTime
    HealthVerdictFollowsPrimary
PROPERTY
    HealthRequestAnswered
