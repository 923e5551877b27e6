CONSTANTS
    EnvValues <- MCEnvValuesAliased
    Unset = Unset
    Malformed = Malformed
    None = None
SPECIFICATION Spec
INVARIANT LoadIsDeterministic
