SPECIFICATION Spec
CONSTANTS
    Receivers = {r1, r2}
    NumUrbs = 3
    Builds <- MCBuilds
INVARIANTS
    CallbacksSafe
    QuietUnlessStreaming
    NoUrbLost
PROPERTIES
    StopCompletes
