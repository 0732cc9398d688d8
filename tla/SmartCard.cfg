SPECIFICATION Spec
CONSTANTS
    Scenarios <- MCScenarios
INVARIANTS
    RightResponse
    ExecutedOnce
    SequencesAgree
PROPERTIES
    CallsEnd
