SPECIFICATION OnboardingSpec
CONSTANTS
    Absent = Absent
    Terminals = {1}
    MaxOps = 2
INVARIANTS SetupCompletes
CHECK_DEADLOCK FALSE
