SPECIFICATION Spec
CONSTANTS
    MAX_SEND = 1
    MAX_RESEND = 2
    EXCHANGED = 0
    MAX_MESSAGES = 2
    MAX_CRASHES = 0
    MAX_REQUESTS = 1
INVARIANT AckedIsStored
