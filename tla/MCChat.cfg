SPECIFICATION Spec
CONSTANTS
    MAX_SEND = 1
    MAX_RESEND = 2
    EXCHANGED = 1
    MAX_MESSAGES = 3
    MAX_CRASHES = 1
    MAX_REQUESTS = 1
INVARIANTS TypeOK OneSentPerNumber OneStoredPerNumber
PROPERTY AsksForMissing
