SPECIFICATION Spec
CONSTANTS
    m1 = m1
    e1 = e1
    s1 = s1
    Messages = {m1}
    Garbled = Garbled
    Tokens = {t1, t2, t3, t4, t5}
    ZeroToken = ZeroToken
    Priorities = {1}
    Hops = {1}
    NoEntry = NoEntry
    Entries = {e1}
    EntryOf <- MCEntryOf
    Slots = {s1}
    SlotOf <- MCSlotOf
    Size <- MCSize
    MESSAGE_HEADER_SIZE = 1
    MESSAGE_STORAGE_SIZE = 8
    ACKS_PER_SLOT = 2
    MAX_TOKENS = 4
    NUM_FILTERS = 2
    GC_FILLS = 0
    BYTE_BITS = 1
    BIG_ENDIAN_HOST = TRUE
    MAX_GCS = 2
    MAX_ROTATIONS = 2
SYMMETRY Symmetry
INVARIANTS TypeOK TokensDistinct MarksNameListedTokens
PROPERTIES MessageMarksKept AckMarksKept
CHECK_DEADLOCK FALSE
