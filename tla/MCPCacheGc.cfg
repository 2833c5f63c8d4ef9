SPECIFICATION Spec
CONSTANTS
    m1 = m1
    m2 = m2
    big = big
    e1 = e1
    s1 = s1
    Messages = {m1, m2, big}
    Garbled = Garbled
    Tokens = {}
    ZeroToken = ZeroToken
    Priorities = {1, 2}
    Hops = {1}
    NoEntry = NoEntry
    Entries = {e1}
    EntryOf <- MCEntryOf
    Slots = {s1}
    SlotOf <- MCSlotOf
    Size <- MCSize
    MESSAGE_HEADER_SIZE = 1
    MESSAGE_STORAGE_SIZE = 6
    ACKS_PER_SLOT = 1
    MAX_TOKENS = 4
    NUM_FILTERS = 3
    GC_FILLS = 1
    BYTE_BITS = 1
    BIG_ENDIAN_HOST = FALSE
    MAX_GCS = 2
    MAX_ROTATIONS = 2
SYMMETRY Symmetry
INVARIANTS NeverHalts WithinCapacity
PROPERTIES LossChangesLocalToken DroppedIsRemembered
CHECK_DEADLOCK FALSE
