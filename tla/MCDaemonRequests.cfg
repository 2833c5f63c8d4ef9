SPECIFICATION DaemonSpec
CONSTANTS
    e1 = e1
    s1 = s1
    Messages = {m1, m2}
    Garbled = Garbled
    Tokens = {t1, t2, t3, ZeroToken}
    ZeroToken = ZeroToken
    Priorities = {1}
    Hops = {1}
    NoEntry = NoEntry
    Entries = {e1}
    EntryOf <- MCEntryOf
    Slots = {s1}
    SlotOf <- MCSlotOf
    Size <- MCSize
    MESSAGE_HEADER_SIZE = 1
    MESSAGE_STORAGE_SIZE = 5
    ACKS_PER_SLOT = 2
    MAX_TOKENS = 4
    NUM_FILTERS = 2
    GC_FILLS = 0
    BYTE_BITS = 1
    BIG_ENDIAN_HOST = FALSE
    MAX_GCS = 2
    MAX_ROTATIONS = 3
    DO_NOT_CACHE = {}
    ACK_REQ = {m1}
    SEND_EXTERNAL_MAX = 1
    AckBatches <- OneAck
SYMMETRY TokenSymmetry
INVARIANTS DaemonTypeOK 
 
CHECK_DEADLOCK FALSE
