SPECIFICATION Spec
CONSTANTS
    IdsOf <- MCIds
    Depths = {1, 2}
    Positions = {0, 1}
    NUM_FILTERS = 2
    MAX_FILTER_LOAD = 2
INVARIANTS TypeOK LoadIsHonest
PROPERTIES Remembers
