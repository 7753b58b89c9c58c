SPECIFICATION PathSpec
CONSTANTS
    NumBytes = 3
    Memories <- MCMemories
    Accesses <- MCAccesses
    Patterns <- MCPatterns
    Garbage <- MCGarbage
    Starts = {0, 1, 2, 3, 4, 5, 6, 7, 8, 9, 12, 15, 16, 17, 22, 23, 24}
    Counts = {0, 1, 2, 3, 4, 5, 7, 8, 9, 10, 13, 15, 16, 17, 20, 22, 23, 24}
    Registers = {258, 65535}
INVARIANT RefusedForCause
CHECK_DEADLOCK FALSE
