\* Four-bit words, three words of data.
SPECIFICATION Spec
CONSTANTS
    WIDTH = 4
    REGS = {"rsp", "rax", "rcx"}
    RSP = "rsp"
    NONE = "none"
    MEM_SIZE = 3
    Programs <- MCPrograms
INVARIANTS NoConflict Precise
PROPERTIES Implements Progress
CHECK_DEADLOCK FALSE
