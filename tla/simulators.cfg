\* Four-bit words with ints of three bits, three words of data.
SPECIFICATION Spec
CONSTANTS
    WIDTH = 4
    INT_WIDTH = 3
    REGS = {"rsp", "rax", "rcx"}
    RSP = "rsp"
    NONE = "none"
    MEM_SIZE = 3
    Programs <- MCPrograms
INVARIANTS SeqAgrees Y64Agrees
CHECK_DEADLOCK FALSE
