SPECIFICATION Spec
CONSTANTS
    Bits = 4
    Names = {"x", "y"}
    Literals <- MCLiterals
    Cells = {4, 5}
    Programs <- NumericPrograms
    JIT_MAX_DEPTH = 6
    MC_MAX_LOOP_DEPTH = 2
    MaxExits = 1
    JIT_MAX_ARGC = 2
PROPERTY ImplementsMeaning
CHECK_DEADLOCK FALSE
