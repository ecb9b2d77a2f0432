CONSTANTS
    NULL = NULL
    Mem = {a1, a2, a3}
    Kind = {"vxlan"}
    Enabled = {"vxlan"}
    N = 2
    Driver = "ixgbe"
SPECIFICATION Spec
INVARIANT ReleasedOnDestroy
SYMMETRY Symmetry
