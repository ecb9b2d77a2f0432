CONSTANTS
    NULL = NULL
    Mem = {a1, a2, a3}
    Kind = {"vxlan", "gre", "nsh"}
    Enabled = {"gre", "nsh"}
    N = 2
    Driver = "ixgbe"
SPECIFICATION Spec
INVARIANTS TypeOK VdevUnique AcquireKept
PROPERTY GrantedNeverBare
SYMMETRY Symmetry
