SPECIFICATION Spec
CONSTANTS
    Dev = {d1, d2}
    Lower = {l1}
    MadcapDev = {l1}
    Key = {k1, k2}
    NoKey = NoKey
    SiZero = {k2}
    Obj = {o1, o2}
    Unset = Unset
    NULL = NULL
    MaxOps = 4
INVARIANTS TypeOK PathUnique NoStaleEntry PacketEntryLive PacketOnPath FaultsExplained
SYMMETRY Symm
CHECK_DEADLOCK FALSE
