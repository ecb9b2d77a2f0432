SPECIFICATION FairSpec
CONSTANTS
    d1 = d1  d2 = d2  n1 = n1  e1 = e1  e2 = e2  e0 = e0  i1 = i1  i0 = i0  c0 = c0  c1 = c1
    NULL = NULL
    Dev = {d1, d2, n1}
    Nic = {n1}
    N = 2
    Entry = {e1, e2, e0}
    Id = {i1, i0}
    ZeroId = i0
    EntryId <- MCEntryId
    Bucket <- MCBucket
    Cfg = {c0, c1}
    Zero = c0
    ExtractId <- MCExtractId
    Before <- MCBefore
    MaxOps = 4
INVARIANTS TypeOK EntriesMatchConfig PacketEntryLive HarmOnlyByOverlap DumpOnce
PROPERTIES DumpComplete DumpEnds
CHECK_DEADLOCK FALSE
