SPECIFICATION Spec
CONSTANTS
    maxbits = 3
    Prefix <- MCPrefix
    Address <- MCAddress
    MaxRoutes = 3
    NULL = NULL
INVARIANTS
    TypeOK AssertsHold SearchRegular UndefinedOnlyByRemoval StoresRoutes NoWaste
