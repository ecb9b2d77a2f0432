CONSTANTS
    Dev = {d1, d2, d3}
    Reader = {r1}
    N = 2
    NULL = NULL
SPECIFICATION FairSpec
INVARIANTS TypeOK SlotUnique PublishedOps RegistrationKept ArraysAgree LookupCorrect
PROPERTIES MapSpec CallsReturn
