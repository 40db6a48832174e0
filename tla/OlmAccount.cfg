SPECIFICATION Spec
CONSTANTS
    m1 = m1  m2 = m2
    Message <- Messages
    MaxKeys = 3
    MaxGenerate = 2
    MaxUploads = 2
    MaxOneTimeKeys = 2
SYMMETRY Symmetry
CHECK_DEADLOCK FALSE
INVARIANTS
    TypeOK
    OneTimeUse
    PublishedReachedServer
    ServedKeysKept
    FallbackUsable
