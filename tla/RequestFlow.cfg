SPECIFICATION Spec
CONSTANTS
    NetError <- MCNetError
    Status <- MCStatus
    Indeterminate <- MCIndeterminate
    Functions <- MCAllFunctions
    MaxNext = 2
INVARIANTS
    TypeOK
    CallbackOnce
    NoSilentFailure
    EndpointOnce
    ThumbnailDownloadTried
PROPERTIES
    FallbackJustified
    CallbackEventually
