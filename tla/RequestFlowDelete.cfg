SPECIFICATION Spec
CONSTANTS
    NetError <- MCNetError
    Status <- MCStatus
    Indeterminate <- MCIndeterminate
    Functions <- MCDelete
    MaxNext = 2
INVARIANT StatusTrusted
