SPECIFICATION Spec
CONSTANTS
    NetError <- MCNetError
    Status <- MCStatus
    Indeterminate <- MCIndeterminate
    Functions <- MCRegistration
    MaxNext = 2
INVARIANT PromptOnlyForStage
