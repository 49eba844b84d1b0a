SPECIFICATION Spec
CONSTANTS
    MaxRequest = 10
    Letters = {"a"}
    Requests <- ShortRequests
    Names <- ShortNames
INVARIANTS
    FitsBuffer
    Relative
    PathCorrect
    LinksReopen
CHECK_DEADLOCK FALSE
