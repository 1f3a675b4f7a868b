SPECIFICATION Spec
CONSTANTS
    MAX_INT32 = 5
    ProxyCompressions <- const_ProxyCompressions
    OldProxy <- const_OldProxy
    Tags = {24}
    Name = {"a", "b"}
    Content = {"a", "b", "none"}
    Stored <- const_Stored
    Samples = {1, 2, 4}
    MaxCalls = 1
    Arguments <- const_Arguments
    Answers <- const_Answers
    Request <- request_to
    RequestFrom <- request_from
    Response <- answer_to
    ResponseFrom <- read_response
CHECK_DEADLOCK FALSE
INVARIANT LastUpdateTakesEffect
