SPECIFICATION FairSpec
CONSTANTS
    MAX_INT32 = 5
    ProxyCompressions <- const_ProxyCompressions
    OldProxy <- const_OldProxy
    Tags <- const_Tags
    Name = {"a", "b"}
    Content = {"a", "b", "none"}
    Stored <- const_Stored
    Samples = {1, 2, 4}
    MaxCalls = 2
    Arguments <- const_Arguments
    Answers <- const_Answers
    Request <- request_to
    RequestFrom <- request_from
    Response <- answer_to
    ResponseFrom <- read_response
INVARIANT RequestsArriveAsSent
INVARIANT AnswersBelongToTheirCall
INVARIANT NoCallFailsToParse
PROPERTY CallsEnd
CHECK_DEADLOCK FALSE
