SPECIFICATION Spec
CONSTANTS
    NoRating = NoRating
    NoRequest = NoRequest
    NoView = NoView
    NoReply = NoReply
    Requests <- Pushes
INVARIANT AnswersAreDocumented
