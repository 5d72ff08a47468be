\* Every push near a good one, one after the other.
SPECIFICATION Spec
CONSTANTS
    NoRating = NoRating
    NoRequest = NoRequest
    NoView = NoView
    NoReply = NoReply
    Requests <- Pushes
INVARIANTS
    StoredViewIsSound
    NormalizedOnce
    TyposAreReported
