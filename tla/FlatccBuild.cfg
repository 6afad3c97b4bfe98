SPECIFICATION Spec
CONSTANTS
    FLATCC_EMITTER_PAGE_SIZE = 24
    Pages <- MCPages
    NULL = NULL
    None = None
    Radix = 6
    DsChunk = 16
    Fields = 16
    FLATCC_VERIFIER_MAX_LEVELS = 8
    FLATBUFFERS_ID_MAX = 4
    Doc <- MCDoc
    Builds = 2
    Later = {"f"}
    EarlyAlign = 4
    PageLimits = {2, 6}
    FlushLimits = {0, 8}
INVARIANT EmitterHoldsDeque
INVARIANT VerifierAccepts
INVARIANT ReadsBack
INVARIANT OpenFieldsKept
INVARIANT ZeroAbove
 
CHECK_DEADLOCK FALSE
