CONSTANTS
    Call = {c1, c2}
    FutureEnds = {"value", "unbindable", "exception", "nocause"}
    InterceptorMay = {"throw"}
    HandlerMay = {"error", "forgotten"}
    TimesOut = TRUE
SPECIFICATION FairSpec
INVARIANTS
    TypeOK
    AnswerMatchesMethod
    ValueMeansSuccess
    UnansweredForAReason
    ChainMeansReady
PROPERTIES
    EveryCallReturns
    RemoteCallSpec
CHECK_DEADLOCK FALSE
