CONSTANTS
    Call = {c1, c2, c3}
    FutureEnds = {"value", "unbindable", "exception", "nocause"}
    InterceptorMay = {}
    HandlerMay = {"error"}
    TimesOut = FALSE
SPECIFICATION Spec
SYMMETRY Symmetry
INVARIANT
    AnsweredInAllScenarios
CHECK_DEADLOCK FALSE
