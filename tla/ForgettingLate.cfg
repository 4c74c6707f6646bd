SPECIFICATION Spec
CONSTANTS
    MaxPage = 1
    MaxFact = 1
    MaxNow = 2
    Batch = 1
    Partial = FALSE
INVARIANT NothingForgottenAnswers
CHECK_DEADLOCK FALSE
