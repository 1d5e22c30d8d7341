SPECIFICATION Spec
CONSTANTS
    None = None
    Null = Null
    Odd = Odd
    ErrorCode = 500
    CallsOf <- MCCallsOf
    OutcomesOf <- MCOutcomesOf
INVARIANTS
    HeardAsSent
    RefusedForCause
    AnswerArrives
    StatusFromService
    AcceptedReads
