SPECIFICATION Spec
CONSTANTS
    q1 = q1
    q2 = q2
    t1 = t1
    Reports = {}
    Questions = {q1, q2}
    Turns = {t1}
    Content <- MCContent
    MaxFaults = 2
INVARIANTS
    TakenOnce
    HeldStays
    OneDriver
    GivenIsAccountedFor
    AnswersCloseTheirBatch
PROPERTIES
    EverySendSettles
