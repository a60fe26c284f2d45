SPECIFICATION Spec
CONSTANTS
    None = None
    Atoms <- AllAtoms
    Jobs <- AllJobs
    MAXDOUBLE = 100
    INF = 1000
    IntWritten <- WrittenInts
    FloatWritten <- WrittenFloats
    IntTexts <- ReadInts
    FloatTexts <- ReadFloats
CHECK_DEADLOCK FALSE
INVARIANTS ConditionsAgree SelectionAgrees ValuesAgree DeclarationsAgree StrongestSource
