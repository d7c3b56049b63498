\* Command lines with a negative task count or the verbose flag '-v' as
\* argv[4], besides valid ones.
CONSTANTS
    TaskCounts <- TaskCountsWithNegative
    CoreCounts = {2}
    Arg4Values = {NoArg, "-v"}
    IntLiterals = {"32"}
    NoArg = NoArg

SPECIFICATION Spec

INVARIANT ConfigErrorIffBadConfig
