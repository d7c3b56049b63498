CONSTANTS
    TaskCounts = {3}
    CoreCounts = {2}
    Arg4Values = {NoArg, "32"}
    IntLiterals = {"32"}
    NoArg = NoArg

SPECIFICATION Spec

INVARIANT CoreExclusive
