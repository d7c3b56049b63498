\* Every valid command line with up to 6 tasks and 3 cores, plus 0 cores
\* (ThreadPoolExecutor rejects it).
CONSTANTS
    TaskCounts = {0, 1, 2, 3, 4, 5, 6}
    CoreCounts = {0, 1, 2, 3}
    Arg4Values = {NoArg, "32"}
    IntLiterals = {"32"}
    NoArg = NoArg

SPECIFICATION Spec

INVARIANT TypeOK
 
INVARIANT AllObservedAtExit
INVARIANT WorkersSuffice

PROPERTY Termination
PROPERTY DispatcherRefinesPool
