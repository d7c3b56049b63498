\* An mpirun may end within the clock tick in which its executable was
\* built (a failing or very short run); the single-process runs last a tick.
CONSTANTS
    MaxTime = 10
    FastRuns = {"mpirun"}
    MpiMayFail = FALSE
    None = None

SPECIFICATION Spec

INVARIANT RunsRequestedProtocol
