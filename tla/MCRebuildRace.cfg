\* Every run of the query lasts at least one clock tick (FastRuns empty); parties may die
\* before printing their totals; the clock reaches 10 ticks, enough for the
\* script's five runs and three sleeps with time to spare between commands.
CONSTANTS
    MaxTime = 10
    FastRuns = {}
    MpiMayFail = TRUE
    None = None

SPECIFICATION Spec

INVARIANT RunsRequestedProtocol
