\* Every log of up to three lines, and every pair of table_sort runs of up to two results, over the line shapes of MCAnalysis.
CONSTANTS
    MaxLines = 3
    TableRuns = 2
    RunLines = 2
    SecrecyLines = 4
    SortBlocks = 2
    LogFiles = 2
    FileLines = 2
    SfLines = 6
    OrqFileLines = 3
    NaN = NaN
    None = None

SPECIFICATION Spec

INVARIANT ComputeCostsMatchesReference
INVARIANT CensusCostMatchesReference
INVARIANT TableSortMatchesReference
INVARIANT SortTimesMatchReference
INVARIANT ExponentParsersMatchReference
INVARIANT SortGraphsMatchReference
INVARIANT QueryRowMatchesReference
INVARIANT LatencyRowsMatchReference
INVARIANT ProfilingRowsMatchReference
INVARIANT SortPyMatchesReference
INVARIANT RowCountReadersMatchReference
INVARIANT SecretflowRowsMatchReference
INVARIANT OrqQueryTimesMatchReference
INVARIANT RowThreadsMatchReference
INVARIANT FastestMatchesReference
INVARIANT QueryStatsMatchReference
INVARIANT ScalingMatchesReference
INVARIANT GeoWanRatioMatchesReference
INVARIANT ThreadingBarsMatchReference
INVARIANT QueryBreakdownMatchesReference
INVARIANT SecrecyLabelsMatchReference
