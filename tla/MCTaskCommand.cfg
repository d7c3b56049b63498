\* Two tasks on two cores; size and bitwidth as the CLI gives them.
CONSTANTS
    Size = "1048576"
    Bitwidth = "32"
    TaskIdValues = {0, 1}
    CoreValues = {0, 1}

SPECIFICATION Spec

INVARIANT WorkloadGetsTaskId
