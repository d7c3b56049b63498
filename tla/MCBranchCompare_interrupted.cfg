\* Four refs as in MCBranchCompare.cfg; git checkout may fail and the user may
\* stop the script between two commands.
CONSTANTS
    Refs = {main, feature, tag, earlier}
    ThisBranch = main
    NoBuild = NoBuild
    MakeMayFail = FALSE
    CheckoutMayFail = TRUE
    Interruptible = TRUE

SPECIFICATION Spec

INVARIANT EndsOnOriginalBranch
