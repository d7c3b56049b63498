\* Four refs as in MCBranchCompare.cfg; make may fail and leave the previous
\* executable in the build directory.
CONSTANTS
    Refs = {main, feature, tag, earlier}
    ThisBranch = main
    NoBuild = NoBuild
    MakeMayFail = TRUE
    CheckoutMayFail = FALSE
    Interruptible = FALSE

SPECIFICATION Spec

INVARIANT RunsOwnBinary
