\* Four refs: the starting branch, two others and the one checked out before
\* the script (@{-1}); the other branch may be any of them.  make may fail,
\* git checkout may refuse, the user may stop the script.
CONSTANTS
    Refs = {main, feature, tag, earlier}
    ThisBranch = main
    NoBuild = NoBuild
    MakeMayFail = TRUE
    CheckoutMayFail = TRUE
    Interruptible = TRUE

SPECIFICATION Spec

INVARIANT SwitchesBack
