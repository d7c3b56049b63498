\* Three runs of the script with two parameter sets, every host kind, sudo
\* failures and Ctrl-C between the two tc commands.
CONSTANTS
    Configs = {wan6g10ms, wan1g40ms}
    NoQdisc = NoQdisc
    SudoMayFail = TRUE
    Interruptible = TRUE
    MaxInvocations = 3

SPECIFICATION Spec

INVARIANT ResolvesRoutableHost
