------------------------------ MODULE WanSim ------------------------------
(***************************************************************************)
(* scripts/wan-sim.py: switch the simulated WAN on or off by replacing the *)
(* interface's root qdisc.  The kernel's qdisc outlives the script, so the *)
(* model runs the script again and again against it.  Each run resolves   *)
(* the interface, deletes the root qdisc and, for `on`, adds a netem qdisc *)
(* with the script's BANDWIDTH_LIMIT and LATENCY (a configuration, a       *)
(* member of Configs: the constants may be edited between runs).  Neither  *)
(* tc command's status is checked; sudo may fail and the user may stop    *)
(* the script between the two commands.                                    *)
(***************************************************************************)
EXTENDS Naturals

CONSTANTS
    Configs,         \* netem parameter sets the script may hold
    NoQdisc,         \* the interface has no root qdisc of ours
    SudoMayFail,     \* sudo tc can fail (no password, no permission)
    Interruptible,   \* the user can stop the script between two commands
    MaxInvocations   \* bound on the number of runs of the script

ASSUME NoQdisc \notin Configs /\ MaxInvocations \in Nat

(* What dig +short prints for a -H host, line by line: a name with an A   *)
(* record, a name behind a CNAME, an IP address (dig looks it up as a     *)
(* name), a name that does not resolve.                                    *)
HostKinds == {"name", "cname", "address", "unknown"}
Dig(h) ==
    CASE h = "name"    -> <<"addr">>
      [] h = "cname"   -> <<"alias.", "addr">>
      [] h \in {"address", "unknown"} -> <<>>

(* get_interface_for_host: `ip route get <dig output>` succeeds only for  *)
(* one address, and its output then names the device after "dev";        *)
(* otherwise check=True raises CalledProcessError, caught: None.           *)
GetInterfaceForHost(h) == Dig(h) = <<"addr">>

\* The hosts to which the machine has a route.
Routable(h) == h # "unknown"

VARIABLES
    qdisc,     \* the interface's root qdisc: NoQdisc or a netem configuration
    req,       \* the running (or last) invocation's arguments
    pc,        \* "idle" between runs, else the next step of main()
    outcome,   \* how the last invocation ended
    sudoFailed,\* a sudo tc of this invocation failed
    count      \* invocations so far

vars == <<qdisc, req, pc, outcome, sudoFailed, count>>

Init ==
    /\ qdisc \in {NoQdisc} \cup Configs
    /\ req = [state |-> "off", cfg |-> NoQdisc, host |-> "iface"]
    /\ pc = "idle"
    /\ outcome = "none"
    /\ sudoFailed = FALSE
    /\ count = 0

\* The qdisc a finished run asked for.
Wanted(r) == IF r.state = "on" THEN r.cfg ELSE NoQdisc

\* A run of the script: `wan-sim.py on|off -i IFACE` or `-H HOST`.
Start ==
    /\ pc = "idle" /\ count < MaxInvocations
    /\ \E s \in {"on", "off"}, c \in Configs, h \in {"iface"} \cup HostKinds :
          req' = [state |-> s, cfg |-> c, host |-> h]
    /\ pc' = "resolve" /\ outcome' = "running" /\ sudoFailed' = FALSE
    /\ count' = count + 1
    /\ UNCHANGED qdisc

\* Lines 42-48: -i is taken as given; -H goes through get_interface_for_host
\* and exits with status 1 when it yields None.
Resolve ==
    /\ pc = "resolve"
    /\ IF req.host = "iface" \/ GetInterfaceForHost(req.host)
       THEN pc' = "del" /\ UNCHANGED outcome
       ELSE pc' = "idle" /\ outcome' = "exit1"
    /\ UNCHANGED <<qdisc, req, sudoFailed, count>>

\* A sudo tc command that fails leaves the qdisc as it was.
SudoFails ==
    /\ SudoMayFail /\ sudoFailed' = TRUE /\ UNCHANGED qdisc

\* Main() without the reset of line 51.
DelSkipped ==
    /\ pc = "del"
    /\ UNCHANGED <<qdisc, sudoFailed>>
    /\ IF req.state = "on" THEN pc' = "add" /\ UNCHANGED outcome
                           ELSE pc' = "idle" /\ outcome' = "exit0"
    /\ UNCHANGED <<req, count>>

\* Line 51: sudo tc qdisc del dev IFACE root ("need to reset either way");
\* with no root qdisc tc reports an error, which is ignored.
Del ==
    /\ pc = "del"
    /\ \/ qdisc' = NoQdisc /\ UNCHANGED sudoFailed
       \/ SudoFails
    /\ IF req.state = "on" THEN pc' = "add" /\ UNCHANGED outcome
                           ELSE pc' = "idle" /\ outcome' = "exit0"
    /\ UNCHANGED <<req, count>>

\* Lines 53-56: sudo tc qdisc add dev IFACE root netem rate .. delay ..;
\* tc refuses to add a root qdisc over an existing one.
Add ==
    /\ pc = "add"
    /\ \/ qdisc = NoQdisc /\ qdisc' = req.cfg /\ UNCHANGED sudoFailed
       \/ qdisc # NoQdisc /\ UNCHANGED <<qdisc, sudoFailed>>
       \/ SudoFails
    /\ pc' = "idle" /\ outcome' = "exit0"
    /\ UNCHANGED <<req, count>>

\* Ctrl-C between two commands of main().
Interrupt ==
    /\ Interruptible /\ pc \in {"del", "add"}
    /\ pc' = "idle" /\ outcome' = "killed"
    /\ UNCHANGED <<qdisc, req, sudoFailed, count>>

Done == pc = "idle" /\ count = MaxInvocations /\ UNCHANGED vars

Next == Start \/ Resolve \/ Del \/ Add \/ Interrupt \/ Done

Spec == Init /\ [][Next]_vars

(* A run that exits normally and whose tc commands all ran leaves the link *)
(* as asked, netem with the script's current parameters for `on`, no     *)
(* netem for `off`, whatever earlier runs left behind, stopped ones        *)
(* included: the reason line 51 deletes before adding.                     *)
LinkMatchesRequest ==
    outcome = "exit0" /\ ~sudoFailed => qdisc = Wanted(req)

(* -H "auto-determine interface via this host": every host the machine    *)
(* has a route to yields its interface; only the others end in the error  *)
(* of line 47.                                                             *)
ResolvesRoutableHost ==
    outcome = "exit1" => ~Routable(req.host)

=============================================================================
