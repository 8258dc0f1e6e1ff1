---------------------------- MODULE StationPorts ----------------------------
(***************************************************************************)
(* What the ports of a station promise their drivers, without rows,        *)
(* handlers or sessions: a port is free, held for one driver, charging one *)
(* driver's vehicle, or out of service.  PortBooking implements this when  *)
(* its handlers do not overlap.                                            *)
(***************************************************************************)
CONSTANTS Port, User, NoUser

VARIABLES
    use,            \* what each port is doing
    driver          \* for whom: NoUser when for nobody

Use == {"free", "held", "stale", "charging", "out"}

PortsTypeOK ==
    /\ use \in [Port -> Use]
    /\ driver \in [Port -> User \cup {NoUser}]

PortsInit ==
    /\ use = [p \in Port |-> "free"]
    /\ driver = [p \in Port |-> NoUser]

Become(S, what, u) ==
    /\ use' = [p \in Port |-> IF p \in S THEN what ELSE use[p]]
    /\ driver' = [p \in Port |-> IF p \in S THEN u ELSE driver[p]]

Hold(p, u) == use[p] = "free" /\ Become({p}, "held", u)

\* Ten minutes pass without the driver.
GoStale(p) == use[p] = "held" /\ Become({p}, "stale", driver[p])

\* A driver gives a hold up, or a reader sweeps the stale ones.
GiveUp(p) == use[p] \in {"held", "stale"} /\ Become({p}, "free", NoUser)
Sweep(S) == (\A p \in S : use[p] = "stale") /\ Become(S, "free", NoUser)

\* Only its driver can charge at a port that is held, stale or not.
Charge(p, u) ==
    /\ \/ use[p] = "free"
       \/ use[p] \in {"held", "stale"} /\ driver[p] = u
    /\ Become({p}, "charging", u)

Finish(p) == use[p] = "charging" /\ Become({p}, "free", NoUser)

\* Ports are taken out of service only while nobody uses or holds them.
Retire(S) == (\A p \in S : use[p] = "free") /\ Become(S, "out", NoUser)

PortsNext ==
    \/ \E p \in Port, u \in User : Hold(p, u) \/ Charge(p, u)
    \/ \E p \in Port : GoStale(p) \/ GiveUp(p) \/ Finish(p)
    \/ \E S \in SUBSET Port : Sweep(S) \/ Retire(S)

PortsSpec == PortsInit /\ [][PortsNext]_<<use, driver>>

=============================================================================
