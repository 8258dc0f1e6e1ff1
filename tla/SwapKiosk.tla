------------------------------ MODULE SwapKiosk -------------------------------
(***************************************************************************)
(* A simulated battery-swap kiosk (simulation/swap_sim.py): ready          *)
(* batteries are a SimPy container, a vehicle takes one and leaves a       *)
(* depleted one behind, which recharges and is put back.  A put raises the *)
(* level at once; when its event is processed the container serves the     *)
(* vehicles that wait, and only then does the process that put it publish. *)
(* How long a handoff or a recharge takes is left out, and                 *)
(* completed_swaps, which nothing reads.                                   *)
(***************************************************************************)
EXTENDS Integers

CONSTANTS
    Batteries,      \* total_batteries
    MaxLine         \* bound: vehicles waiting for a battery

ASSUME KioskAssumption == Batteries \in Nat /\ MaxLine \in Nat

VARIABLES
    level,          \* the container's: ready batteries
    line,           \* vehicles whose get the container has queued
    served,         \* gets it has granted, whose sessions have not gone on yet
    charging,       \* charging_count
    handoffs,       \* sessions in their turnaround
    cabinet,        \* batteries in _recharge_battery
    returned,       \* puts whose events are not processed yet
    shown           \* the status last published, and history: what was served then

kioskVars ==
    <<level, line, served, charging, handoffs, cabinet, returned, shown>>

Shown(ready, inCharge, owed) == [ready |-> ready, charging |-> inCharge, owed |-> owed]

KioskInit ==
    /\ level = Batteries
    /\ line = 0 /\ served = 0 /\ charging = 0 /\ handoffs = 0 /\ cabinet = 0
    /\ returned = 0
    /\ shown = Shown(Batteries, 0, 0)

\* The container grants what it can of n gets that wait, at a level of ready.
Serve(n, ready) ==
    LET k == IF n < ready THEN n ELSE ready
    IN line' = n - k /\ level' = ready - k /\ served' = served + k

\* swap_session up to its first yield.
Queue ==
    /\ line < MaxLine
    /\ Serve(line + 1, level)
    /\ UNCHANGED <<charging, handoffs, cabinet, returned, shown>>

\* A wrong Take: the battery counts as charging only from its recharge on.
TakeUncounted ==
    /\ served > 0
    /\ served' = served - 1
    /\ handoffs' = handoffs + 1
    /\ shown' = Shown(level, charging, served')
    /\ UNCHANGED <<level, line, charging, cabinet, returned>>

\* The session goes on with its battery: the depleted one counts as charging.
Take ==
    /\ served > 0
    /\ served' = served - 1
    /\ charging' = charging + 1
    /\ handoffs' = handoffs + 1
    /\ shown' = Shown(level, charging', served')
    /\ UNCHANGED <<level, line, cabinet, returned>>

Leave ==
    /\ handoffs > 0
    /\ handoffs' = handoffs - 1
    /\ cabinet' = cabinet + 1
    /\ UNCHANGED <<level, line, served, charging, returned, shown>>

\* A recharged battery is put back; that there is room for it is InventoryAddsUp.
\* No battery is put back twice at one instant.
Recharged ==
    /\ cabinet > 0 /\ returned < Batteries
    /\ cabinet' = cabinet - 1
    /\ charging' = charging - 1
    /\ level' = level + 1
    /\ returned' = returned + 1
    /\ UNCHANGED <<line, served, handoffs, shown>>

\* The put's event is processed: whoever waits is served, then the status published.
Restocked ==
    /\ returned > 0
    /\ returned' = returned - 1
    /\ Serve(line, level)
    /\ shown' = Shown(level', charging, served')
    /\ UNCHANGED <<charging, handoffs, cabinet>>

KioskNext == Queue \/ Take \/ Leave \/ Recharged \/ Restocked

KioskSpec == KioskInit /\ [][KioskNext]_kioskVars

-----------------------------------------------------------------------------
\* A kiosk is an inventory (swap_sim.py:1-10): each battery is ready, promised or
\* charging, so a recharged one always finds room (swap_sim.py:84); nobody waits
\* beside a ready battery; and a published status counts each battery once, missing
\* only those granted to sessions that have not gone on (swap_sim.py:55, 71-74).
InventoryAddsUp ==
    /\ level >= 0 /\ level + served + charging = Batteries
    /\ charging = handoffs + cabinet
    /\ line > 0 /\ level > 0 => returned > 0
    /\ shown.ready + shown.charging + shown.owed = Batteries

=============================================================================
