---------------------------- MODULE MCPortBooking ----------------------------
(* Instances of PortBooking for TLC. *)
EXTENDS PortBooking, TLC

CONSTANTS u1, u2

\* What the web client calls: HomePage and MapPage reserve any port, start and
\* meter a session and complete it once; faults and restarts happen to it.
WebEndpoints ==
    {"look", "reserve_any", "cancel", "start",
     "complete", "recomplete", "fault", "abort"}

\* Every operation that writes a port or a session; faults are PATCHes here, and
\* metering and repeated completions, which leave holds alone, are in other runs.
OperatorEndpoints ==
    {"look", "reserve_any", "reserve", "cancel", "start", "start_session",
     "update_end_time", "complete", "scenario", "patch_charger", "update_row",
     "abort"}

\* What moves holds: the operations between a hold and its expiry.  No restart: a
\* look that is cut off promises nothing, and the next one starts over.
HoldEndpoints == {"look", "reserve_any", "reserve", "cancel", "start", "complete"}

\* One handler at a time, and no client completes a session twice.
SerialEndpoints ==
    {"look", "reserve_any", "reserve", "cancel", "start", "update_energy",
     "complete", "fault", "abort"}

Symmetry == Permutations(User) \cup Permutations(Worker) \cup Permutations(SessionId)

=============================================================================
