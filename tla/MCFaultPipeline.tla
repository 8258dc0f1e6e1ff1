---------------------------- MODULE MCFaultPipeline ----------------------------
(***************************************************************************)
(* A small instance of FaultPipeline.                                      *)
(***************************************************************************)
EXTENDS FaultPipeline

\* What the station simulator publishes (simulation/station_sim.py) of an idle
\* charger and of one that charges at its rated power, and an occupied charger
\* without current, which the tests of the monitor feed it.
Idling == [occupied |-> FALSE, current |-> FALSE, over |-> {}, near |-> {}]
Charging ==
    [occupied |-> TRUE, current |-> TRUE, over |-> {},
     near |-> {"OverCurrentFailure", "HighTemperature"}]
Dead == [occupied |-> TRUE, current |-> FALSE, over |-> {}, near |-> {}]

MCReadings == {Idling, Charging, Dead}

\* One fault of each kind: critical only under load, and a direct warning.
MCInjected == {"OverCurrentFailure", "ReaderFailure"}

=============================================================================
