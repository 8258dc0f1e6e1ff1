------------------------------ MODULE MCConsole -------------------------------
(***************************************************************************)
(* Small instances of the accounts and of the garage.  They share no       *)
(* state, and the garage's operations are taken a few at a time: one       *)
(* behaviour runs one part.  A part starts where the others would have     *)
(* brought it, with a vehicle for the driver.                             *)
(***************************************************************************)
EXTENDS Accounts, Garage, TLC

CONSTANTS Driver, Parts

VARIABLE part           \* which part a behaviour runs

consoleVars == <<accountVars, garageVars, part>>

MCFocus ==
    [admins |-> {"request admin", "review admin", "console"},
     claims |-> {"request vehicle", "review vehicle", "console", "station"},
     pairing |-> {"pair", "confirm"},
     charging |-> {"register home", "delete home", "start home", "pay", "end time"},
     retention |-> {"sweep", "expire", "register home", "start home", "request vehicle",
                    "station", "complete"}]

MCGarage == <<Vehicle(Driver)>>

MCInit ==
    /\ AccountsInit
    /\ GarageInit(MCGarage)
    /\ part \in Parts

\* An end_time was written or cleared, and nothing else; the log of a completion matters to
\* the sweep alone.
Ended(s) == sessions'[s].open # sessions[s].open /\ sessions'[s].logged = sessions[s].logged

InFocus(focus) ==
    /\ \A t \in DeskThread : desk'[t].kind \in focus \cup {"idle"}
    /\ edited' # edited => "console" \in focus
    /\ \A u \in DOMAIN accounts \cap DOMAIN accounts' :
          accounts'[u].expired # accounts[u].expired => "expire" \in focus
    /\ Len(sessions') > Len(sessions) /\ desk' = desk => "station" \in focus
    /\ \A s \in Rows(sessions) \cap Rows(sessions)' :
          /\ sessions'[s].logged # sessions[s].logged => "complete" \in focus
          /\ Ended(s) => "end time" \in focus

SignIns == part = "accounts" /\ AccountsNext /\ UNCHANGED garageVars
Desk == part \in DOMAIN MCFocus /\ GarageNext /\ InFocus(MCFocus[part]) /\ UNCHANGED accountVars

MCNext == (SignIns \/ Desk) /\ UNCHANGED part

\* The threads of a part are alike.
MCSymmetry == Permutations(DeskThread) \cup Permutations(SignInThread)

MCSpec == MCInit /\ [][MCNext]_consoleVars

=============================================================================
