------------------------------ MODULE Commands ------------------------------
(***************************************************************************)
(* The commands that start and stop servers (ServerTable), beside the      *)
(* server processes of module Server.                                      *)
(***************************************************************************)
EXTENDS Integers

CONSTANTS Command, Url, ValidUrl, MaxPid, MaxArgs, MaxCommand

ASSUME CommandAssumption == Url # {} /\ MaxPid \in Nat /\ MaxArgs \in Nat

VARIABLES file, cmd, server, signals, count, alone

Table == INSTANCE ServerTable

tableVars == <<file, cmd, server, signals, count, alone>>

-----------------------------------------------------------------------------
(* When commands are run one at a time and none is running, every server that runs is in
   the table file under its PID and URL (server.c:209-261, 328-490). *)
RunningRecorded == Table!RunningRecorded

(* Whatever commands run together, remove and init-stop signal a process under the URL it
   serves: never another server (server.c:343-361, 477). *)
SignalsOwn == Table!SignalsOwn

=============================================================================
