------------------------------ MODULE MCServer ------------------------------
(***************************************************************************)
(* The parts of the AirPlay server around its sessions, checked in one run *)
(* as MCServices does with the services: the first state says which one it *)
(* is about, and the others stay as they began.                            *)
(*   http      one connection and the requests of MCHttp                   *)
(*   options   every pair of options, as arguments and in a file           *)
(*   startup   two starts of the program with two resets each, under every *)
(*             combination of address, pin, list, key file and whether     *)
(*             files can be written; one client is blocked                 *)
(***************************************************************************)
EXTENDS Server, MCOptions, TLC

VARIABLE unit

Sent == INSTANCE MCHttp WITH Requests <- {}, Behind <- {}, known <- known_type
MCRequests == Sent!MCRequests
MCBehind == Sent!MCBehind

MCStarts ==
  {[port |-> IF mac = "user" THEN 7000 ELSE 0, mac |-> mac, pin |-> pin, list |-> list,
    keyfile |-> keyfile, writable |-> writable, nohold |-> list, restrict_clients |-> keyfile,
    allowed |-> {1, 2}, blocked |-> {2}] :
     mac \in {"user", "system", "random"},
     pin \in BOOLEAN, list \in BOOLEAN, keyfile \in BOOLEAN, writable \in BOOLEAN}

-----------------------------------------------------------------------------
MCInit ==
  /\ unit \in {"http", "options", "startup"}
  /\ Http!Init /\ (unit = "http" \/ sent = <<>>)
  /\ Init /\ (unit = "startup" \/ options = CHOOSE o \in Options : TRUE)
  /\ Config!Init /\ (unit = "options" \/ (written = <<MCNoLine>> /\ source = "file"))

HttpStep == unit = "http" /\ Http!Next
  /\ UNCHANGED <<unit, OptionsVars, vars>>
OptionsStep == unit = "options" /\ Config!Next
  /\ UNCHANGED <<unit, HttpVars, vars>>
StartupStep == unit = "startup" /\ Next
  /\ UNCHANGED <<unit, HttpVars, OptionsVars>>

MCNext == HttpStep \/ OptionsStep \/ StartupStep

allvars == <<unit, HttpVars, OptionsVars, vars>>
MCSpec == MCInit /\ [][MCNext]_allvars /\ WF_HttpVars(unit = "http" /\ Http!Recv)
=============================================================================
