------------------------------- MODULE Server -------------------------------
(***************************************************************************)
(* The life of the AirPlay server and, next to it, what comes before and   *)
(* what comes in: its options, which are read once when the program        *)
(* starts, and the requests on one of its connections.  What they mean is  *)
(* not what Startup tells its starts apart by, so the configuration and    *)
(* the connection are instances with constants and variables of their own. *)
(***************************************************************************)
EXTENDS Startup, Sequences

CONSTANTS
  Lines, Writable, Macs, MAX_OPTIONS,
  MAXLEN, BUFFER, Requests, Behind

VARIABLES
  written, source, argv, at, settings, outcome,
  conn, known_type, parser, wire, sent, whole, served

OptionsVars == <<written, source, argv, at, settings, outcome>>
HttpVars == <<conn, known_type, parser, wire, sent, whole, served>>

Config == INSTANCE Options WITH i <- at
Http == INSTANCE HttpConnection WITH known <- known_type

\* A line means what its own words say, and can be written into a file.
ASSUME OptionsAssumption == MAX_OPTIONS \in Nat /\ \A l \in Lines : Config!Says(l)

\* What is sent is understood when nothing cuts it.
ASSUME RequestsAssumption ==
  BUFFER \in Nat /\ \A r \in Requests : Http!Understood(r)

\* What is promised of the configuration and of the connection, stated in their
\* modules.
OptionsAsWritten == Config!OptionsAsWritten
ServedAsSent == Http!ServedAsSent
RequestsAreSettled == Http!RequestsAreSettled
=============================================================================
