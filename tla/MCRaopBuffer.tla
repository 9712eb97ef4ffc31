---------------------------- MODULE MCRaopBuffer ----------------------------
(***************************************************************************)
(* A ring of four entries under sequence numbers modulo twelve, and a      *)
(* stream long enough to wrap them around.                                 *)
(***************************************************************************)
EXTENDS RaopBuffer

MCPackets == 0 .. 14
=============================================================================
