----------------------------- MODULE MCRaopRtp -----------------------------
(***************************************************************************)
(* The receiver with a ring of two entries under sequence numbers modulo   *)
(* eight, which wrap around within the stream.  A behaviour has a focus    *)
(* that it keeps: audio comes in, or the RTSP side posts events.  Only the *)
(* product of the two would be too large.                                  *)
(***************************************************************************)
EXTENDS RaopRtp

MCPackets == 5 .. 8

VARIABLE focus
mcvars == <<vars, focus>>

Silent == INSTANCE RaopRtp WITH Packets <- {}

MCInit == Init /\ focus \in {"audio", "events"}

MCNext ==
  /\ UNCHANGED focus
  /\ \/ focus = "audio" /\ Next /\ UNCHANGED posts
     \/ focus = "events" /\ Silent!Next

MCThread ==
  /\ UNCHANGED focus
  /\ \/ focus = "audio" /\ Thread
     \/ focus = "events" /\ Silent!Thread

MCStopping == UNCHANGED focus /\ Stopping

\* The fairness is that of RaopRtp!Spec.
MCSpec == MCInit /\ [][MCNext]_mcvars /\ WF_mcvars(MCThread) /\ WF_mcvars(MCStopping)
=============================================================================
