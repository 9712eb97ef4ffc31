-------------------------- MODULE MCAirPlaySession --------------------------
(* Instances of AirPlaySession.  Two connections are what a capture and a   *)
(* full table need; one connection is enough for services and the main      *)
(* loop to meet on the httpd thread, and leaves room for both streams.      *)
EXTENDS AirPlaySession

MCMirror == {"mirror"}
MCAllStreams == {"rtp", "mirror"}

\* A video window that is relaunched and clients that capture the receiver, or
\* neither.
MCBothOptions == {<<TRUE, TRUE>>, <<FALSE, FALSE>>}
MCVideo == {<<TRUE, FALSE>>}
=============================================================================
