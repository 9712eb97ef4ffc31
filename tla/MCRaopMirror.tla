---------------------------- MODULE MCRaopMirror ----------------------------
(***************************************************************************)
(* MCRaopMirror.cfg: headers in pieces, reports, parameter sets and frames *)
(* of all types over two connections.  MCRaopMirrorStream.cfg: two streams *)
(* with blocks of three units, where frames of two and four units leave    *)
(* every possible rest of a block, and reports without payload.            *)
(***************************************************************************)
EXTENDS RaopMirror

MCFrameSizes == {2, 4}
MCOtherSizes == {0, 1}
MCFrameSize == {2}
=============================================================================
