---------------------------- MODULE MCRtspSession ----------------------------
(***************************************************************************)
(* A small instance of RtspSession.                                        *)
(***************************************************************************)
EXTENDS RtspSession

ThreeFrames == <<2, 3, 1>>
=============================================================================
