--------------------------- MODULE MCRtspFraming ---------------------------
(* Small instances of RtspFraming.                                         *)
EXTENDS RtspFraming
=============================================================================
