---------------------------- MODULE MCRtcpSender ----------------------------
(* RtcpSender on a small instance; the values are in the .cfg files.       *)
EXTENDS RtcpSender
=============================================================================
