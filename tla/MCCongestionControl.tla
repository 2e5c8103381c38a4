------------------------ MODULE MCCongestionControl ------------------------
(* CongestionControl on a small instance; the values are in the .cfg file. *)
EXTENDS CongestionControl
=============================================================================
