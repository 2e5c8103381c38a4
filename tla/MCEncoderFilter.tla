-------------------------- MODULE MCEncoderFilter --------------------------
(* EncoderFilter for TLC. *)
EXTENDS EncoderFilter
=============================================================================
