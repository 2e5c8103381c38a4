-------------------------- MODULE MCTransportSend --------------------------
(* TransportSend on a small instance; the values are in the .cfg files.    *)
EXTENDS TransportSend
=============================================================================
