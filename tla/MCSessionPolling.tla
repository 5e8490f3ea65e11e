--------------------------- MODULE MCSessionPolling ---------------------------
(***************************************************************************)
(* Instances of SessionPolling for TLC.                                    *)
(***************************************************************************)
EXTENDS SessionPolling
=============================================================================
