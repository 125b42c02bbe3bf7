--------------------------- MODULE MCSendCommand ----------------------------
(* A small instance of SendCommand. *)
EXTENDS SendCommand
=============================================================================
