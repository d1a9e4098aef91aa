------------------------------ MODULE MCMediaPath ------------------------------
(***************************************************************************)
(* An instance of MediaPath for TLC, with counters that wrap after a few    *)
(* packets: the encoder returns its last error number or a length.          *)
(***************************************************************************)
EXTENDS MediaPath

EncoderReturns == {-7, 40}
===============================================================================
