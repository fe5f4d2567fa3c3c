------------------------------ MODULE MCEvents ------------------------------
(***************************************************************************)
(* Two publishers and a stream, with a history and a buffer shorter than   *)
(* the log gets.                                                           *)
(***************************************************************************)
EXTENDS Events
=============================================================================
