----------------------------- MODULE MCAppMain ------------------------------
(***************************************************************************)
(* Small instances of AppMain for TLC.  Three events allow a quit with a   *)
(* resize before and behind it.                                            *)
(***************************************************************************)
EXTENDS AppMain
=============================================================================
