----------------------------- MODULE MCNetUtil ------------------------------
(***************************************************************************)
(* Small instances of NetUtil for TLC: a loopback interface and two that   *)
(* can be found.                                                           *)
(***************************************************************************)
EXTENDS NetUtil

MCInterfaces == <<"lo", "eth0", "wlan0">>
MCLoopback == {"lo"}
=============================================================================
