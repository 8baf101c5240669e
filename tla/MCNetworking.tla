---------------------------- MODULE MCNetworking ----------------------------
(***************************************************************************)
(* A guest thread, names of either game, of both and of none, and          *)
(* configurations that switch every member on and off, also two at once.   *)
(***************************************************************************)
EXTENDS Networking, TLC

CONSTANTS t1, t2, plain, fortnite, rockstar, both, e1, e2, g1, r1, r2

Cfg(mode, relay, spoof, ezfn, gtav) ==
  [mode |-> mode, relay |-> relay, spoof_psn |-> spoof,
   server |-> ("ezfn" :> ezfn @@ "gtav" :> gtav)]

MCConfigs ==
  {Cfg("LAN_Play", r2, FALSE, Empty, Empty),
   Cfg("Unofficial_Server", r1, TRUE, e1, Empty),
   Cfg("Unofficial_Server", r1, TRUE, e2, g1),
   Cfg("Unofficial_Server", r1, TRUE, Empty, g1),
   Cfg("LAN_Play", r1, FALSE, e1, g1)}
=============================================================================
