-------------------------- MODULE NetworkingProofs --------------------------
(***************************************************************************)
(* Proofs about Networking, for any guest threads, names, servers and      *)
(* configurations.                                                         *)
(*                                                                         *)
(* Memory says what current_config holds at every point of an assignment:  *)
(* a mixture of the configuration installed and the new one.  Calls says   *)
(* what a call has found so far, in terms of the configurations in force   *)
(* since it began: each test and each read is accounted for by one of      *)
(* them, which need not be the same one.                                   *)
(***************************************************************************)
EXTENDS Networking, TLAPS

AllConfigs == Configs \cup {InitialConfig}

Busy == at \notin {"idle", "destroyed"}

(* The new mode and relay, the old spoof_psn, and two addresses. *)
Mixture(e, g) ==
  [mode |-> new_config.mode, relay |-> new_config.relay,
   spoof_psn |-> installed.spoof_psn,
   server |-> [x \in Games |-> IF x = "ezfn" THEN e ELSE g]]

Memory ==
  /\ installed \in AllConfigs
  /\ Busy => new_config \in Configs
  /\ at \in {"idle", "destroyed", "mode"} => current_config = installed
  /\ at = "ezfn" => current_config =
       Mixture(installed.server["ezfn"], installed.server["gtav"])
  /\ at = "ezfn copied" => current_config =
       Mixture(HalfCopied("ezfn"), installed.server["gtav"])
  /\ at = "gtav" => current_config =
       Mixture(new_config.server["ezfn"], installed.server["gtav"])
  /\ at = "gtav copied" => current_config =
       Mixture(new_config.server["ezfn"], HalfCopied("gtav"))
  /\ at = "spoof_psn" => current_config =
       Mixture(new_config.server["ezfn"], new_config.server["gtav"])

Typed == TypeOK /\ Memory

USE DEF owner, call

-----------------------------------------------------------------------------
(* A configuration is determined by its members. *)
LEMMA ConfigShape ==
  ASSUME NEW c \in AllConfigs
  PROVE  /\ c \in Config
         /\ c.mode \in Modes /\ c.relay \in Relays /\ c.spoof_psn \in BOOLEAN
         /\ \A g \in Games : c.server[g] \in Servers[g] \cup {Empty}
         /\ c = [mode |-> c.mode, relay |-> c.relay, spoof_psn |-> c.spoof_psn,
                 server |-> [x \in Games |-> IF x = "ezfn" THEN c.server["ezfn"]
                                             ELSE c.server["gtav"]]]
<1>1. /\ InitialConfig \in Config
      /\ \A g \in Games : InitialConfig.server[g] \in Servers[g] \cup {Empty}
  BY NetworkingAssumption DEF InitialConfig, Config, Modes, Games, Servers
<1>2. c \in Config /\ \A g \in Games : c.server[g] \in Servers[g] \cup {Empty}
  BY <1>1, NetworkingAssumption DEF AllConfigs
<1>3. /\ c.mode \in Modes /\ c.relay \in Relays /\ c.spoof_psn \in BOOLEAN
      /\ c = [mode |-> c.mode, relay |-> c.relay, spoof_psn |-> c.spoof_psn,
              server |-> c.server]
      /\ c.server \in [Games -> EzfnServers \cup GtavServers \cup {Empty, Garbled}]
  BY <1>2 DEF Config
<1>4. c.server = [x \in Games |-> IF x = "ezfn" THEN c.server["ezfn"] ELSE c.server["gtav"]]
  BY <1>3 DEF Games
<1> QED
  BY <1>2, <1>3, <1>4

(* Assigning an address to a mixture gives a mixture. *)
LEMMA AssignMixture ==
  ASSUME NEW e, NEW g, NEW s, current_config = Mixture(e, g)
  PROVE  /\ AssignServer("ezfn", s) = Mixture(s, g)
         /\ AssignServer("gtav", s) = Mixture(e, s)
<1>1. /\ current_config.server = [x \in Games |-> IF x = "ezfn" THEN e ELSE g]
      /\ current_config.mode = new_config.mode
      /\ current_config.relay = new_config.relay
      /\ current_config.spoof_psn = installed.spoof_psn
  BY DEF Mixture
<1>2. /\ [current_config.server EXCEPT !["ezfn"] = s]
            = [x \in Games |-> IF x = "ezfn" THEN s ELSE g]
      /\ [current_config.server EXCEPT !["gtav"] = s]
            = [x \in Games |-> IF x = "ezfn" THEN e ELSE s]
  BY <1>1 DEF Games
<1>3. \A f : [current_config EXCEPT !.server = f]
            = [mode |-> new_config.mode, relay |-> new_config.relay,
               spoof_psn |-> installed.spoof_psn, server |-> f]
  BY DEF Mixture
<1> QED
  BY <1>2, <1>3 DEF AssignServer, Mixture

(* A mixture of addresses that the members may hold is a configuration. *)
LEMMA MixtureType ==
  ASSUME installed \in AllConfigs, new_config \in Configs,
         NEW e \in EzfnServers \cup {Empty, Garbled},
         NEW g \in GtavServers \cup {Empty, Garbled}
  PROVE  Mixture(e, g) \in Config
<1>1. /\ installed.spoof_psn \in BOOLEAN
      /\ new_config.mode \in Modes /\ new_config.relay \in Relays
  BY ConfigShape DEF AllConfigs
<1> QED
  BY <1>1 DEF Mixture, Config

(***************************************************************************)
(* What a read of an address or of spoof_psn may find, at any point.       *)
(***************************************************************************)
LEMMA ReadMemory ==
  ASSUME Typed
  PROVE  /\ \E c \in InForce : current_config.spoof_psn = c.spoof_psn
         /\ \A g \in Games :
              \/ \E c \in InForce : current_config.server[g] = c.server[g]
              \/ /\ current_config.server[g] = Garbled
                 /\ installed.server[g] # new_config.server[g]
                 /\ InForce = {installed, new_config}
         /\ InForce \subseteq AllConfigs /\ installed \in InForce
<1>1. /\ Busy => InForce = {installed, new_config}
      /\ ~Busy => InForce = {installed} /\ current_config = installed
      /\ installed \in AllConfigs /\ (Busy => new_config \in AllConfigs)
  BY DEF Typed, Memory, InForce, Busy, AllConfigs
<1>2. CASE ~Busy \/ at = "mode"
  BY <1>1, <1>2 DEF Typed, Memory, Busy
<1>3. CASE Busy /\ at # "mode"
  <2>1. at \in {"ezfn", "ezfn copied", "gtav", "gtav copied", "spoof_psn"}
    BY <1>3 DEF Typed, TypeOK, Busy
  <2>2. PICK e \in {installed.server["ezfn"], HalfCopied("ezfn"), new_config.server["ezfn"]},
             g \in {installed.server["gtav"], HalfCopied("gtav"), new_config.server["gtav"]} :
               current_config = Mixture(e, g)
    BY <2>1 DEF Typed, Memory
  <2>3. /\ current_config.spoof_psn = installed.spoof_psn
        /\ current_config.server["ezfn"] = e /\ current_config.server["gtav"] = g
    BY <2>2 DEF Mixture, Games
  <2> QED
    BY <1>1, <1>3, <2>2, <2>3 DEF HalfCopied, Games
<1> QED
  BY <1>2, <1>3

-----------------------------------------------------------------------------
LEMMA InitTyped == Init => Typed
<1> SUFFICES ASSUME Init PROVE Typed
  OBVIOUS
<1>1. InitialConfig \in AllConfigs
  BY DEF AllConfigs
<1>2. InitialConfig \in Config
  BY <1>1, ConfigShape
<1>3. TypeOK
  BY <1>2 DEF Init, TypeOK, Games
<1>4. Memory
  BY <1>1 DEF Init, Memory, Busy
<1> QED
  BY <1>3, <1>4 DEF Typed

LEMMA TypedAssign == Typed /\ AssignConfig => Typed'
<1> SUFFICES ASSUME Typed, AssignConfig PROVE Typed'
  OBVIOUS
<1>0. /\ Busy /\ new_config \in Configs /\ installed \in AllConfigs
      /\ new_config \in AllConfigs
  BY DEF AssignConfig, Assign, AssignLast, Busy, Typed, Memory, AllConfigs
<1>t. /\ \A g \in Games : /\ installed.server[g] \in Servers[g] \cup {Empty}
                          /\ new_config.server[g] \in Servers[g] \cup {Empty}
                          /\ HalfCopied(g) \in Servers[g] \cup {Empty, Garbled}
  BY <1>0, ConfigShape DEF HalfCopied
<1>s. Servers["ezfn"] = EzfnServers /\ Servers["gtav"] = GtavServers
  BY DEF Servers
<1>1. CASE Assign("mode", "ezfn", [current_config EXCEPT
                     !.mode = new_config.mode, !.relay = new_config.relay])
  <2>1. current_config = installed
    BY <1>1 DEF Assign, Typed, Memory
  <2>2. current_config' = Mixture(installed.server["ezfn"], installed.server["gtav"])
    <3>1. installed = [mode |-> installed.mode, relay |-> installed.relay,
                       spoof_psn |-> installed.spoof_psn,
                       server |-> [x \in Games |-> IF x = "ezfn" THEN installed.server["ezfn"]
                                                   ELSE installed.server["gtav"]]]
      BY <1>0, ConfigShape
    <3> DEFINE f == [x \in Games |-> IF x = "ezfn" THEN installed.server["ezfn"]
                                     ELSE installed.server["gtav"]]
    <3>2. installed = [mode |-> installed.mode, relay |-> installed.relay,
                       spoof_psn |-> installed.spoof_psn, server |-> f]
      BY <3>1
    <3>4. Mixture(installed.server["ezfn"], installed.server["gtav"])
            = [mode |-> new_config.mode, relay |-> new_config.relay,
               spoof_psn |-> installed.spoof_psn, server |-> f]
      BY DEF Mixture
    <3> HIDE DEF f
    <3>3. [current_config EXCEPT !.mode = new_config.mode, !.relay = new_config.relay]
            = [mode |-> new_config.mode, relay |-> new_config.relay,
               spoof_psn |-> installed.spoof_psn, server |-> f]
      <4> DEFINE half == [current_config EXCEPT !.mode = new_config.mode]
      <4>1. current_config = [mode |-> installed.mode, relay |-> installed.relay,
                              spoof_psn |-> installed.spoof_psn, server |-> f]
        BY <2>1, <3>2
      <4>2. half = [mode |-> new_config.mode, relay |-> installed.relay,
                    spoof_psn |-> installed.spoof_psn, server |-> f]
        BY <4>1
      <4>3. [half EXCEPT !.relay = new_config.relay]
              = [mode |-> new_config.mode, relay |-> new_config.relay,
                 spoof_psn |-> installed.spoof_psn, server |-> f]
        <5> HIDE DEF half
        <5> QED
          BY <4>2
      <4> QED
        BY <4>3
    <3>5. current_config' =
            [current_config EXCEPT !.mode = new_config.mode, !.relay = new_config.relay]
      BY <1>1 DEF Assign
    <3>6. current_config' = [mode |-> new_config.mode, relay |-> new_config.relay,
                             spoof_psn |-> installed.spoof_psn, server |-> f]
      BY <3>3, <3>5
    <3> QED
      BY <3>4, <3>6
  <2>3. current_config' \in Config
    BY <1>0, <1>t, <1>s, <2>2, MixtureType DEF Games
  <2> QED
    BY <1>0, <1>1, <2>2, <2>3 DEF Assign, Typed, TypeOK, Memory, Busy, Mixture
<1> DEFINE oe == installed.server["ezfn"]
           og == installed.server["gtav"]
           ne == new_config.server["ezfn"]
           ng == new_config.server["gtav"]
           he == HalfCopied("ezfn")
           hg == HalfCopied("gtav")
           Es == Servers["ezfn"] \cup {Empty, Garbled}
           Gs == Servers["gtav"] \cup {Empty, Garbled}
           Same == UNCHANGED <<is_initialized, tunnel, new_config, installed,
                               byMode, call, gateway>>
<1>2. ASSUME NEW from, NEW to, NEW s \in Es, NEW e \in Es, NEW g \in Gs,
             Assign(from, to, AssignServer("ezfn", s)), current_config = Mixture(e, g)
      PROVE  /\ current_config' = Mixture(s, g) /\ current_config' \in Config
             /\ at = from /\ at' = to /\ Same
  <2>1. current_config' = AssignServer("ezfn", s)
    BY <1>2 DEF Assign
  <2>2. current_config' = Mixture(s, g)
    BY <1>2, <2>1, AssignMixture
  <2>3. Mixture(s, g) \in Config
    BY <1>0, <1>2, <1>s, MixtureType
  <2> QED
    BY <1>2, <2>2, <2>3 DEF Assign
<1>8. ASSUME NEW from, NEW to, NEW s \in Gs, NEW e \in Es, NEW g \in Gs,
             Assign(from, to, AssignServer("gtav", s)), current_config = Mixture(e, g)
      PROVE  /\ current_config' = Mixture(e, s) /\ current_config' \in Config
             /\ at = from /\ at' = to /\ Same
  <2>1. current_config' = AssignServer("gtav", s)
    BY <1>8 DEF Assign
  <2>2. current_config' = Mixture(e, s)
    BY <1>8, <2>1, AssignMixture
  <2>3. Mixture(e, s) \in Config
    BY <1>0, <1>8, <1>s, MixtureType
  <2> QED
    BY <1>8, <2>2, <2>3 DEF Assign
<1>g. /\ oe \in Es /\ ne \in Es /\ he \in Es
      /\ og \in Gs /\ ng \in Gs /\ hg \in Gs
  BY <1>t DEF Games
<1>m. /\ at = "ezfn" => current_config = Mixture(oe, og)
      /\ at = "ezfn copied" => current_config = Mixture(he, og)
      /\ at = "gtav" => current_config = Mixture(ne, og)
      /\ at = "gtav copied" => current_config = Mixture(ne, hg)
      /\ at = "spoof_psn" => current_config = Mixture(ne, ng)
  BY DEF Typed, Memory
<1>3. CASE Assign("ezfn", "ezfn copied", AssignServer("ezfn", he))
  <2>1. at = "ezfn" /\ current_config = Mixture(oe, og)
    BY <1>3, <1>m DEF Assign
  <2>2. /\ current_config' = Mixture(he, og) /\ current_config' \in Config
        /\ at' = "ezfn copied" /\ Same
    <3> HIDE DEF oe, og, ne, ng, he, hg, Es, Gs, Same
    <3> QED
      BY <1>3, <1>g, <1>2, <2>1
  <2> QED
    BY <1>0, <2>1, <2>2 DEF Typed, TypeOK, Memory, Busy, Mixture, HalfCopied
<1>4. CASE Assign("ezfn copied", "gtav", AssignServer("ezfn", ne))
  <2>1. at = "ezfn copied" /\ current_config = Mixture(he, og)
    BY <1>4, <1>m DEF Assign
  <2>2. /\ current_config' = Mixture(ne, og) /\ current_config' \in Config
        /\ at' = "gtav" /\ Same
    <3> HIDE DEF oe, og, ne, ng, he, hg, Es, Gs, Same
    <3> QED
      BY <1>4, <1>g, <1>2, <2>1
  <2> QED
    BY <1>0, <2>1, <2>2 DEF Typed, TypeOK, Memory, Busy, Mixture, HalfCopied
<1>5. CASE Assign("gtav", "gtav copied", AssignServer("gtav", hg))
  <2>1. at = "gtav" /\ current_config = Mixture(ne, og)
    BY <1>5, <1>m DEF Assign
  <2>2. /\ current_config' = Mixture(ne, hg) /\ current_config' \in Config
        /\ at' = "gtav copied" /\ Same
    <3> HIDE DEF oe, og, ne, ng, he, hg, Es, Gs, Same
    <3> QED
      BY <1>5, <1>g, <1>8, <2>1
  <2> QED
    BY <1>0, <2>1, <2>2 DEF Typed, TypeOK, Memory, Busy, Mixture, HalfCopied
<1>6. CASE Assign("gtav copied", "spoof_psn", AssignServer("gtav", ng))
  <2>1. at = "gtav copied" /\ current_config = Mixture(ne, hg)
    BY <1>6, <1>m DEF Assign
  <2>2. /\ current_config' = Mixture(ne, ng) /\ current_config' \in Config
        /\ at' = "spoof_psn" /\ Same
    <3> HIDE DEF oe, og, ne, ng, he, hg, Es, Gs, Same
    <3> QED
      BY <1>6, <1>g, <1>8, <2>1
  <2> QED
    BY <1>0, <2>1, <2>2 DEF Typed, TypeOK, Memory, Busy, Mixture, HalfCopied
<1>7. CASE AssignLast
  <2>1. /\ at = "spoof_psn" /\ current_config = Mixture(ne, ng)
    BY <1>7, <1>m DEF AssignLast
  <2>2. current_config' = new_config
    <3>1. new_config = [mode |-> new_config.mode, relay |-> new_config.relay,
                        spoof_psn |-> new_config.spoof_psn,
                        server |-> [x \in Games |-> IF x = "ezfn" THEN ne ELSE ng]]
      BY <1>0, ConfigShape
    <3> DEFINE f == [x \in Games |-> IF x = "ezfn" THEN ne ELSE ng]
    <3>2. /\ new_config = [mode |-> new_config.mode, relay |-> new_config.relay,
                           spoof_psn |-> new_config.spoof_psn, server |-> f]
          /\ current_config = [mode |-> new_config.mode, relay |-> new_config.relay,
                               spoof_psn |-> installed.spoof_psn, server |-> f]
      BY <2>1, <3>1 DEF Mixture
    <3> HIDE DEF f
    <3>3. [current_config EXCEPT !.spoof_psn = new_config.spoof_psn] = new_config
      BY <3>2
    <3> QED
      BY <1>7, <3>3 DEF AssignLast
  <2>3. new_config \in Config
    BY <1>0, ConfigShape
  <2>4. /\ at' = "idle" /\ new_config' = None /\ installed' = new_config
        /\ UNCHANGED <<is_initialized, tunnel, byMode, call, gateway>>
    BY <1>7 DEF AssignLast
  <2> QED
    BY <1>0, <2>2, <2>3, <2>4 DEF Typed, TypeOK, Memory, Busy, AllConfigs
<1> QED
  BY <1>1, <1>3, <1>4, <1>5, <1>6, <1>7 DEF AssignConfig

LEMMA TypedOwner == Typed /\ OwnerNext => Typed'
<1> SUFFICES ASSUME Typed, OwnerNext PROVE Typed'
  OBVIOUS
<1> DEFINE Elsewhere == UNCHANGED <<current_config, installed, gateway, pc, host, game, answer>>
<1>1. ASSUME \/ at = "idle" /\ at' \in {"idle", "destroyed"} /\ new_config' = new_config
             \/ at = "idle" /\ at' = "mode" /\ new_config' \in Configs,
             Elsewhere,
             is_initialized' \in BOOLEAN, byMode' \in BOOLEAN,
             tunnel' \in Tunnels \cup {None},
             seen' \in [Threads -> SUBSET AllConfigs]
      PROVE  Typed'
  <2>1. TypeOK'
    BY <1>1 DEF Typed, TypeOK, AllConfigs
  <2>2. Memory'
    BY <1>1 DEF Typed, Memory, Busy
  <2> QED
    BY <2>1, <2>2 DEF Typed
<1>2. /\ is_initialized \in BOOLEAN /\ byMode \in BOOLEAN
      /\ tunnel \in Tunnels \cup {None}
      /\ seen \in [Threads -> SUBSET AllConfigs]
      /\ current_config.relay \in Relays
  BY DEF Typed, TypeOK, Config, AllConfigs
<1>3. StartTunnel \/ StopTunnel \/ UNCHANGED tunnel
        => tunnel' \in Tunnels \cup {None}
  <2>1. (~is_initialized) \in BOOLEAN
    BY <1>2
  <2>2. [relay |-> current_config.relay, early |-> ~is_initialized] \in Tunnels
    BY <1>2, <2>1 DEF Tunnels
  <2> QED
    BY <1>2, <2>2 DEF StartTunnel, StopTunnel
<1>4. CASE InitCore
  BY <1>1, <1>2, <1>4 DEF InitCore
<1>5. CASE Shutdown \/ Destroy
  BY <1>1, <1>2, <1>3, <1>5 DEF Shutdown, Destroy, DoShutdown, StopTunnel
<1>6. CASE StartLANPlayTunnel \/ StopLANPlayTunnel
  BY <1>1, <1>2, <1>3, <1>6 DEF StartLANPlayTunnel, StopLANPlayTunnel
<1>7. ASSUME NEW c \in Configs, UpdateConfig(c) PROVE Typed'
  <2>1. seen' \in [Threads -> SUBSET AllConfigs]
    BY <1>2, <1>7 DEF UpdateConfig, AllConfigs
  <2> QED
    BY <1>1, <1>2, <1>3, <1>7, <2>1 DEF UpdateConfig
<1>8. CASE AssignConfig
  BY <1>8, TypedAssign
<1> QED
  BY <1>4, <1>5, <1>6, <1>7, <1>8 DEF OwnerNext

LEMMA TypedGuest ==
  ASSUME Typed, NEW t \in Threads, GuestNext(t)
  PROVE  Typed'
<1>1. UNCHANGED owner
  BY DEF GuestNext, ResolveHostname, CheckSpoof, TestServer, Return, GetDefaultGateway
<1>2. Memory'
  BY <1>1 DEF Typed, Memory, Busy, Mixture, HalfCopied
<1>3. InForce \subseteq AllConfigs
  BY ReadMemory
<1>4. \A g \in Games : current_config.server[g]
                        \in EzfnServers \cup GtavServers \cup {Empty, Garbled}
  BY DEF Typed, TypeOK, Config
<1>5. TypeOK'
  <2>1. CASE \E h \in Hosts : ResolveHostname(t, h)
    <3>1. seen' \in [Threads -> SUBSET AllConfigs]
      <4>1. seen \in [Threads -> SUBSET AllConfigs]
        BY DEF Typed, TypeOK, AllConfigs
      <4>2. seen' = [seen EXCEPT ![t] = InForce]
        BY <2>1 DEF ResolveHostname
      <4> QED
        BY <1>3, <4>1, <4>2
    <3>2. /\ pc' \in [Threads -> {"out", "spoof_psn", "test", "read", "hostname"}]
          /\ host' \in [Threads -> Hosts \cup {None}]
          /\ answer' \in [Threads -> Hosts \cup EzfnServers \cup GtavServers
                                     \cup {Empty, Garbled, None}]
          /\ gateway' \in [Threads -> {"none", "defaultgateway", "temporary"}]
          /\ game' = game
      <4>1. PICK h \in Hosts : ResolveHostname(t, h)
        BY <2>1
      <4>2. pc' \in [Threads -> {"out", "spoof_psn", "test", "read", "hostname"}]
        BY <4>1 DEF Typed, TypeOK, ResolveHostname, Goto
      <4>3. /\ host' \in [Threads -> Hosts \cup {None}]
            /\ game' = game
        BY <4>1 DEF Typed, TypeOK, ResolveHostname
      <4>4. /\ answer' \in [Threads -> Hosts \cup EzfnServers \cup GtavServers
                                       \cup {Empty, Garbled, None}]
            /\ gateway' \in [Threads -> {"none", "defaultgateway", "temporary"}]
        BY <4>1 DEF Typed, TypeOK, ResolveHostname
      <4> QED
        BY <4>2, <4>3, <4>4
    <3> QED
      BY <1>1, <3>1, <3>2 DEF Typed, TypeOK, AllConfigs
  <2>2. CASE CheckSpoof(t)
    BY <1>1, <2>2 DEF Typed, TypeOK, CheckSpoof, Goto, Games
  <2>3. CASE TestServer(t)
    BY <1>1, <2>3 DEF Typed, TypeOK, TestServer, Goto, Games
  <2>4. CASE Return(t)
    <3>1. answer' \in [Threads -> Hosts \cup EzfnServers \cup GtavServers
                                  \cup {Empty, Garbled, None}]
      <4>1. host[t] \in Hosts \cup {None} /\ game[t] \in Games
        BY DEF Typed, TypeOK
      <4> QED
        BY <1>4, <2>4, <4>1 DEF Typed, TypeOK, Return
    <3>2. pc' \in [Threads -> {"out", "spoof_psn", "test", "read", "hostname"}]
      BY <2>4 DEF Typed, TypeOK, Return, Goto
    <3>3. game' \in [Threads -> Games] /\ UNCHANGED <<host, seen, gateway>>
      BY <2>4 DEF Typed, TypeOK, Return, Games
    <3> QED
      BY <1>1, <3>1, <3>2, <3>3 DEF Typed, TypeOK
  <2>5. CASE GetDefaultGateway(t)
    BY <1>1, <2>5 DEF Typed, TypeOK, GetDefaultGateway
  <2> QED
    BY <2>1, <2>2, <2>3, <2>4, <2>5 DEF GuestNext
<1> QED
  BY <1>2, <1>5 DEF Typed

LEMMA TypedStep == Typed /\ [Next]_vars => Typed'
<1> SUFFICES ASSUME Typed, [Next]_vars PROVE Typed'
  OBVIOUS
<1>1. CASE UNCHANGED vars
  <2>1. TypeOK'
    BY <1>1 DEF vars, Typed, TypeOK
  <2>2. Memory'
    BY <1>1 DEF vars, Typed, Memory, Busy, Mixture, HalfCopied
  <2> QED
    BY <2>1, <2>2 DEF Typed
<1> QED
  BY <1>1, TypedOwner, TypedGuest DEF Next

(***************************************************************************)
(* Every variable keeps its type, and current_config is the configuration  *)
(* last installed whenever no update is under way.                         *)
(***************************************************************************)
THEOREM TypeCorrect == Spec => []TypeOK
<1>1. Typed => TypeOK
  BY DEF Typed
<1> QED
  BY <1>1, InitTyped, TypedStep, PTL DEF Spec

LEMMA AlwaysTyped == Spec => []Typed
BY InitTyped, TypedStep, PTL DEF Spec

-----------------------------------------------------------------------------
Tunnel == TunnelFollowsMode /\ ShutdownStopsTunnel

LEMMA TunnelStep == Typed /\ Tunnel /\ [Next]_vars => Tunnel'
<1> SUFFICES ASSUME Typed, Tunnel, [Next]_vars PROVE Tunnel'
  OBVIOUS
<1> USE DEF Tunnel, TunnelFollowsMode, ShutdownStopsTunnel, Latest
<1>1. /\ \A x \in Tunnels : x # None
      /\ [relay |-> current_config.relay, early |-> ~is_initialized] \in Tunnels
      /\ [relay |-> current_config.relay, early |-> ~is_initialized].early = ~is_initialized
      /\ is_initialized \in BOOLEAN /\ byMode \in BOOLEAN
  <2>1. (~is_initialized) \in BOOLEAN
    BY DEF Typed, TypeOK
  <2> QED
    BY <2>1, NetworkingAssumption DEF Typed, TypeOK, Config, Tunnels
<1>2. at = "idle" => current_config = installed
  BY DEF Typed, TypeOK
<1>3. CASE InitCore
  BY <1>3 DEF InitCore
<1>4. CASE Shutdown \/ Destroy
  <2>1. CASE Shutdown
    <3>1. at = "idle" /\ at' = "idle" /\ current_config' = current_config /\ DoShutdown
      BY <2>1 DEF Shutdown
    <3> QED
      BY <3>1 DEF DoShutdown, StopTunnel
  <2>2. CASE Destroy
    <3>1. /\ at = "idle" /\ current_config' = current_config
          /\ tunnel' = None /\ byMode' = (byMode /\ tunnel = None)
      BY <2>2 DEF Destroy, StopTunnel
    <3>2. Latest' = Latest
      BY <3>1, <2>2 DEF Destroy
    <3> QED
      BY <3>1, <3>2
  <2> QED
    BY <1>4, <2>1, <2>2
<1>5. CASE StartLANPlayTunnel \/ StopLANPlayTunnel
  <2>1. CASE StartLANPlayTunnel
    <3>1. CASE tunnel # None
      BY <2>1, <3>1 DEF StartLANPlayTunnel, StartTunnel
    <3>2. CASE tunnel = None
      BY <1>1, <2>1, <3>2 DEF StartLANPlayTunnel, StartTunnel
    <3> QED
      BY <3>1, <3>2
  <2>2. CASE StopLANPlayTunnel
    BY <2>2 DEF StopLANPlayTunnel, StopTunnel
  <2> QED
    BY <1>5, <2>1, <2>2
<1>6. ASSUME NEW c \in Configs, UpdateConfig(c) PROVE Tunnel'
  <2>1. /\ at = "idle" /\ at' = "mode" /\ new_config' = c
        /\ is_initialized' = is_initialized
    BY <1>6 DEF UpdateConfig
  <2>2. CASE IsLAN(current_config) /\ ~IsLAN(c)
    BY <1>6, <2>1, <2>2 DEF UpdateConfig, StopTunnel, IsLAN
  <2>3. CASE ~IsLAN(current_config) /\ IsLAN(c)
    <3>1. byMode' = TRUE /\ StartTunnel
      BY <1>6, <2>3 DEF UpdateConfig
    <3>2. tunnel' # None
      BY <1>1, <3>1 DEF StartTunnel
    <3> DEFINE fresh == [relay |-> current_config.relay, early |-> ~is_initialized]
    <3>4. tunnel' = IF tunnel # None THEN tunnel ELSE fresh
      BY <3>1 DEF StartTunnel
    <3>5. fresh.early = ~is_initialized
      BY <1>1
    <3>3. tunnel' = tunnel \/ (tunnel = None /\ tunnel'.early = ~is_initialized)
      <4> HIDE DEF fresh
      <4> QED
        BY <3>4, <3>5
    <3> QED
      BY <2>1, <2>3, <3>1, <3>2, <3>3 DEF IsLAN
  <2>4. CASE IsLAN(current_config) <=> IsLAN(c)
    BY <1>6, <2>1, <2>4 DEF UpdateConfig, IsLAN
  <2> QED
    BY <2>2, <2>3, <2>4
<1>7. CASE AssignConfig
  <2>1. UNCHANGED <<tunnel, byMode, is_initialized>>
    BY <1>7 DEF AssignConfig, Assign, AssignLast
  <2>2. Latest' = Latest
    <3>1. CASE AssignLast
      <4>1. Typed'
        BY <1>7, TypedAssign
      <4>2. at = "spoof_psn" /\ at' = "idle" /\ installed' = new_config
        BY <3>1 DEF AssignLast
      <4> QED
        BY <4>1, <4>2 DEF Typed, TypeOK
    <3>2. CASE ~AssignLast
      <4>1. /\ at \notin {"idle", "destroyed"} /\ at' \notin {"idle", "destroyed"}
            /\ new_config' = new_config
        BY <1>7, <3>2 DEF AssignConfig, Assign
      <4> QED
        BY <4>1
    <3> QED
      BY <3>1, <3>2
  <2>3. at' # "destroyed"
    BY <1>7 DEF AssignConfig, Assign, AssignLast
  <2> QED
    BY <2>1, <2>2, <2>3
<1>8. CASE UNCHANGED owner
  BY <1>8
<1>9. ASSUME NEW t \in Threads, GuestNext(t) PROVE UNCHANGED owner
  BY <1>9 DEF GuestNext, ResolveHostname, CheckSpoof, TestServer, Return, GetDefaultGateway
<1> QED
  BY <1>3, <1>4, <1>5, <1>6, <1>7, <1>8, <1>9 DEF Next, OwnerNext, vars

(***************************************************************************)
(* The tunnel runs exactly in LAN play mode as long as nothing but changes *)
(* of mode touched it, at every point of an update.                        *)
(***************************************************************************)
THEOREM TunnelMode == Spec => []TunnelFollowsMode
<1>1. Init => Tunnel
  BY DEF Init, Tunnel, TunnelFollowsMode, ShutdownStopsTunnel, Latest, IsLAN, InitialConfig
<1>2. Tunnel => TunnelFollowsMode
  BY DEF Tunnel
<1> QED
  BY <1>1, <1>2, TunnelStep, AlwaysTyped, PTL DEF Spec

(***************************************************************************)
(* A Shutdown that does anything leaves no tunnel running, and the end of  *)
(* the object leaves none at all.                                          *)
(***************************************************************************)
THEOREM TunnelShutdown == Spec => []ShutdownStopsTunnel
<1>1. Init => Tunnel
  BY DEF Init, Tunnel, TunnelFollowsMode, ShutdownStopsTunnel, Latest, IsLAN, InitialConfig
<1>2. Tunnel => ShutdownStopsTunnel
  BY DEF Tunnel
<1> QED
  BY <1>1, <1>2, TunnelStep, AlwaysTyped, PTL DEF Spec

-----------------------------------------------------------------------------
(* Some configuration in force does not redirect the name. *)
Refused(t) ==
  \/ \E c \in seen[t] : ~c.spoof_psn
  \/ \A g \in Games : host[t] \in HostsOf[g] => \E c \in seen[t] : c.server[g] = Empty

(* Game g is that of the name, spoofing was on, and no game was passed over in vain. *)
Chosen(t, g) ==
  /\ g \in Games /\ host[t] \in HostsOf[g]
  /\ \E c \in seen[t] : c.spoof_psn
  /\ g = "gtav" /\ host[t] \in EzfnHosts =>
       \E c \in seen[t] : c.server["ezfn"] = Empty

(* What the address of g may be when it is read for an answer. *)
Found(t, g) ==
  \/ answer[t] \in {c.server[g] : c \in seen[t]} \ {Empty}
  \/ /\ answer[t] \in {Empty, Garbled}
     /\ \E c, d \in seen[t] : c.server[g] # d.server[g]

CallOK(t) ==
  /\ pc[t] # "out" => host[t] \in Hosts /\ InForce \subseteq seen[t]
  /\ pc[t] \in {"test", "read"} => Chosen(t, game[t])
  /\ pc[t] = "read" => \E c \in seen[t] : c.server[game[t]] # Empty
  /\ pc[t] = "hostname" => Refused(t)
  /\ Answered(t) =>
       /\ host[t] \in Hosts /\ seen[t] # {} /\ seen[t] \subseteq AllConfigs
       /\ \/ answer[t] = host[t] /\ Refused(t)
          \/ \E g \in Games : Chosen(t, g) /\ Found(t, g)

Calls == \A t \in Threads : CallOK(t)

(* More configurations in force do not disturb what a call has found. *)
LEMMA CallKept ==
  ASSUME NEW t \in Threads, CallOK(t),
         UNCHANGED <<pc[t], host[t], game[t], answer[t]>>,
         seen[t] \subseteq seen[t]', pc[t] = "out" => UNCHANGED seen[t],
         pc[t] # "out" => InForce' \subseteq seen[t]'
  PROVE  CallOK(t)'
<1>1. \A g \in Games : (Chosen(t, g) => Chosen(t, g)')
  BY DEF Chosen
<1>2. Refused(t) => Refused(t)'
  BY DEF Refused
<1>3. pc[t] # "out" => CallOK(t)'
  <2> SUFFICES ASSUME pc[t] # "out" PROVE CallOK(t)'
    OBVIOUS
  <2> USE DEF CallOK
  <2>1. (pc[t] \in {"test", "read"})' => Chosen(t, game[t])'
    <3> SUFFICES ASSUME pc[t] \in {"test", "read"} PROVE Chosen(t, game[t])'
      OBVIOUS
    <3>1. Chosen(t, game[t])
      OBVIOUS
    <3> QED
      BY <3>1 DEF Chosen
  <2> QED
    BY <2>1, <1>2 DEF Answered
<1>4. pc[t] = "out" => CallOK(t)'
  BY DEF CallOK, Answered, Refused, Chosen, Found
<1> QED
  BY <1>3, <1>4

LEMMA CallsOwner == Typed /\ Calls /\ OwnerNext => Calls'
<1> SUFFICES ASSUME Typed, Calls, OwnerNext, NEW t \in Threads PROVE CallOK(t)'
  BY DEF Calls
<1>0. CallOK(t) /\ (pc[t] # "out" => InForce \subseteq seen[t])
  BY DEF Calls, CallOK
<1>1. ASSUME NEW c \in Configs, UpdateConfig(c) PROVE CallOK(t)'
  <2>1. /\ at = "idle" /\ at' = "mode" /\ new_config' = c /\ installed' = installed
        /\ UNCHANGED <<pc, host, game, answer>>
    BY <1>1 DEF UpdateConfig
  <2>2. seen'[t] = IF pc[t] = "out" THEN seen[t] ELSE seen[t] \cup {c}
    BY <1>1 DEF UpdateConfig
  <2>3. InForce = {installed} /\ InForce' = {installed, c}
    BY <2>1 DEF InForce
  <2> QED
    BY <1>0, <2>1, <2>2, <2>3, CallKept
<1>2. ASSUME UNCHANGED call, InForce' \subseteq InForce PROVE CallOK(t)'
  BY <1>0, <1>2, CallKept
<1>3. CASE InitCore \/ Shutdown \/ Destroy \/ StartLANPlayTunnel \/ StopLANPlayTunnel
  BY <1>2, <1>3 DEF InitCore, Shutdown, Destroy, StartLANPlayTunnel, StopLANPlayTunnel, InForce
<1>4. CASE AssignConfig
  BY <1>2, <1>4 DEF AssignConfig, Assign, AssignLast, InForce
<1> QED
  BY <1>1, <1>3, <1>4 DEF OwnerNext

(* The emptiness test is that of a configuration in force. *)
LEMMA TestEmpty ==
  ASSUME Typed, NEW g \in Games, NEW e \in IsEmpty(g)
  PROVE  /\ e = TRUE => \E c \in InForce : c.server[g] = Empty
         /\ e = FALSE => \E c \in InForce : c.server[g] # Empty
<1>1. CASE current_config.server[g] = Garbled
  <2>1. \A c \in AllConfigs : c.server[g] # Garbled
    BY ConfigShape, NetworkingAssumption DEF Servers, Games
  <2>2. InForce = {installed, new_config}
    BY <1>1, <2>1, ReadMemory
  <2> QED
    BY <1>1, <2>2 DEF IsEmpty
<1>2. CASE current_config.server[g] # Garbled
  <2>1. \E c \in InForce : current_config.server[g] = c.server[g]
    BY <1>2, ReadMemory
  <2> QED
    BY <1>2, <2>1 DEF IsEmpty
<1> QED
  BY <1>1, <1>2

LEMMA CallsGuest ==
  ASSUME Typed, Calls, NEW t \in Threads, GuestNext(t)
  PROVE  Calls'
<1> SUFFICES ASSUME NEW u \in Threads PROVE CallOK(u)'
  BY DEF Calls
<1>0. /\ UNCHANGED owner /\ InForce' = InForce
      /\ CallOK(t) /\ CallOK(u)
      /\ pc[t] # "out" => host[t] \in Hosts /\ InForce \subseteq seen[t]
      /\ InForce # {} /\ InForce \subseteq AllConfigs
      /\ game[t] \in Games
  <2>1. UNCHANGED owner
    BY DEF GuestNext, ResolveHostname, CheckSpoof, TestServer, Return, GetDefaultGateway
  <2>2. InForce' = InForce
    BY <2>1 DEF InForce
  <2>3. InForce # {} /\ InForce \subseteq AllConfigs
    BY ReadMemory
  <2> QED
    BY <2>1, <2>2, <2>3 DEF Calls, CallOK, Typed, TypeOK
<1>t. /\ pc \in [Threads -> {"out", "spoof_psn", "test", "read", "hostname"}]
      /\ host \in [Threads -> Hosts \cup {None}]
      /\ game \in [Threads -> Games]
      /\ answer \in [Threads -> Hosts \cup EzfnServers \cup GtavServers
                                \cup {Empty, Garbled, None}]
      /\ seen \in [Threads -> SUBSET AllConfigs]
  BY DEF Typed, TypeOK, AllConfigs
<1>1. CASE u # t
  <2>1. UNCHANGED <<pc[u], host[u], game[u], answer[u], seen[u]>>
    BY <1>t, <1>1 DEF GuestNext, ResolveHostname, CheckSpoof, TestServer, Return,
                      GetDefaultGateway, Goto
  <2> QED
    BY <1>0, <2>1, CallKept DEF CallOK
<1>2. ASSUME NEW h \in Hosts, ResolveHostname(t, h) PROVE CallOK(t)'
  <2>1. pc'[t] = "spoof_psn" /\ host'[t] = h /\ seen'[t] = InForce
    BY <1>t, <1>2 DEF ResolveHostname, Goto
  <2> QED
    BY <1>0, <2>1 DEF CallOK, Answered
<1>3. ASSUME CheckSpoof(t) PROVE CallOK(t)'
  <2>0. /\ pc[t] = "spoof_psn" /\ host[t] \in Hosts /\ InForce \subseteq seen[t]
        /\ UNCHANGED <<host, answer, seen>>
    BY <1>0, <1>3 DEF CheckSpoof, Goto
  <2>s. PICK c \in InForce : current_config.spoof_psn = c.spoof_psn
    BY ReadMemory
  <2>1. CASE /\ current_config.spoof_psn
             /\ host[t] \in EzfnHosts \cup GtavHosts
    <3>1. /\ pc'[t] = "test"
          /\ game'[t] = IF host[t] \in EzfnHosts THEN "ezfn" ELSE "gtav"
      BY <1>t, <1>3, <2>1 DEF CheckSpoof, Goto
    <3>2. Chosen(t, game[t])'
      BY <2>0, <2>1, <2>s, <3>1 DEF Chosen, Games, HostsOf
    <3> QED
      BY <1>0, <2>0, <3>1, <3>2 DEF CallOK, Answered
  <2>2. CASE ~current_config.spoof_psn \/ host[t] \notin EzfnHosts \cup GtavHosts
    <3>1. pc'[t] = "hostname"
      BY <1>t, <1>3, <2>2 DEF CheckSpoof, Goto
    <3>2. Refused(t)'
      BY <2>0, <2>2, <2>s DEF Refused, Games, HostsOf
    <3> QED
      BY <1>0, <2>0, <3>1, <3>2 DEF CallOK, Answered
  <2> QED
    BY <2>1, <2>2
<1>4. ASSUME TestServer(t) PROVE CallOK(t)'
  <2>0. /\ pc[t] = "test" /\ host[t] \in Hosts /\ InForce \subseteq seen[t]
        /\ UNCHANGED <<host, answer, seen>>
        /\ Chosen(t, game[t])
    BY <1>0, <1>4 DEF TestServer, Goto, CallOK
  <2>1. CASE FALSE \in IsEmpty(game[t]) /\ pc'[t] = "read" /\ game' = game
    <3>1. \E c \in InForce : c.server[game[t]] # Empty
      BY <1>0, <2>1, TestEmpty
    <3> QED
      BY <1>0, <2>0, <2>1, <3>1 DEF CallOK, Answered, Chosen
  <2>2. CASE /\ TRUE \in IsEmpty(game[t]) /\ game[t] = "ezfn" /\ host[t] \in GtavHosts
             /\ pc'[t] = "test" /\ game'[t] = "gtav"
    <3>1. \E c \in InForce : c.server["ezfn"] = Empty
      BY <1>0, <2>2, TestEmpty
    <3>2. Chosen(t, game[t])'
      BY <2>0, <2>2, <3>1 DEF Chosen, Games, HostsOf
    <3> QED
      BY <1>0, <2>0, <2>2, <3>2 DEF CallOK, Answered
  <2>3. CASE /\ TRUE \in IsEmpty(game[t]) /\ (game[t] = "gtav" \/ host[t] \notin GtavHosts)
             /\ pc'[t] = "hostname"
    <3>1. \E c \in InForce : c.server[game[t]] = Empty
      BY <1>0, <2>3, TestEmpty
    <3>2. Refused(t)'
      BY <1>0, <2>0, <2>3, <3>1 DEF Refused, Chosen, Games, HostsOf
    <3> QED
      BY <1>0, <2>0, <2>3, <3>2 DEF CallOK, Answered
  <2> QED
    BY <1>t, <1>4, <2>1, <2>2, <2>3 DEF TestServer, Goto
<1>5. ASSUME Return(t) PROVE CallOK(t)'
  <2>0. /\ pc[t] \in {"read", "hostname"} /\ pc'[t] = "out"
        /\ host[t] \in Hosts /\ InForce \subseteq seen[t]
        /\ UNCHANGED <<host, seen>> /\ seen[t] # {} /\ seen[t] \subseteq AllConfigs
    BY <1>0, <1>t, <1>5 DEF Return, Goto
  <2>1. CASE pc[t] = "hostname"
    <3>1. answer'[t] = host[t] /\ Refused(t)
      BY <1>0, <1>t, <1>5, <2>1 DEF Return, Goto, CallOK
    <3>2. Refused(t)'
      BY <2>0, <3>1 DEF Refused
    <3> QED
      BY <2>0, <3>1, <3>2 DEF CallOK
  <2>2. CASE pc[t] = "read"
    <3> DEFINE g == game[t]
    <3>1. /\ answer'[t] = current_config.server[g] /\ Chosen(t, g)
          /\ \E c \in seen[t] : c.server[g] # Empty
      BY <1>0, <1>t, <1>5, <2>2 DEF Return, Goto, CallOK
    <3>2. \E x \in Games : Chosen(t, x)' /\ Found(t, x)'
      <4>1. \A x : x = g => Chosen(t, x)'
        BY <2>0, <3>1 DEF Chosen
      <4>2. CASE \E c \in InForce : current_config.server[g] = c.server[g]
        <5>1. answer'[t] \in {c.server[g] : c \in seen'[t]}
          BY <2>0, <3>1, <4>2
        <5>2. CASE answer'[t] = Empty
          <6>1. \E c, d \in seen'[t] : c.server[g] # d.server[g]
            BY <2>0, <3>1, <5>1, <5>2
          <6> QED
            BY <1>0, <4>1, <5>2, <6>1 DEF Found
        <5>3. CASE answer'[t] # Empty
          BY <1>0, <4>1, <5>1, <5>3 DEF Found
        <5> QED
          BY <5>2, <5>3
      <4>3. CASE /\ current_config.server[g] = Garbled
                 /\ installed.server[g] # new_config.server[g]
                 /\ InForce = {installed, new_config}
        BY <1>0, <2>0, <3>1, <4>1, <4>3 DEF Found
      <4> QED
        BY <1>0, <4>2, <4>3, ReadMemory
    <3> QED
      BY <2>0, <3>2 DEF CallOK
  <2> QED
    BY <2>0, <2>1, <2>2
<1>6. ASSUME GetDefaultGateway(t) PROVE CallOK(t)'
  <2>1. pc'[t] = "out" /\ host'[t] = None
    BY <1>t, <1>6 DEF GetDefaultGateway
  <2> QED
    BY <2>1 DEF CallOK, Answered
<1> QED
  BY <1>1, <1>2, <1>3, <1>4, <1>5, <1>6 DEF GuestNext

LEMMA AlwaysCalls == Spec => []Calls
<1>1. Init => Calls
  BY DEF Init, Calls, CallOK, Answered
<1>2. Typed /\ Calls /\ [Next]_vars => Calls'
  <2> SUFFICES ASSUME Typed, Calls, [Next]_vars PROVE Calls'
    OBVIOUS
  <2>1. CASE UNCHANGED vars
    BY <2>1 DEF vars, Calls, CallOK, Answered, Refused, Chosen, Found, InForce
  <2> QED
    BY <2>1, CallsOwner, CallsGuest DEF Next
<1> QED
  BY <1>1, <1>2, AlwaysTyped, PTL DEF Spec

(***************************************************************************)
(* An answer is the name or an address of its own game from a              *)
(* configuration in force; garbled or empty only if the address changed.   *)
(***************************************************************************)
THEOREM AnswerSafe == Spec => []AnswerUnderUpdates
<1>1. Calls => AnswerUnderUpdates
  BY DEF Calls, CallOK, AnswerUnderUpdates, Chosen, Found
<1> QED
  BY <1>1, AlwaysCalls, PTL

(***************************************************************************)
(* A call under one configuration answers as that asks for.                *)
(***************************************************************************)
THEOREM AnswerExact == Spec => []AnswerUnderOneConfig
<1>1. Calls => AnswerUnderOneConfig
  <2> SUFFICES ASSUME Calls, NEW t \in Threads, NEW c \in seen[t],
                      Answered(t), seen[t] = {c}
               PROVE  answer[t] = Redirect(c, host[t])
    BY DEF AnswerUnderOneConfig
  <2> DEFINE asked == {g \in Games : /\ c.spoof_psn
                                     /\ host[t] \in HostsOf[g]
                                     /\ c.server[g] # Empty}
  <2>1. Redirect(c, host[t]) =
          IF asked = {} THEN host[t]
          ELSE c.server[IF "ezfn" \in asked THEN "ezfn" ELSE "gtav"]
    BY DEF Redirect
  <2>2. CASE answer[t] = host[t] /\ Refused(t)
    <3>1. asked = {}
      BY <2>2 DEF Refused
    <3> QED
      BY <2>1, <2>2, <3>1
  <2>3. ASSUME NEW g \in Games, Chosen(t, g), Found(t, g)
        PROVE  answer[t] = Redirect(c, host[t])
    <3>1. answer[t] = c.server[g] /\ answer[t] # Empty
      BY <2>3 DEF Found
    <3>2. g \in asked /\ ("ezfn" \in asked => g = "ezfn")
      BY <2>3, <3>1 DEF Chosen, Games, HostsOf
    <3> QED
      BY <2>1, <3>1, <3>2 DEF Games
  <2> QED
    BY <2>2, <2>3 DEF Calls, CallOK
<1> QED
  BY <1>1, AlwaysCalls, PTL

(***************************************************************************)
(* A name of one game that every configuration in force redirects never    *)
(* gets through.                                                           *)
(***************************************************************************)
THEOREM NeverThrough == Spec => []RedirectKept
<1>1. Typed /\ Calls => RedirectKept
  <2> SUFFICES ASSUME Calls, NEW t \in Threads,
                      Answered(t), host[t] \notin EzfnHosts \cap GtavHosts,
                      \A c \in seen[t] : Redirect(c, host[t]) # host[t],
                      answer[t] = host[t]
               PROVE  FALSE
    BY DEF RedirectKept
  <2>1. host[t] \in Hosts /\ seen[t] # {} /\ seen[t] \subseteq AllConfigs
    BY DEF Calls, CallOK
  <2>2. \A c \in seen[t] : \E g \in Games :
          c.spoof_psn /\ host[t] \in HostsOf[g] /\ c.server[g] # Empty
    BY DEF Redirect
  <2>3. Refused(t)
    <3>1. ASSUME NEW g \in Games, Found(t, g) PROVE FALSE
      <4>1. \A c \in seen[t] : c.server[g] \in EzfnServers \cup GtavServers \cup {Empty}
        BY <2>1, ConfigShape DEF Servers, Games
      <4> QED
        BY <2>1, <3>1, <4>1, NetworkingAssumption DEF Found
    <3> QED
      BY <3>1 DEF Calls, CallOK
  <2> QED
    BY <2>1, <2>2, <2>3 DEF Refused, Games, HostsOf
<1> QED
  BY <1>1, AlwaysTyped, AlwaysCalls, PTL
=============================================================================
