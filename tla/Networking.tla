----------------------------- MODULE Networking -----------------------------
(***************************************************************************)
(* The class NetworkingCore (src/core/networking/networking.cpp) and the   *)
(* one function that reads its mode from outside, GetDefaultGateway of     *)
(* net_util.cpp.                                                           *)
(*                                                                         *)
(* One thread, the owner, starts, configures and stops the object; guest   *)
(* threads resolve names and ask for the gateway meanwhile.  Nothing takes *)
(* a lock, so every read of a member of current_config and every           *)
(* assignment to one is a step, and an assignment to a string is two: a    *)
(* copy made between them is garbled.                                      *)
(***************************************************************************)
EXTENDS FiniteSets

CONSTANTS
  Threads,               \* the guest threads
  Hosts,                 \* names the guests resolve
  EzfnHosts, GtavHosts,  \* those that ResolveHostname takes for a game's
  EzfnServers, GtavServers, Relays,  \* addresses a configuration may name
  DefaultRelay,
  Configs,               \* bound of the model: configurations installed
  Empty,                 \* the empty string
  Garbled,               \* a string copied while it is assigned
  None

Modes == {"Disabled", "LAN_Play", "Unofficial_Server"}
Games == {"ezfn", "gtav"}
Servers == [ezfn |-> EzfnServers, gtav |-> GtavServers]
HostsOf == [ezfn |-> EzfnHosts, gtav |-> GtavHosts]

(* A configuration in memory; guest_ip is never read. *)
Config ==
  [mode : Modes, relay : Relays, spoof_psn : BOOLEAN,
   server : [Games -> EzfnServers \cup GtavServers \cup {Empty, Garbled}]]

(* What a running tunnel was started with: the relay, and whether without Init. *)
Tunnels == [relay : Relays, early : BOOLEAN]

InitialConfig ==
  [mode |-> "Disabled", relay |-> DefaultRelay, spoof_psn |-> FALSE,
   server |-> [g \in Games |-> Empty]]

ASSUME NetworkingAssumption ==
  /\ EzfnHosts \subseteq Hosts /\ GtavHosts \subseteq Hosts
  /\ DefaultRelay \in Relays
  /\ Configs \subseteq Config
  /\ \A c \in Configs : \A g \in Games : c.server[g] \in Servers[g] \cup {Empty}
  /\ EzfnServers \cap GtavServers = {}
  /\ (EzfnServers \cup GtavServers) \cap (Hosts \cup {Empty, Garbled, None}) = {}
  /\ Empty # Garbled /\ {Empty, Garbled, None} \cap Hosts = {}
  /\ None \notin Configs \cup Tunnels

VARIABLES
  current_config,
  is_initialized,
  tunnel,      \* lan_play_tunnel_handle
  at,          \* the owner's place in UpdateConfig, "idle", or "destroyed"
  new_config,  \* the parameter of UpdateConfig
  pc, host, game,  \* thread -> place in ResolveHostname, parameter, game tried
  answer,      \* thread -> what its latest call, a ResolveHostname, returned
  gateway      \* thread -> what its latest call, a GetDefaultGateway, refers to

(***************************************************************************)
(* History: the configuration as the latest update left it, whether the    *)
(* tunnel is as the latest change of mode left it, and the configurations  *)
(* in force during the latest call of a thread.                            *)
(***************************************************************************)
VARIABLES installed, byMode, seen

owner == <<current_config, is_initialized, tunnel, at, new_config, installed, byMode>>
call == <<pc, host, game, answer, seen>>
vars == <<owner, call, gateway>>

TypeOK ==
  /\ current_config \in Config
  /\ is_initialized \in BOOLEAN
  /\ tunnel \in Tunnels \cup {None}
  /\ at \in {"idle", "mode", "ezfn", "ezfn copied", "gtav", "gtav copied",
             "spoof_psn", "destroyed"}
  /\ new_config \in Configs \cup {None}
  /\ pc \in [Threads -> {"out", "spoof_psn", "test", "read", "hostname"}]
  /\ host \in [Threads -> Hosts \cup {None}]
  /\ game \in [Threads -> Games]
  /\ answer \in [Threads -> Hosts \cup EzfnServers \cup GtavServers
                            \cup {Empty, Garbled, None}]
  /\ gateway \in [Threads -> {"none", "defaultgateway", "temporary"}]
  /\ installed \in Configs \cup {InitialConfig}
  /\ at = "idle" => current_config = installed
  /\ byMode \in BOOLEAN
  /\ seen \in [Threads -> SUBSET (Configs \cup {InitialConfig})]

-----------------------------------------------------------------------------
IsLAN(c) == c.mode = "LAN_Play"

(* The configurations in force: two while one replaces the other. *)
InForce ==
  IF at \in {"idle", "destroyed"} THEN {installed} ELSE {installed, new_config}

StopTunnel == tunnel' = None

(* Mutant of StartTunnel: stops a tunnel that is running already. *)
StartTunnelToggles ==
  tunnel' = IF tunnel # None THEN None
            ELSE [relay |-> current_config.relay, early |-> ~is_initialized]

(* Towards the relay of the configuration in memory, unless one is running. *)
StartTunnel ==
  tunnel' = IF tunnel # None THEN tunnel
            ELSE [relay |-> current_config.relay, early |-> ~is_initialized]

(* NetworkingCore::Init *)
InitCore ==
  /\ at = "idle"
  /\ is_initialized' = TRUE
  /\ UNCHANGED <<current_config, tunnel, at, new_config, installed, byMode, call, gateway>>

(* Mutant of DoShutdown: forgets the tunnel. *)
DoShutdownKeepsTunnel ==
  /\ is_initialized' = FALSE
  /\ UNCHANGED <<tunnel, byMode>>

(* Without Init it does nothing; the mode stays as it is. *)
DoShutdown ==
  IF is_initialized
  THEN /\ StopTunnel
       /\ is_initialized' = FALSE
       /\ byMode' = (byMode /\ tunnel = None)
  ELSE UNCHANGED <<tunnel, is_initialized, byMode>>

Shutdown ==
  /\ at = "idle"
  /\ DoShutdown
  /\ UNCHANGED <<current_config, at, new_config, installed, call, gateway>>

(* Mutant of Destroy: the handle is not destroyed with the object. *)
DestroyShutdownOnly ==
  /\ at = "idle" /\ at' = "destroyed"
  /\ \A t \in Threads : pc[t] = "out"
  /\ DoShutdown
  /\ UNCHANGED <<current_config, new_config, installed, call, gateway>>

(***************************************************************************)
(* ~NetworkingCore, at the end of the process, when no call is under way   *)
(* and none follows: a Shutdown, and then the members are destroyed, a     *)
(* tunnel that Shutdown did not stop through its handle.                   *)
(***************************************************************************)
Destroy ==
  /\ at = "idle" /\ at' = "destroyed"
  /\ \A t \in Threads : pc[t] = "out"
  /\ is_initialized' = FALSE
  /\ StopTunnel
  /\ byMode' = (byMode /\ tunnel = None)
  /\ UNCHANGED <<current_config, new_config, installed, call, gateway>>

StartLANPlayTunnel ==
  /\ at = "idle"
  /\ StartTunnel
  /\ byMode' = (byMode /\ tunnel # None)
  /\ UNCHANGED <<current_config, is_initialized, at, new_config, installed, call, gateway>>

StopLANPlayTunnel ==
  /\ at = "idle"
  /\ StopTunnel
  /\ byMode' = (byMode /\ tunnel = None)
  /\ UNCHANGED <<current_config, is_initialized, at, new_config, installed, call, gateway>>

-----------------------------------------------------------------------------
(* UpdateConfig, up to the assignment: the tunnel follows the change of mode. *)
UpdateConfig(c) ==
  /\ at = "idle" /\ at' = "mode"
  /\ new_config' = c
  /\ \/ IsLAN(current_config) /\ ~IsLAN(c) /\ StopTunnel /\ byMode' = TRUE
     \/ ~IsLAN(current_config) /\ IsLAN(c) /\ StartTunnel /\ byMode' = TRUE
     \/ (IsLAN(current_config) <=> IsLAN(c)) /\ UNCHANGED <<tunnel, byMode>>
  /\ seen' = [t \in Threads |-> IF pc[t] = "out" THEN seen[t] ELSE seen[t] \cup {c}]
  /\ UNCHANGED <<current_config, is_initialized, installed, pc, host, game, answer, gateway>>

(* Mutant of HalfCopied: the address is cleared before it is assigned. *)
HalfCopiedCleared(g) ==
  IF installed.server[g] = new_config.server[g] THEN new_config.server[g] ELSE Empty

(* A string under assignment; assigning what it holds already disturbs nobody. *)
HalfCopied(g) ==
  IF installed.server[g] = new_config.server[g] THEN new_config.server[g] ELSE Garbled

Assign(from, to, c) ==
  /\ at = from /\ at' = to
  /\ current_config' = c
  /\ UNCHANGED <<is_initialized, tunnel, new_config, installed, byMode, call, gateway>>

AssignLast ==
  /\ at = "spoof_psn" /\ at' = "idle"
  /\ current_config' = [current_config EXCEPT !.spoof_psn = new_config.spoof_psn]
  /\ new_config' = None
  /\ installed' = new_config
  /\ UNCHANGED <<is_initialized, tunnel, byMode, call, gateway>>

(* Mutant of AssignServer: the addresses go to each other's member. *)
AssignServerCrossed(g, s) ==
  [current_config EXCEPT !.server[IF g = "ezfn" THEN "gtav" ELSE "ezfn"] = s]

AssignServer(g, s) == [current_config EXCEPT !.server[g] = s]

(* current_config = new_config, in the order of the members. *)
AssignConfig ==
  \/ Assign("mode", "ezfn",
            [current_config EXCEPT !.mode = new_config.mode, !.relay = new_config.relay])
  \/ Assign("ezfn", "ezfn copied", AssignServer("ezfn", HalfCopied("ezfn")))
  \/ Assign("ezfn copied", "gtav", AssignServer("ezfn", new_config.server["ezfn"]))
  \/ Assign("gtav", "gtav copied", AssignServer("gtav", HalfCopied("gtav")))
  \/ Assign("gtav copied", "spoof_psn", AssignServer("gtav", new_config.server["gtav"]))
  \/ AssignLast

-----------------------------------------------------------------------------
Goto(t, from, to) == pc[t] = from /\ pc' = [pc EXCEPT ![t] = to]

ResolveHostname(t, h) ==
  /\ at # "destroyed"
  /\ Goto(t, "out", "spoof_psn")
  /\ host' = [host EXCEPT ![t] = h]
  /\ answer' = [answer EXCEPT ![t] = None]
  /\ seen' = [seen EXCEPT ![t] = InForce]
  /\ gateway' = [gateway EXCEPT ![t] = "none"]
  /\ UNCHANGED <<owner, game>>

(* The test of spoof_psn, and which games' names match. *)
CheckSpoof(t) ==
  /\ \/ /\ current_config.spoof_psn
        /\ host[t] \in EzfnHosts \cup GtavHosts
        /\ Goto(t, "spoof_psn", "test")
        /\ game' = [game EXCEPT ![t] = IF host[t] \in EzfnHosts THEN "ezfn" ELSE "gtav"]
     \/ /\ ~current_config.spoof_psn \/ host[t] \notin EzfnHosts \cup GtavHosts
        /\ Goto(t, "spoof_psn", "hostname")
        /\ UNCHANGED game
  /\ UNCHANGED <<owner, host, answer, seen, gateway>>

(***************************************************************************)
(* What empty() may say of an address: while it is assigned, the size is   *)
(* the old one or the new one.                                             *)
(***************************************************************************)
IsEmpty(g) ==
  IF current_config.server[g] = Garbled
  THEN {installed.server[g] = Empty, new_config.server[g] = Empty}
  ELSE {current_config.server[g] = Empty}

(* Mutants of TestServer: no test; a name of both games is not tried again. *)
TestServerNot(t) ==
  /\ Goto(t, "test", "read")
  /\ UNCHANGED <<owner, host, game, answer, seen, gateway>>

TestServerOnce(t) ==
  /\ \E e \in IsEmpty(game[t]) : Goto(t, "test", IF e THEN "hostname" ELSE "read")
  /\ UNCHANGED <<owner, host, game, answer, seen, gateway>>

TestServer(t) ==
  /\ \/ /\ FALSE \in IsEmpty(game[t])
        /\ Goto(t, "test", "read")
        /\ UNCHANGED game
     \/ /\ TRUE \in IsEmpty(game[t])
        /\ game[t] = "ezfn" /\ host[t] \in GtavHosts
        /\ Goto(t, "test", "test")
        /\ game' = [game EXCEPT ![t] = "gtav"]
     \/ /\ TRUE \in IsEmpty(game[t])
        /\ game[t] = "gtav" \/ host[t] \notin GtavHosts
        /\ Goto(t, "test", "hostname")
        /\ UNCHANGED game
  /\ UNCHANGED <<owner, host, answer, seen, gateway>>

(* The return statements: the address is read again. *)
Return(t) ==
  /\ \/ /\ Goto(t, "read", "out")
        /\ answer' = [answer EXCEPT ![t] = current_config.server[game[t]]]
     \/ /\ Goto(t, "hostname", "out")
        /\ answer' = [answer EXCEPT ![t] = host[t]]
  /\ game' = [game EXCEPT ![t] = "ezfn"]
  /\ UNCHANGED <<owner, host, seen, gateway>>

(* In LAN play mode the reference returned is to a temporary string. *)
GetDefaultGateway(t) ==
  /\ at # "destroyed" /\ pc[t] = "out"
  /\ gateway' = [gateway EXCEPT ![t] =
                   IF IsLAN(current_config) THEN "temporary" ELSE "defaultgateway"]
  /\ host' = [host EXCEPT ![t] = None]
  /\ answer' = [answer EXCEPT ![t] = None]
  /\ seen' = [seen EXCEPT ![t] = {}]
  /\ UNCHANGED <<owner, pc, game>>

-----------------------------------------------------------------------------
Init ==
  /\ current_config = InitialConfig /\ installed = InitialConfig
  /\ is_initialized = FALSE
  /\ tunnel = None
  /\ at = "idle"
  /\ new_config = None
  /\ pc = [t \in Threads |-> "out"]
  /\ host = [t \in Threads |-> None]
  /\ game = [t \in Threads |-> "ezfn"]
  /\ answer = [t \in Threads |-> None]
  /\ gateway = [t \in Threads |-> "none"]
  /\ byMode = TRUE
  /\ seen = [t \in Threads |-> {}]

OwnerNext ==
  \/ InitCore \/ Shutdown \/ Destroy
  \/ StartLANPlayTunnel \/ StopLANPlayTunnel
  \/ \E c \in Configs : UpdateConfig(c)
  \/ AssignConfig

GuestNext(t) ==
  \/ \E h \in Hosts : ResolveHostname(t, h)
  \/ CheckSpoof(t) \/ TestServer(t) \/ Return(t)
  \/ GetDefaultGateway(t)

Next == OwnerNext \/ \E t \in Threads : GuestNext(t)

Spec == Init /\ [][Next]_vars

-----------------------------------------------------------------------------
(***************************************************************************)
(* As long as the tunnel is as the latest change of mode left it (no       *)
(* direct start or stop and no Shutdown has changed it since) it runs      *)
(* exactly in LAN play mode, even while the configuration is assigned.     *)
(* After a Shutdown in LAN play mode only a change of mode restores that:  *)
(* Init and an UpdateConfig to LAN play do not.                            *)
(***************************************************************************)
Latest == IF at \in {"idle", "destroyed"} THEN current_config ELSE new_config

TunnelFollowsMode == byMode => (tunnel # None <=> IsLAN(Latest))

(***************************************************************************)
(* No tunnel outlives the object, and a tunnel that runs while the object  *)
(* is not initialised was started while it was not: no Shutdown of an      *)
(* initialised object leaves one running.  A tunnel started without Init   *)
(* runs on through every Shutdown without Init, until it is stopped, the   *)
(* object is initialised and shut down, leaves LAN play mode or is         *)
(* destroyed.                                                              *)
(***************************************************************************)
ShutdownStopsTunnel ==
  tunnel # None => at # "destroyed" /\ (is_initialized \/ tunnel.early)

Answered(t) == pc[t] = "out" /\ host[t] # None

(* What a configuration asks for: the address to answer a name with. *)
Redirect(c, h) ==
  LET asked == {g \in Games : /\ c.spoof_psn
                              /\ h \in HostsOf[g]
                              /\ c.server[g] # Empty}
  IN IF asked = {} THEN h ELSE c.server[IF "ezfn" \in asked THEN "ezfn" ELSE "gtav"]

(***************************************************************************)
(* A name resolved under one configuration is answered as that asks for:   *)
(* a game's server if it is spoofed and known, for a name of both games    *)
(* the EZFN server if there is one, and else the name.                     *)
(***************************************************************************)
AnswerUnderOneConfig ==
  \A t \in Threads : \A c \in seen[t] :
    Answered(t) /\ seen[t] = {c} => answer[t] = Redirect(c, host[t])

(***************************************************************************)
(* Whatever updates overlap with a call, it answers with the name itself   *)
(* or with an address that a configuration in force during the call has    *)
(* for a game of that name, never with another game's.  Only an address    *)
(* that changed during the call can come out garbled or empty.             *)
(***************************************************************************)
AnswerUnderUpdates ==
  \A t \in Threads : Answered(t) /\ answer[t] # host[t] =>
    /\ \E c \in seen[t] : c.spoof_psn
    /\ \E g \in Games :
         /\ host[t] \in HostsOf[g]
         /\ \/ answer[t] \in {c.server[g] : c \in seen[t]} \ {Empty}
            \/ /\ answer[t] \in {Empty, Garbled}
               /\ \E c, d \in seen[t] : c.server[g] # d.server[g]

(***************************************************************************)
(* A name of one game that every configuration in force during the call    *)
(* redirects is redirected: an update from one server to another never     *)
(* lets it through to the real one.                                        *)
(***************************************************************************)
RedirectKept ==
  \A t \in Threads :
    /\ Answered(t) /\ host[t] \notin EzfnHosts \cap GtavHosts
    /\ \A c \in seen[t] : Redirect(c, host[t]) # host[t]
    => answer[t] # host[t]

(***************************************************************************)
(* A name is resolved as if the configuration changed at once, at most     *)
(* between two reads of it: Networking implements ResolveService, however  *)
(* its updates, member by member, and the calls of the guests interleave.  *)
(***************************************************************************)
Resolving == [t \in Threads |-> IF pc[t] = "out" THEN None ELSE host[t]]
During == [t \in Threads |-> IF pc[t] = "out" THEN {} ELSE seen[t]]

Service ==
  INSTANCE ResolveService WITH inForce <- InForce, resolving <- Resolving, during <- During

ResolveSpec == Service!Spec

(***************************************************************************)
(* "Get the default gateway": the reference a caller gets is to a string   *)
(* that exists when it has it.                                             *)
(***************************************************************************)
GatewayExists == \A t \in Threads : gateway[t] # "temporary"
=============================================================================
