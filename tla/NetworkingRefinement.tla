------------------------ MODULE NetworkingRefinement ------------------------
(***************************************************************************)
(* Networking implements ResolveService, for any guest threads, names,     *)
(* servers and configurations.                                             *)
(*                                                                         *)
(* An update installs its configuration with its last assignment; a call   *)
(* answers with its return.  Calls, the invariant of NetworkingProofs,     *)
(* holds what the abstract answer is drawn from: for each read that led to *)
(* the return, a configuration in force during the call that explains it.  *)
(***************************************************************************)
EXTENDS NetworkingProofs

USE DEF owner, call

(* A name nobody redirects, or that one of the reads lets through. *)
LEMMA NameAnswer ==
  ASSUME NEW t \in Threads, Refused(t), seen[t] # {}
  PROVE  host[t] \in Service!Answers(host[t], seen[t])
<1>1. PICK s \in seen[t], e \in seen[t], g \in seen[t] :
        \/ ~s.spoof_psn
        \/ /\ host[t] \in EzfnHosts => e.server["ezfn"] = Empty
           /\ host[t] \in GtavHosts => g.server["gtav"] = Empty
  BY DEF Refused, Games, HostsOf
<1>2. Service!AnswersBy(host[t], seen[t], s, e, g) = {host[t]}
  BY <1>1 DEF Service!AnswersBy
<1> QED
  BY <1>2 DEF Service!Answers

(* The address of a game whose tests came out for it. *)
LEMMA AddressAnswer ==
  ASSUME NEW t \in Threads, NEW x \in Games, Chosen(t, x),
         \E c \in seen[t] : c.server[x] # Empty,
         NEW a \in Service!Read(seen[t], x)
  PROVE  a \in Service!Answers(host[t], seen[t])
<1>1. PICK s \in seen[t] : s.spoof_psn
  BY DEF Chosen
<1>2. PICK c \in seen[t] : c.server[x] # Empty
  OBVIOUS
<1>3. CASE x = "ezfn"
  <2>1. host[t] \in EzfnHosts
    BY <1>3 DEF Chosen, HostsOf
  <2>2. Service!AnswersBy(host[t], seen[t], s, c, c) = Service!Read(seen[t], x)
    BY <1>1, <1>2, <1>3, <2>1 DEF Service!AnswersBy
  <2> QED
    BY <2>2 DEF Service!Answers
<1>4. CASE x = "gtav"
  <2>1. host[t] \in GtavHosts
    BY <1>4 DEF Chosen, HostsOf, Games
  <2>2. PICK e \in seen[t] : host[t] \in EzfnHosts => e.server["ezfn"] = Empty
    BY <1>2, <1>4 DEF Chosen
  <2>3. Service!AnswersBy(host[t], seen[t], s, e, c) = Service!Read(seen[t], x)
    BY <1>1, <1>2, <1>4, <2>1, <2>2 DEF Service!AnswersBy
  <2> QED
    BY <2>3 DEF Service!Answers
<1> QED
  BY <1>3, <1>4 DEF Games

(* A read of memory is one that the configurations of the call explain. *)
LEMMA MemoryRead ==
  ASSUME Typed, NEW D, InForce \subseteq D, NEW x \in Games
  PROVE  current_config.server[x] \in Service!Read(D, x)
<1>1. CASE \E c \in InForce : current_config.server[x] = c.server[x]
  BY <1>1 DEF Service!Read
<1>2. CASE /\ current_config.server[x] = Garbled
           /\ installed.server[x] # new_config.server[x]
           /\ InForce = {installed, new_config}
  BY <1>2 DEF Service!Read
<1> QED
  BY <1>1, <1>2, ReadMemory

LEMMA InitService == Init => Service!Init
<1> SUFFICES ASSUME Init PROVE Service!Init
  OBVIOUS
<1> QED
  BY DEF Init, Service!Init, InForce, Resolving, During

LEMMA OwnerService ==
  ASSUME Typed, Calls, OwnerNext
  PROVE  Service!Next \/ UNCHANGED <<InForce, Resolving, During, answer>>
<1>1. ASSUME UNCHANGED call, InForce' = InForce
      PROVE  UNCHANGED <<InForce, Resolving, During, answer>>
  BY <1>1 DEF Resolving, During
<1>2. CASE InitCore \/ Shutdown \/ Destroy \/ StartLANPlayTunnel \/ StopLANPlayTunnel
  BY <1>1, <1>2 DEF InitCore, Shutdown, Destroy, StartLANPlayTunnel, StopLANPlayTunnel, InForce
<1>3. ASSUME NEW c \in Configs, UpdateConfig(c) PROVE Service!Update(c)
  <2>1. /\ at = "idle" /\ at' = "mode" /\ new_config' = c
        /\ UNCHANGED <<installed, pc, host, answer>>
        /\ seen' = [t \in Threads |-> IF pc[t] = "out" THEN seen[t] ELSE seen[t] \cup {c}]
    BY <1>3 DEF UpdateConfig
  <2>2. InForce' = InForce \cup {c}
    BY <2>1 DEF InForce
  <2>3. \A t \in Threads : Resolving[t] = None <=> pc[t] = "out"
    BY NetworkingAssumption DEF Calls, CallOK, Resolving
  <2>4. During' = [t \in Threads |->
                     IF Resolving[t] = None THEN During[t] ELSE During[t] \cup {c}]
    BY <2>1, <2>3 DEF During
  <2>5. UNCHANGED <<Resolving, answer>>
    BY <2>1 DEF Resolving
  <2> QED
    BY <2>2, <2>4, <2>5 DEF Service!Update
<1>4. ASSUME AssignLast PROVE \E c \in AllConfigs : Service!Settle(c)
  <2>1. /\ InForce = {installed, new_config} /\ InForce' = {new_config}
        /\ new_config \in AllConfigs /\ UNCHANGED call
    BY <1>4 DEF AssignLast, InForce, Typed, Memory, Busy, AllConfigs
  <2>2. UNCHANGED <<Resolving, During, answer>>
    BY <2>1 DEF Resolving, During
  <2> QED
    BY <2>1, <2>2 DEF Service!Settle
<1>5. CASE AssignConfig /\ ~AssignLast
  BY <1>1, <1>5 DEF AssignConfig, Assign, InForce
<1> QED
  BY <1>2, <1>3, <1>4, <1>5 DEF OwnerNext, Service!Next, AllConfigs

LEMMA GuestService ==
  ASSUME Typed, Calls, NEW t \in Threads, GuestNext(t)
  PROVE  Service!Next \/ UNCHANGED <<InForce, Resolving, During, answer>>
<1>0. /\ UNCHANGED owner /\ InForce' = InForce
      /\ Resolving[t] = None <=> pc[t] = "out"
      /\ pc[t] # "out" => InForce \subseteq seen[t]
      /\ InForce # {}
      /\ Resolving \in [Threads -> Hosts \cup {None}]
  <2>1. UNCHANGED owner
    BY DEF GuestNext, ResolveHostname, CheckSpoof, TestServer, Return, GetDefaultGateway
  <2>2. InForce' = InForce
    BY <2>1 DEF InForce
  <2>3. Resolving[t] = None <=> pc[t] = "out"
    BY NetworkingAssumption DEF Calls, CallOK, Resolving
  <2> QED
    BY <2>1, <2>2, <2>3, ReadMemory DEF Calls, CallOK, Resolving, Typed, TypeOK
<1>t. /\ pc \in [Threads -> {"out", "spoof_psn", "test", "read", "hostname"}]
      /\ host \in [Threads -> Hosts \cup {None}]
      /\ game \in [Threads -> Games]
  BY DEF Typed, TypeOK
<1>1. ASSUME NEW h \in Hosts, ResolveHostname(t, h) PROVE Service!Call(t, h)
  <2>1. pc[t] = "out" /\ pc' = [pc EXCEPT ![t] = "spoof_psn"]
        /\ host' = [host EXCEPT ![t] = h] /\ seen' = [seen EXCEPT ![t] = InForce]
        /\ answer' = [answer EXCEPT ![t] = None]
    BY <1>1 DEF ResolveHostname, Goto
  <2>2. Resolving' = [Resolving EXCEPT ![t] = h]
    BY <1>t, <2>1 DEF Resolving
  <2>3. During' = [During EXCEPT ![t] = InForce]
    BY <1>t, <2>1 DEF During, Typed, TypeOK
  <2> QED
    BY <1>0, <2>1, <2>2, <2>3 DEF Service!Call
<1>2. ASSUME CheckSpoof(t) \/ TestServer(t)
      PROVE  UNCHANGED <<InForce, Resolving, During, answer>>
  <2>1. /\ pc[t] # "out" /\ \E p : p # "out" /\ pc' = [pc EXCEPT ![t] = p]
        /\ UNCHANGED <<host, answer, seen>>
    BY <1>2 DEF CheckSpoof, TestServer, Goto
  <2> QED
    BY <1>0, <1>t, <2>1 DEF Resolving, During
<1>3. ASSUME Return(t) PROVE Service!Answer(t)
  <2>1. /\ pc[t] \in {"read", "hostname"} /\ pc' = [pc EXCEPT ![t] = "out"]
        /\ UNCHANGED <<host, seen>>
    BY <1>3 DEF Return, Goto
  <2>2. Resolving' = [Resolving EXCEPT ![t] = None]
    BY <1>t, <2>1 DEF Resolving
  <2>3. During' = [During EXCEPT ![t] = {}]
    BY <1>t, <2>1 DEF During
  <2>4. Resolving[t] = host[t] /\ During[t] = seen[t]
    BY <2>1 DEF Resolving, During
  <2>5. \E a \in Service!Answers(host[t], seen[t]) : answer' = [answer EXCEPT ![t] = a]
    <3>1. CASE pc[t] = "hostname"
      <4>1. Refused(t) /\ seen[t] # {}
        BY <1>0, <3>1 DEF Calls, CallOK
      <4> QED
        BY <1>3, <3>1, <4>1, NameAnswer DEF Return, Goto
    <3>2. CASE pc[t] = "read"
      <4>1. /\ game[t] \in Games /\ Chosen(t, game[t])
            /\ \E c \in seen[t] : c.server[game[t]] # Empty
        BY <1>t, <3>2 DEF Calls, CallOK
      <4>2. current_config.server[game[t]] \in Service!Read(seen[t], game[t])
        BY <1>0, <3>2, <4>1, MemoryRead
      <4> QED
        BY <1>3, <3>2, <4>1, <4>2, AddressAnswer DEF Return, Goto
    <3> QED
      BY <2>1, <3>1, <3>2
  <2> QED
    BY <1>0, <2>1, <2>2, <2>3, <2>4, <2>5 DEF Service!Answer
<1>4. ASSUME GetDefaultGateway(t) PROVE Service!Forget(t)
  <2>1. /\ pc[t] = "out" /\ pc' = pc /\ answer' = [answer EXCEPT ![t] = None]
        /\ host' = [host EXCEPT ![t] = None] /\ seen' = [seen EXCEPT ![t] = {}]
    BY <1>4 DEF GetDefaultGateway
  <2>2. Resolving' = Resolving /\ During' = During
    BY <1>t, <2>1 DEF Resolving, During, Typed, TypeOK
  <2> QED
    BY <1>0, <2>1, <2>2 DEF Service!Forget
<1> QED
  BY <1>1, <1>2, <1>3, <1>4 DEF GuestNext, Service!Next

(***************************************************************************)
(* Networking implements ResolveService: whatever updates overlap with it, *)
(* a call of ResolveHostname has an answer that its reads lead to, each    *)
(* explained by a configuration in force during the call.                  *)
(***************************************************************************)
THEOREM Implements == Spec => ResolveSpec
<1>1. Typed /\ Calls /\ [Next]_vars
        => [Service!Next]_<<InForce, Resolving, During, answer>>
  <2> SUFFICES ASSUME Typed, Calls, [Next]_vars
               PROVE  Service!Next \/ UNCHANGED <<InForce, Resolving, During, answer>>
    OBVIOUS
  <2>1. CASE UNCHANGED vars
    BY <2>1 DEF vars, InForce, Resolving, During
  <2> QED
    BY <2>1, OwnerService, GuestService DEF Next
<1> QED
  BY <1>1, InitService, AlwaysTyped, AlwaysCalls, PTL DEF Spec, ResolveSpec, Service!Spec
=============================================================================
