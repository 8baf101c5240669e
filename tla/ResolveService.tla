--------------------------- MODULE ResolveService ---------------------------
(***************************************************************************)
(* What resolving names promises to the guest: each call has one answer,   *)
(* the one that its four reads of the configuration lead to, each of them  *)
(* answered by a configuration in force during the call, and no call       *)
(* changes another's answer or the configuration.                          *)
(***************************************************************************)
CONSTANTS
  Threads, Hosts, EzfnHosts, GtavHosts,
  Configs,         \* configurations that may be installed
  InitialConfig,
  Empty,           \* no address
  Garbled,         \* what may be read of an address that changes
  None             \* no name, no answer

VARIABLES
  inForce,    \* the configuration, or the old and the new one
  resolving,  \* thread -> the name it resolves
  during,     \* thread -> configurations in force since its call began
  answer      \* thread -> the answer to its latest call

(* What one of the configurations in D says, or a mixture if they differ. *)
Read(D, g) ==
  LET found == {c.server[g] : c \in D}
  IN found \cup {x \in {Garbled} : \E y, z \in found : y # z}

(***************************************************************************)
(* ResolveHostname with its reads answered by s (spoof_psn), e and g (the  *)
(* tests of the addresses), and an address of one configuration in D.      *)
(***************************************************************************)
AnswersBy(h, D, s, e, g) ==
  CASE s.spoof_psn /\ h \in EzfnHosts /\ e.server["ezfn"] # Empty -> Read(D, "ezfn")
    [] /\ s.spoof_psn /\ h \in GtavHosts /\ g.server["gtav"] # Empty
       /\ h \in EzfnHosts => e.server["ezfn"] = Empty -> Read(D, "gtav")
    [] OTHER -> {h}

Answers(h, D) == UNION {AnswersBy(h, D, s, e, g) : s, e, g \in D}

Init ==
  /\ inForce = {InitialConfig}
  /\ resolving = [t \in Threads |-> None]
  /\ during = [t \in Threads |-> {}]
  /\ answer = [t \in Threads |-> None]

Update(c) ==
  /\ inForce' = inForce \cup {c}
  /\ during' = [t \in Threads |->
                  IF resolving[t] = None THEN during[t] ELSE during[t] \cup {c}]
  /\ UNCHANGED <<resolving, answer>>

Settle(c) ==
  /\ c \in inForce /\ inForce' = {c}
  /\ UNCHANGED <<resolving, during, answer>>

Call(t, h) ==
  /\ resolving[t] = None
  /\ resolving' = [resolving EXCEPT ![t] = h]
  /\ during' = [during EXCEPT ![t] = inForce]
  /\ answer' = [answer EXCEPT ![t] = None]
  /\ UNCHANGED inForce

Answer(t) ==
  /\ resolving[t] # None
  /\ \E a \in Answers(resolving[t], during[t]) : answer' = [answer EXCEPT ![t] = a]
  /\ resolving' = [resolving EXCEPT ![t] = None]
  /\ during' = [during EXCEPT ![t] = {}]
  /\ UNCHANGED inForce

(* A call of another function takes the place of the answer. *)
Forget(t) ==
  /\ resolving[t] = None
  /\ answer' = [answer EXCEPT ![t] = None]
  /\ UNCHANGED <<inForce, resolving, during>>

Next ==
  \/ \E c \in Configs : Update(c)
  \/ \E c \in Configs \cup {InitialConfig} : Settle(c)
  \/ \E t \in Threads : \/ \E h \in Hosts : Call(t, h)
                        \/ Answer(t)
                        \/ Forget(t)

Spec == Init /\ [][Next]_<<inForce, resolving, during, answer>>
=============================================================================
