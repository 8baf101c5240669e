------------------------------ MODULE NetUtil ------------------------------
(***************************************************************************)
(* The cached Ethernet address of NetUtil::NetUtilInternal                 *)
(* (src/core/libraries/network/net_util.cpp, the POSIX branch).            *)
(*                                                                         *)
(* RetrieveEthernetAddr runs under the object's mutex: it opens a socket,  *)
(* asks for the list of interfaces, looks for the first usable one, closes *)
(* the socket and copies the address.  Every system call may fail.         *)
(* GetEthernetAddr takes no lock and hands out a reference, so its callers *)
(* read the bytes while a copy may be under way.                           *)
(*                                                                         *)
(* The six bytes are two halves: that is enough for a read to fall between *)
(* two bytes.                                                              *)
(***************************************************************************)
EXTENDS Integers, Sequences, FiniteSets

CONSTANTS
  Threads,
  Interfaces,  \* the interfaces in the order SIOCGIFCONF lists them
  Loopback,    \* those with IFF_LOOPBACK
  MaxFds,      \* descriptors the process may have open here
  MaxCalls,    \* bound of the model: calls of RetrieveEthernetAddr
  None         \* no thread, no interface, the all-zero address

Hosts == {Interfaces[i] : i \in DOMAIN Interfaces}

ASSUME NetUtilAssumption ==
  /\ IsFiniteSet(Threads)
  /\ Interfaces \in Seq(Hosts)
  /\ Loopback \subseteq Hosts
  /\ MaxFds \in Nat
  /\ MaxCalls \in Nat
  /\ None \notin Threads /\ None \notin Hosts

Halves == {1, 2}
Addresses == [Halves -> Hosts \cup {None}]

VARIABLES
  m_mutex,       \* the thread that holds it
  etheraddress,
  openFds,       \* descriptors open
  pc,            \* thread -> statement of RetrieveEthernetAddr, or a read
  it,            \* thread -> position in the list of interfaces
  found,         \* thread -> interface whose address was read
  returned,      \* thread -> what its last RetrieveEthernetAddr returned
  seen,          \* thread -> halves read through the reference
  calls,         \* calls of RetrieveEthernetAddr so far
  listFailures,  \* history: how often SIOCGIFCONF failed
  before         \* history: thread -> the address when it took the mutex

locals == <<it, found, returned, seen>>
vars == <<m_mutex, etheraddress, openFds, pc, locals, calls, listFailures, before>>

TypeOK ==
  /\ m_mutex \in Threads \cup {None}
  /\ etheraddress \in Addresses
  /\ openFds \in 0 .. MaxFds
  /\ pc \in [Threads -> {"out", "lock", "socket", "list", "scan", "close",
                         "copy1", "copy2", "unlock", "read1", "read2"}]
  /\ it \in [Threads -> 1 .. Len(Interfaces) + 1]
  /\ found \in [Threads -> Hosts \cup {None}]
  /\ returned \in [Threads -> {"none", "true", "false"}]
  /\ seen \in [Threads -> Addresses]
  /\ calls \in 0 .. MaxCalls
  /\ listFailures \in Nat
  /\ before \in [Threads -> Addresses]

-----------------------------------------------------------------------------
Goto(t, from, to) == pc[t] = from /\ pc' = [pc EXCEPT ![t] = to]

Call(t) ==
  /\ calls < MaxCalls
  /\ Goto(t, "out", "lock")
  /\ calls' = calls + 1
  /\ UNCHANGED <<m_mutex, etheraddress, openFds, locals, listFailures, before>>

(* Mutant of Lock: takes no lock. *)
LockNothing(t) ==
  /\ Goto(t, "lock", "socket")
  /\ m_mutex' = t
  /\ before' = [before EXCEPT ![t] = etheraddress]
  /\ it' = [it EXCEPT ![t] = 1]
  /\ found' = [found EXCEPT ![t] = None]
  /\ UNCHANGED <<etheraddress, openFds, returned, seen, calls, listFailures>>

(* std::scoped_lock lock{m_mutex} *)
Lock(t) ==
  /\ m_mutex = None
  /\ Goto(t, "lock", "socket")
  /\ m_mutex' = t
  /\ before' = [before EXCEPT ![t] = etheraddress]
  /\ it' = [it EXCEPT ![t] = 1]
  /\ found' = [found EXCEPT ![t] = None]
  /\ UNCHANGED <<etheraddress, openFds, returned, seen, calls, listFailures>>

(* Mutant of OpenSocket: the failure path closes what was never opened. *)
OpenSocketClosesAlways(t) ==
  /\ \/ /\ openFds < MaxFds
        /\ Goto(t, "socket", "list")
        /\ openFds' = openFds + 1
     \/ Goto(t, "socket", "close") /\ UNCHANGED openFds
  /\ UNCHANGED <<m_mutex, etheraddress, locals, calls, listFailures, before>>

(* A failed socket() returns at once. *)
OpenSocket(t) ==
  /\ \/ /\ openFds < MaxFds
        /\ Goto(t, "socket", "list")
        /\ openFds' = openFds + 1
     \/ Goto(t, "socket", "unlock") /\ UNCHANGED openFds
  /\ UNCHANGED <<m_mutex, etheraddress, locals, calls, listFailures, before>>

(* A failed SIOCGIFCONF returns without closing the socket. *)
ListInterfaces(t) ==
  /\ \/ Goto(t, "list", "scan") /\ UNCHANGED listFailures
     \/ Goto(t, "list", "unlock") /\ listFailures' = listFailures + 1
  /\ UNCHANGED <<m_mutex, etheraddress, openFds, locals, calls, before>>

(* Mutant of Scan: starts over when there was no interface to be found. *)
ScanAgain(t) ==
  /\ \/ /\ Goto(t, "scan", "scan")
        /\ it' = [it EXCEPT ![t] = IF @ > Len(Interfaces) THEN 1 ELSE @ + 1]
        /\ UNCHANGED found
     \/ /\ it[t] <= Len(Interfaces)
        /\ Interfaces[it[t]] \notin Loopback
        /\ Goto(t, "scan", "close")
        /\ found' = [found EXCEPT ![t] = Interfaces[it[t]]]
        /\ UNCHANGED it
  /\ UNCHANGED <<m_mutex, etheraddress, openFds, returned, seen, calls,
                 listFailures, before>>

(* The loop over the interfaces; each of its ioctls may fail. *)
Scan(t) ==
  /\ \/ /\ it[t] <= Len(Interfaces)
        /\ Goto(t, "scan", "scan")
        /\ it' = [it EXCEPT ![t] = @ + 1]
        /\ UNCHANGED found
     \/ /\ it[t] <= Len(Interfaces)
        /\ Interfaces[it[t]] \notin Loopback
        /\ Goto(t, "scan", "close")
        /\ found' = [found EXCEPT ![t] = Interfaces[it[t]]]
        /\ UNCHANGED it
     \/ /\ it[t] > Len(Interfaces)
        /\ Goto(t, "scan", "close")
        /\ UNCHANGED <<it, found>>
  /\ UNCHANGED <<m_mutex, etheraddress, openFds, returned, seen, calls,
                 listFailures, before>>

(* Mutants of CloseSocket: copies whatever was found; closes on failure only. *)
CloseSocketCopyAlways(t) ==
  /\ Goto(t, "close", "copy1")
  /\ openFds' = openFds - 1
  /\ UNCHANGED <<m_mutex, etheraddress, locals, calls, listFailures, before>>

CloseSocketOnFailure(t) ==
  /\ Goto(t, "close", IF found[t] = None THEN "unlock" ELSE "copy1")
  /\ openFds' = IF found[t] = None THEN openFds - 1 ELSE openFds
  /\ UNCHANGED <<m_mutex, etheraddress, locals, calls, listFailures, before>>

CloseSocket(t) ==
  /\ Goto(t, "close", IF found[t] = None THEN "unlock" ELSE "copy1")
  /\ openFds' = openFds - 1
  /\ UNCHANGED <<m_mutex, etheraddress, locals, calls, listFailures, before>>

(* memcpy(etheraddress.data(), ...), one half after the other. *)
Copy(t) ==
  /\ \/ /\ Goto(t, "copy1", "copy2")
        /\ etheraddress' = [etheraddress EXCEPT ![1] = found[t]]
     \/ /\ Goto(t, "copy2", "unlock")
        /\ etheraddress' = [etheraddress EXCEPT ![2] = found[t]]
  /\ UNCHANGED <<m_mutex, openFds, locals, calls, listFailures, before>>

(* Mutant of Return: a failed retrieval keeps the mutex. *)
ReturnLocked(t) ==
  /\ Goto(t, "unlock", "out")
  /\ m_mutex' = IF found[t] = None THEN m_mutex ELSE None
  /\ returned' =
       [returned EXCEPT ![t] = IF found[t] = None THEN "false" ELSE "true"]
  /\ UNCHANGED <<etheraddress, openFds, it, found, seen, calls, listFailures, before>>

(* Another mutant of Return: reports a success whatever was found. *)
ReturnTrue(t) ==
  /\ Goto(t, "unlock", "out")
  /\ m_mutex' = None
  /\ returned' = [returned EXCEPT ![t] = "true"]
  /\ UNCHANGED <<etheraddress, openFds, it, found, seen, calls, listFailures, before>>

(* The return statement; the scoped lock is released on every path. *)
Return(t) ==
  /\ Goto(t, "unlock", "out")
  /\ m_mutex' = None
  /\ returned' =
       [returned EXCEPT ![t] = IF found[t] = None THEN "false" ELSE "true"]
  /\ UNCHANGED <<etheraddress, openFds, it, found, seen, calls, listFailures, before>>

RetrieveEthernetAddr(t) ==
  \/ Lock(t)
  \/ OpenSocket(t)
  \/ ListInterfaces(t)
  \/ Scan(t)
  \/ CloseSocket(t)
  \/ Copy(t)
  \/ Return(t)

(***************************************************************************)
(* GetEthernetAddr returns a reference; the caller then reads it.          *)
(***************************************************************************)
GetEthernetAddr(t) ==
  /\ \/ Goto(t, "out", "read1") /\ UNCHANGED seen
     \/ /\ Goto(t, "read1", "read2")
        /\ seen' = [seen EXCEPT ![t][1] = etheraddress[1]]
     \/ /\ Goto(t, "read2", "out")
        /\ seen' = [seen EXCEPT ![t][2] = etheraddress[2]]
  /\ UNCHANGED <<m_mutex, etheraddress, openFds, it, found, returned, calls,
                 listFailures, before>>

Init ==
  /\ m_mutex = None
  /\ etheraddress = [h \in Halves |-> None]
  /\ openFds = 0
  /\ pc = [t \in Threads |-> "out"]
  /\ it = [t \in Threads |-> 1]
  /\ found = [t \in Threads |-> None]
  /\ returned = [t \in Threads |-> "none"]
  /\ seen = [t \in Threads |-> [h \in Halves |-> None]]
  /\ calls = 0
  /\ listFailures = 0
  /\ before = [t \in Threads |-> [h \in Halves |-> None]]

Next ==
  \E t \in Threads : Call(t) \/ RetrieveEthernetAddr(t) \/ GetEthernetAddr(t)

(* A thread inside RetrieveEthernetAddr keeps running. *)
Spec ==
  /\ Init /\ [][Next]_vars
  /\ \A t \in Threads : WF_vars(RetrieveEthernetAddr(t))

-----------------------------------------------------------------------------
Whole(a) == a[1] = a[2]

InHand == {t \in Threads : pc[t] \in {"list", "scan", "close"}}

(***************************************************************************)
(* Whenever the mutex is free the stored address is the whole address of   *)
(* one interface that is not a loopback one, or none was ever stored: two  *)
(* concurrent retrievals never mix their bytes.                            *)
(***************************************************************************)
StoredWhole ==
  m_mutex = None =>
    /\ Whole(etheraddress)
    /\ etheraddress[1] \notin Loopback

(***************************************************************************)
(* A retrieval that fails leaves the address as it found it, and one that  *)
(* succeeds has stored the address it read, when it gives the mutex back.  *)
(***************************************************************************)
OutcomeMatchesStore ==
  \A t \in Threads : pc[t] = "unlock" =>
    etheraddress = IF found[t] = None THEN before[t]
                   ELSE [h \in Halves |-> found[t]]

(***************************************************************************)
(* The open descriptors are those of the retrievals under way and one more *)
(* for every failed SIOCGIFCONF: no other path leaves a socket open, and   *)
(* that one does.                                                          *)
(***************************************************************************)
FdAccounting == openFds = Cardinality(InHand) + listFailures

(***************************************************************************)
(* Once failed SIOCGIFCONFs have left every descriptor open, the address   *)
(* never changes again and no retrieval succeeds, one that was under way   *)
(* included: a leak that looks harmless for some calls is then final.      *)
(***************************************************************************)
LeakIsFinal ==
  [][listFailures = MaxFds =>
       /\ UNCHANGED etheraddress
       /\ \A t \in Threads : Return(t) => returned'[t] = "false"]_vars

(***************************************************************************)
(* Every step of RetrieveEthernetAddr brings its return nearer, whichever  *)
(* system call fails: a call takes at most eight steps and one for each    *)
(* interface, however the threads interleave.                              *)
(***************************************************************************)
Ahead == [lock |-> 8, socket |-> 7, list |-> 6, scan |-> 5, close |-> 4, copy1 |-> 3,
          copy2 |-> 2, unlock |-> 1, out |-> 0, read1 |-> 0, read2 |-> 0]

StepsLeft(t) ==
  Ahead[pc[t]] + CASE pc[t] \in {"lock", "socket", "list"} -> Len(Interfaces)
                   [] pc[t] = "scan" -> Len(Interfaces) + 1 - it[t]
                   [] OTHER -> 0

RetrievalEnds ==
  [][\A t \in Threads : RetrieveEthernetAddr(t) => StepsLeft(t)' < StepsLeft(t)]_vars

(***************************************************************************)
(* To whoever goes by the result of RetrieveEthernetAddr, the address      *)
(* changes at once and only together with a success: NetUtil implements    *)
(* AddressService.  While the mutex is held, the address is the one found  *)
(* when it was taken.                                                      *)
(***************************************************************************)
StoredAddress ==
  IF m_mutex = None THEN etheraddress[1] ELSE before[m_mutex][1]

Address ==
  INSTANCE AddressService WITH Usable <- Hosts \ Loopback,
                               address <- StoredAddress, results <- returned

AddressSpec == Address!Spec

(***************************************************************************)
(* Every call of RetrieveEthernetAddr returns: no failure path leaves the  *)
(* mutex locked.                                                           *)
(***************************************************************************)
RetrieveReturns == \A t \in Threads : pc[t] = "lock" ~> pc[t] = "out"

(***************************************************************************)
(* "Mutex for thread safety": a thread that read the address has read one  *)
(* that was stored as a whole.                                             *)
(***************************************************************************)
ReadNotTorn == \A t \in Threads : pc[t] = "out" => Whole(seen[t])
=============================================================================
