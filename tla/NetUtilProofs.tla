---------------------------- MODULE NetUtilProofs ----------------------------
(***************************************************************************)
(* Proofs about NetUtil, for any threads, interfaces and numbers of        *)
(* descriptors and calls.                                                  *)
(*                                                                         *)
(* Mutex says that the thread inside RetrieveEthernetAddr is the one that  *)
(* holds the mutex; Content says what the address holds at each of its     *)
(* statements.  The invariants of the runs and the refinement follow.      *)
(***************************************************************************)
EXTENDS NetUtil, FiniteSetTheorems, TLAPS

Held == {"socket", "list", "scan", "close", "copy1", "copy2", "unlock"}

Mutex == \A t \in Threads : pc[t] \in Held <=> m_mutex = t

(* An address that may be in store: none yet, or all of a usable interface's. *)
Good(a) == Whole(a) /\ a[1] \in (Hosts \ Loopback) \cup {None}

Content ==
  /\ m_mutex = None => Good(etheraddress)
  /\ \A t \in Threads : m_mutex = t =>
       /\ Good(before[t])
       /\ found[t] \in (Hosts \ Loopback) \cup {None}
       /\ pc[t] \in {"socket", "list"} => found[t] = None
       /\ pc[t] = "scan" => found[t] = None
       /\ pc[t] \in {"copy1", "copy2"} => found[t] # None
       /\ pc[t] \in {"socket", "list", "scan", "close", "copy1"} => etheraddress = before[t]
       /\ pc[t] = "copy2" => etheraddress[1] = found[t]
       /\ pc[t] = "unlock" =>
            etheraddress = IF found[t] = None THEN before[t]
                           ELSE [h \in Halves |-> found[t]]

IInv == TypeOK /\ Mutex /\ Content /\ FdAccounting

USE DEF locals

-----------------------------------------------------------------------------
LEMMA InitIInv == Init => IInv
<1> SUFFICES ASSUME Init PROVE IInv
  OBVIOUS
<1>1. TypeOK
  BY NetUtilAssumption DEF Init, TypeOK, Addresses, Halves
<1>2. Mutex
  BY NetUtilAssumption DEF Init, Mutex, Held
<1>3. Content
  BY NetUtilAssumption DEF Init, Content, Good, Whole, Halves
<1>4. FdAccounting
  <2>1. InHand = {}
    BY DEF Init, InHand
  <2> QED
    BY <2>1, FS_EmptySet DEF Init, FdAccounting
<1> QED
  BY <1>1, <1>2, <1>3, <1>4 DEF IInv

(* What a step of t at its place "from" to "to" does to the places. *)
LEMMA Moves ==
  ASSUME TypeOK, NEW t \in Threads, NEW from, NEW to, Goto(t, from, to)
  PROVE  /\ pc[t] = from /\ pc'[t] = to
         /\ \A u \in Threads : u # t => pc'[u] = pc[u]
BY DEF TypeOK, Goto

(***************************************************************************)
(* At most one thread has a descriptor in hand, the one with the mutex, so *)
(* that the number of descriptors can be followed one by one.              *)
(***************************************************************************)
Inside == {"list", "scan", "close"}

LEMMA HandCount ==
  ASSUME NEW place, NEW m, \A t \in Threads : place[t] \in Held <=> m = t
  PROVE  Cardinality({t \in Threads : place[t] \in Inside}) =
           IF m \in Threads /\ place[m] \in Inside THEN 1 ELSE 0
<1> DEFINE hand == {t \in Threads : place[t] \in Inside}
<1>1. \A t \in hand : t = m
  BY DEF Held, Inside
<1>2. CASE m \in Threads /\ place[m] \in Inside
  <2>1. hand = {m}
    BY <1>1, <1>2
  <2> QED
    BY <1>2, <2>1, FS_Singleton
<1>3. CASE ~(m \in Threads /\ place[m] \in Inside)
  <2>1. hand = {}
    BY <1>1, <1>3
  <2> QED
    BY <1>3, <2>1, FS_EmptySet
<1> QED
  BY <1>2, <1>3

-----------------------------------------------------------------------------
(***************************************************************************)
(* One step at a time: a step of RetrieveEthernetAddr by the thread that   *)
(* holds the mutex.                                                        *)
(***************************************************************************)
LEMMA StepTyped == TypeOK /\ FdAccounting /\ Mutex /\ [Next]_vars => TypeOK'
<1> SUFFICES ASSUME TypeOK, FdAccounting, Mutex, [Next]_vars PROVE TypeOK'
  OBVIOUS
<1> USE DEF TypeOK
<1>a. /\ MaxFds \in Nat /\ MaxCalls \in Nat /\ Len(Interfaces) \in Nat
      /\ \A i \in 1 .. Len(Interfaces) : Interfaces[i] \in Hosts
  BY NetUtilAssumption
<1>1. ASSUME NEW t \in Threads, Call(t) PROVE TypeOK'
  BY <1>1, <1>a DEF Call, Goto
<1>2. ASSUME NEW t \in Threads, Lock(t) PROVE TypeOK'
  BY <1>2, <1>a DEF Lock, Goto
<1>3. ASSUME NEW t \in Threads, OpenSocket(t) PROVE TypeOK'
  <2>1. pc' \in [Threads -> Held \cup {"out", "lock", "read1", "read2"}]
    BY <1>3 DEF OpenSocket, Goto, Held
  <2>2. openFds' \in 0 .. MaxFds
    BY <1>3, <1>a DEF OpenSocket
  <2> QED
    BY <1>3, <2>1, <2>2 DEF OpenSocket, Held
<1>4. ASSUME NEW t \in Threads, ListInterfaces(t) PROVE TypeOK'
  <2>1. pc' \in [Threads -> Held \cup {"out", "lock", "read1", "read2"}]
    BY <1>4 DEF ListInterfaces, Goto, Held
  <2>2. listFailures' \in Nat
    BY <1>4 DEF ListInterfaces
  <2> QED
    BY <1>4, <2>1, <2>2 DEF ListInterfaces, Held
<1>5. ASSUME NEW t \in Threads, Scan(t) PROVE TypeOK'
  <2>1. pc' \in [Threads -> Held \cup {"out", "lock", "read1", "read2"}]
    <3>1. pc' = [pc EXCEPT ![t] = "scan"] \/ pc' = [pc EXCEPT ![t] = "close"]
      BY <1>5 DEF Scan, Goto
    <3>2. pc \in [Threads -> Held \cup {"out", "lock", "read1", "read2"}]
      BY DEF Held
    <3> QED
      BY <3>1, <3>2 DEF Held
  <2>2. it' \in [Threads -> 1 .. Len(Interfaces) + 1]
    <3>1. it[t] \in 1 .. Len(Interfaces) + 1
      OBVIOUS
    <3>2. it[t] <= Len(Interfaces) => it[t] + 1 \in 1 .. Len(Interfaces) + 1
      BY <1>a, <3>1
    <3> QED
      BY <1>5, <3>2 DEF Scan
  <2>3. found' \in [Threads -> Hosts \cup {None}]
    <3>1. it[t] <= Len(Interfaces) => Interfaces[it[t]] \in Hosts
      BY <1>a
    <3> QED
      BY <1>5, <3>1 DEF Scan
  <2> QED
    BY <1>5, <2>1, <2>2, <2>3 DEF Scan, Held
<1>6. ASSUME NEW t \in Threads, CloseSocket(t) PROVE TypeOK'
  <2>1. pc[t] = "close" /\ openFds' = openFds - 1
    BY <1>6 DEF CloseSocket, Goto
  <2>2. Cardinality(InHand) = 1
    BY <2>1, HandCount DEF Mutex, Held, Inside, InHand
  <2>3. openFds >= 1
    BY <2>2 DEF FdAccounting
  <2> QED
    BY <1>6, <1>a, <2>3 DEF CloseSocket, Goto
<1>7. ASSUME NEW t \in Threads, Copy(t) PROVE TypeOK'
  <2>1. pc' = [pc EXCEPT ![t] = "copy2"] \/ pc' = [pc EXCEPT ![t] = "unlock"]
    BY <1>7 DEF Copy, Goto
  <2>2. pc' \in [Threads -> Held \cup {"out", "lock", "read1", "read2"}]
    <3>1. pc \in [Threads -> Held \cup {"out", "lock", "read1", "read2"}]
      BY DEF Held
    <3> HIDE DEF TypeOK
    <3> QED
      BY <2>1, <3>1 DEF Held
  <2>3. etheraddress' \in Addresses
    <3>1. \/ etheraddress' = [etheraddress EXCEPT ![1] = found[t]]
          \/ etheraddress' = [etheraddress EXCEPT ![2] = found[t]]
      BY <1>7, Zenon DEF Copy
    <3>2. found[t] \in Hosts \cup {None} /\ etheraddress \in Addresses
      OBVIOUS
    <3> HIDE DEF TypeOK
    <3> QED
      BY <3>1, <3>2 DEF Addresses, Halves
  <2> QED
    BY <1>7, <2>2, <2>3 DEF Copy, Held
<1>8. ASSUME NEW t \in Threads, Return(t) PROVE TypeOK'
  BY <1>8, <1>a DEF Return, Goto
<1>9. ASSUME NEW t \in Threads, GetEthernetAddr(t) PROVE TypeOK'
  <2>1. seen' \in [Threads -> Addresses]
    <3>1. CASE seen' = [seen EXCEPT ![t][1] = etheraddress[1]]
      <4>1. [seen[t] EXCEPT ![1] = etheraddress[1]] \in Addresses
        BY DEF Addresses, Halves
      <4> QED
        BY <3>1, <4>1
    <3>2. CASE seen' = [seen EXCEPT ![t][2] = etheraddress[2]]
      <4>1. [seen[t] EXCEPT ![2] = etheraddress[2]] \in Addresses
        BY DEF Addresses, Halves
      <4> QED
        BY <3>2, <4>1
    <3> QED
      BY <1>9, <3>1, <3>2 DEF GetEthernetAddr
  <2> QED
    BY <1>9, <1>a, <2>1 DEF GetEthernetAddr, Goto
<1>10. CASE UNCHANGED vars
  BY <1>10 DEF vars
<1> QED
  BY <1>1, <1>2, <1>3, <1>4, <1>5, <1>6, <1>7, <1>8, <1>9, <1>10
     DEF Next, RetrieveEthernetAddr

LEMMA MutexStep == TypeOK /\ Mutex /\ [Next]_vars => Mutex'
<1> SUFFICES ASSUME TypeOK, Mutex, [Next]_vars, NEW u \in Threads
             PROVE  (pc'[u] \in Held) <=> (m_mutex' = u)
  BY DEF Mutex
<1>0. /\ (pc[u] \in Held) <=> (m_mutex = u)
      /\ u # None
  BY NetUtilAssumption DEF Mutex
<1>1. ASSUME NEW t \in Threads, Call(t) \/ GetEthernetAddr(t)
      PROVE  (pc'[u] \in Held) <=> (m_mutex' = u)
  BY <1>0, <1>1 DEF Call, GetEthernetAddr, Goto, TypeOK, Held
<1>2. ASSUME NEW t \in Threads, Lock(t)
      PROVE  (pc'[u] \in Held) <=> (m_mutex' = u)
  BY <1>0, <1>2 DEF Lock, Goto, TypeOK, Held
<1>3. ASSUME NEW t \in Threads,
             OpenSocket(t) \/ ListInterfaces(t) \/ Scan(t) \/ CloseSocket(t) \/ Copy(t)
      PROVE  (pc'[u] \in Held) <=> (m_mutex' = u)
  <2>1. m_mutex' = m_mutex
    BY <1>3 DEF OpenSocket, ListInterfaces, Scan, CloseSocket, Copy
  <2>2. PICK from \in Held, to \in Held : Goto(t, from, to)
    BY <1>3 DEF OpenSocket, ListInterfaces, Scan, CloseSocket, Copy, Goto, Held
  <2> QED
    BY <1>0, <2>1, <2>2, Moves
<1>4. ASSUME NEW t \in Threads, Return(t)
      PROVE  (pc'[u] \in Held) <=> (m_mutex' = u)
  <2>1. m_mutex = t /\ m_mutex' = None /\ Goto(t, "unlock", "out")
    BY <1>4 DEF Return, Goto, Mutex, Held
  <2> QED
    BY <1>0, <2>1, Moves DEF Held
<1>5. CASE UNCHANGED vars
  BY <1>0, <1>5 DEF vars
<1> QED
  BY <1>1, <1>2, <1>3, <1>4, <1>5 DEF Next, RetrieveEthernetAddr

(***************************************************************************)
(* A step by t leaves the thread with the mutex alone unless that is t.    *)
(***************************************************************************)
LEMMA ContentStep == TypeOK /\ Mutex /\ Content /\ [Next]_vars => Content'
<1> SUFFICES ASSUME TypeOK, Mutex, Content, [Next]_vars PROVE Content'
  OBVIOUS
<1>0. \A u \in Threads : u # None
  BY NetUtilAssumption
<1>1. ASSUME NEW t \in Threads, Call(t) \/ GetEthernetAddr(t) PROVE Content'
  <2>1. UNCHANGED <<m_mutex, etheraddress, before, found>>
    BY <1>1 DEF Call, GetEthernetAddr
  <2>2. \A u \in Threads : m_mutex = u => pc'[u] = pc[u]
    BY <1>1 DEF Call, GetEthernetAddr, Goto, TypeOK, Mutex, Held
  <2> QED
    BY <2>1, <2>2 DEF Content
<1>2. ASSUME NEW t \in Threads, Lock(t) PROVE Content'
  <2>1. /\ m_mutex = None /\ m_mutex' = t /\ pc'[t] = "socket" /\ etheraddress' = etheraddress
        /\ before'[t] = etheraddress /\ found'[t] = None
    BY <1>2 DEF Lock, Goto, TypeOK
  <2> QED
    BY <1>0, <2>1 DEF Content
<1>3. ASSUME NEW t \in Threads,
             OpenSocket(t) \/ ListInterfaces(t) \/ Scan(t) \/ CloseSocket(t) \/ Copy(t)
                \/ Return(t)
      PROVE  /\ m_mutex = t /\ before' = before /\ pc[t] \in Held
             /\ \A u \in Threads : m_mutex = u => u = t
             /\ Good(before[t]) /\ found[t] \in (Hosts \ Loopback) \cup {None}
  <2>1. pc[t] \in Held /\ before' = before
    BY <1>3 DEF OpenSocket, ListInterfaces, Scan, CloseSocket, Copy, Return, Goto, Held
  <2> QED
    BY <2>1 DEF Mutex, Content
<1>4. ASSUME NEW t \in Threads, OpenSocket(t) \/ ListInterfaces(t) PROVE Content'
  <2>1. UNCHANGED <<m_mutex, etheraddress, before, found>>
    BY <1>4 DEF OpenSocket, ListInterfaces
  <2>2. pc[t] \in {"socket", "list"} /\ pc'[t] \in {"list", "scan", "unlock"}
    BY <1>4 DEF OpenSocket, ListInterfaces, Goto, TypeOK
  <2> QED
    BY <1>0, <1>3, <1>4, <2>1, <2>2 DEF Content
<1>5. ASSUME NEW t \in Threads, Scan(t) PROVE Content'
  <2>1. UNCHANGED <<m_mutex, etheraddress, before>> /\ pc[t] = "scan" /\ found[t] = None
    BY <1>3, <1>5 DEF Scan, Goto, Content
  <2>2. pc'[t] \in {"scan", "close"} /\ (pc'[t] = "scan" => found' = found)
    BY <1>5 DEF Scan, Goto, TypeOK
  <2>3. found'[t] \in (Hosts \ Loopback) \cup {None}
    <3>1. it[t] <= Len(Interfaces) => Interfaces[it[t]] \in Hosts
      BY NetUtilAssumption DEF TypeOK
    <3> QED
      BY <1>5, <2>1, <3>1 DEF Scan, TypeOK
  <2> QED
    BY <1>0, <1>3, <1>5, <2>1, <2>2, <2>3 DEF Content
<1>6. ASSUME NEW t \in Threads, CloseSocket(t) PROVE Content'
  <2>1. UNCHANGED <<m_mutex, etheraddress, before, found>> /\ pc[t] = "close"
    BY <1>6 DEF CloseSocket, Goto
  <2>2. pc'[t] = IF found[t] = None THEN "unlock" ELSE "copy1"
    BY <1>6 DEF CloseSocket, Goto, TypeOK
  <2> QED
    BY <1>0, <1>3, <1>6, <2>1, <2>2 DEF Content
<1>7. ASSUME NEW t \in Threads, Copy(t) PROVE Content'
  <2>1. UNCHANGED <<m_mutex, before, found>> /\ found[t] # None
    BY <1>3, <1>7 DEF Copy, Goto, Content
  <2>2. CASE pc[t] = "copy1"
    <3>1. pc'[t] = "copy2" /\ etheraddress'[1] = found[t]
      BY <1>7, <2>2 DEF Copy, Goto, TypeOK, Addresses, Halves
    <3> QED
      BY <1>0, <1>3, <1>7, <2>1, <2>2, <3>1 DEF Content
  <2>3. CASE pc[t] = "copy2"
    <3>1. /\ pc'[t] = "unlock" /\ etheraddress[1] = found[t]
          /\ etheraddress' = [etheraddress EXCEPT ![2] = found[t]]
      BY <1>3, <1>7, <2>3 DEF Copy, Goto, TypeOK, Content
    <3>2. etheraddress' = [h \in Halves |-> found[t]]
      BY <3>1 DEF TypeOK, Addresses, Halves
    <3> QED
      <4>1. m_mutex = t /\ m_mutex # None
        BY <1>0, <1>3, <1>7
      <4>2. Good(before[t]) /\ found[t] \in (Hosts \ Loopback) \cup {None}
        BY <1>3, <1>7
      <4> QED
        BY <2>1, <3>1, <3>2, <4>1, <4>2 DEF Content
  <2> QED
    BY <1>7, <2>2, <2>3 DEF Copy, Goto
<1>8. ASSUME NEW t \in Threads, Return(t) PROVE Content'
  <2>1. pc[t] = "unlock" /\ etheraddress' = etheraddress /\ m_mutex' = None
    BY <1>8 DEF Return, Goto
  <2>2. Good(etheraddress)
    BY <1>3, <1>8, <2>1 DEF Content, Good, Whole, Halves
  <2> QED
    BY <1>0, <2>1, <2>2 DEF Content, Good, Whole
<1>9. CASE UNCHANGED vars
  BY <1>9 DEF vars, Content, Good, Whole
<1> QED
  BY <1>1, <1>2, <1>4, <1>5, <1>6, <1>7, <1>8, <1>9 DEF Next, RetrieveEthernetAddr

(***************************************************************************)
(* A descriptor enters or leaves the hands of the thread with the mutex,   *)
(* or is left open by a failed SIOCGIFCONF.                                *)
(***************************************************************************)
LEMMA FdStep == TypeOK /\ Mutex /\ FdAccounting /\ [Next]_vars => FdAccounting'
<1> SUFFICES ASSUME TypeOK, Mutex, FdAccounting, [Next]_vars PROVE FdAccounting'
  OBVIOUS
<1> USE DEF FdAccounting
<1>0. TypeOK' /\ Mutex'
  BY StepTyped, MutexStep
<1>a. openFds \in Int /\ listFailures \in Int
  BY NetUtilAssumption DEF TypeOK
<1> DEFINE one(m, place) == IF m \in Threads /\ place[m] \in Inside THEN 1 ELSE 0
<1>h. Cardinality(InHand) = one(m_mutex, pc) /\ Cardinality(InHand)' = one(m_mutex', pc')
  BY <1>0, HandCount DEF Mutex, InHand, Inside
<1>s. SUFFICES openFds' = one(m_mutex', pc') + listFailures'
  BY <1>h
<1>n. openFds = one(m_mutex, pc) + listFailures
  BY <1>h
<1> HIDE DEF FdAccounting
<1>1. ASSUME NEW t \in Threads, Call(t) \/ GetEthernetAddr(t)
      PROVE  openFds' = one(m_mutex', pc') + listFailures'
  <2>1. UNCHANGED <<openFds, listFailures, m_mutex>>
    BY <1>1 DEF Call, GetEthernetAddr
  <2>2. m_mutex \in Threads => pc'[m_mutex] = pc[m_mutex]
    BY <1>1 DEF Call, GetEthernetAddr, Goto, TypeOK, Mutex, Held
  <2> QED
    BY <1>n, <2>1, <2>2
<1>2. ASSUME NEW t \in Threads, Lock(t)
      PROVE  openFds' = one(m_mutex', pc') + listFailures'
  <2>1. UNCHANGED <<openFds, listFailures>> /\ m_mutex = None /\ m_mutex' = t /\ pc'[t] = "socket"
    BY <1>2 DEF Lock, Goto, TypeOK
  <2> QED
    BY <1>n, <2>1, NetUtilAssumption DEF Inside
<1>3. ASSUME NEW t \in Threads,
             OpenSocket(t) \/ ListInterfaces(t) \/ Scan(t) \/ CloseSocket(t) \/ Copy(t)
      PROVE  openFds' = one(m_mutex', pc') + listFailures'
  <2>1. m_mutex = t /\ m_mutex' = t
    <3>1. pc[t] \in Held /\ m_mutex' = m_mutex
      BY <1>3 DEF OpenSocket, ListInterfaces, Scan, CloseSocket, Copy, Goto, Held
    <3> QED
      BY <3>1 DEF Mutex
  <2>2. CASE OpenSocket(t)
    <3>1. /\ pc[t] = "socket" /\ listFailures' = listFailures
          /\ \/ pc'[t] = "list" /\ openFds' = openFds + 1
             \/ pc'[t] = "unlock" /\ openFds' = openFds
      BY <2>2 DEF OpenSocket, Goto, TypeOK
    <3> QED
      BY <1>n, <1>a, <2>1, <3>1 DEF Inside
  <2>3. CASE ListInterfaces(t)
    <3>1. /\ pc[t] = "list" /\ openFds' = openFds
          /\ \/ pc'[t] = "scan" /\ listFailures' = listFailures
             \/ pc'[t] = "unlock" /\ listFailures' = listFailures + 1
      BY <2>3 DEF ListInterfaces, Goto, TypeOK
    <3> QED
      BY <1>n, <1>a, <2>1, <3>1 DEF Inside
  <2>4. CASE Scan(t)
    <3>1. /\ pc[t] = "scan" /\ pc'[t] \in {"scan", "close"}
          /\ UNCHANGED <<openFds, listFailures>>
      BY <2>4 DEF Scan, Goto, TypeOK
    <3> QED
      BY <1>n, <2>1, <3>1 DEF Inside
  <2>5. CASE CloseSocket(t)
    <3>1. /\ pc[t] = "close" /\ pc'[t] \in {"unlock", "copy1"}
          /\ openFds' = openFds - 1 /\ UNCHANGED listFailures
      BY <2>5 DEF CloseSocket, Goto, TypeOK
    <3> QED
      BY <1>n, <1>a, <2>1, <3>1 DEF Inside
  <2>6. CASE Copy(t)
    <3>1. /\ pc[t] \in {"copy1", "copy2"} /\ pc'[t] \in {"copy2", "unlock"}
          /\ UNCHANGED <<openFds, listFailures>>
      BY <2>6 DEF Copy, Goto, TypeOK
    <3> QED
      BY <1>n, <2>1, <3>1 DEF Inside
  <2> QED
    BY <1>3, <2>2, <2>3, <2>4, <2>5, <2>6
<1>4. ASSUME NEW t \in Threads, Return(t)
      PROVE  openFds' = one(m_mutex', pc') + listFailures'
  <2>1. /\ pc[t] = "unlock" /\ m_mutex = t /\ m_mutex' = None
        /\ UNCHANGED <<openFds, listFailures>>
    BY <1>4 DEF Return, Goto, Mutex, Held
  <2> QED
    BY <1>n, <2>1, NetUtilAssumption DEF Inside
<1>5. CASE UNCHANGED vars
  BY <1>n, <1>5 DEF vars
<1> QED
  BY <1>1, <1>2, <1>3, <1>4, <1>5 DEF Next, RetrieveEthernetAddr

-----------------------------------------------------------------------------
LEMMA Invariant == Spec => []IInv
<1>1. IInv /\ [Next]_vars => IInv'
  BY StepTyped, MutexStep, ContentStep, FdStep DEF IInv
<1> QED
  BY InitIInv, <1>1, PTL DEF Spec

(* No step leaves the types: the positions stay in the list of interfaces, *)
(* the descriptors within their limit, whatever fails.                     *)
THEOREM TypeCorrect == Spec => []TypeOK
BY Invariant, PTL DEF IInv

(* RetrieveEthernetAddr never leaves a mixture of two interfaces' bytes,   *)
(* nor a loopback address, behind when it releases the mutex.              *)
THEOREM StoredAsAWhole == Spec => []StoredWhole
<1>1. IInv => StoredWhole
  BY NetUtilAssumption DEF IInv, Content, Good, StoredWhole
<1> QED
  BY Invariant, <1>1, PTL

(* What RetrieveEthernetAddr returns tells whether it stored an address.   *)
THEOREM OutcomeTold == Spec => []OutcomeMatchesStore
<1>1. IInv => OutcomeMatchesStore
  BY DEF IInv, Content, Mutex, Held, OutcomeMatchesStore
<1> QED
  BY Invariant, <1>1, PTL

(* The descriptors RetrieveEthernetAddr leaves open are those of the failed *)
(* SIOCGIFCONF calls, for any number of threads and calls.                  *)
THEOREM FdsCounted == Spec => []FdAccounting
BY Invariant, PTL DEF IInv

-----------------------------------------------------------------------------
(***************************************************************************)
(* A leak is final: with every descriptor left open none is in hand, and a *)
(* retrieval that is past the scan found nothing.                          *)
(***************************************************************************)
Exhausted ==
  listFailures = MaxFds =>
    \A t \in Threads :
      /\ pc[t] \notin {"list", "scan", "close", "copy1", "copy2"}
      /\ pc[t] = "unlock" => found[t] = None

LEMMA InitExhausted == Init => Exhausted
BY DEF Init, Exhausted

LEMMA ExhaustedStep == IInv /\ IInv' /\ Exhausted /\ [Next]_vars => Exhausted'
<1> SUFFICES ASSUME IInv, IInv', Exhausted, [Next]_vars, listFailures' = MaxFds, NEW u \in Threads
             PROVE  /\ pc'[u] \notin {"list", "scan", "close", "copy1", "copy2"}
                    /\ pc'[u] = "unlock" => found'[u] = None
  BY DEF Exhausted
<1>0. TypeOK /\ Mutex /\ Content
  BY DEF IInv
<1>h. pc'[u] \notin {"list", "scan", "close"}
  <2>1. /\ openFds' \in 0 .. MaxFds /\ \A t \in Threads : pc'[t] \in Held <=> m_mutex' = t
        /\ openFds' = Cardinality({t \in Threads : pc'[t] \in Inside}) + MaxFds
    BY DEF IInv, TypeOK, Mutex, FdAccounting, InHand, Inside
  <2>2. Cardinality({t \in Threads : pc'[t] \in Inside}) =
          IF m_mutex' \in Threads /\ pc'[m_mutex'] \in Inside THEN 1 ELSE 0
    BY <2>1, HandCount
  <2>3. ~(m_mutex' \in Threads /\ pc'[m_mutex'] \in Inside)
    BY <2>1, <2>2, NetUtilAssumption
  <2> QED
    BY <2>1, <2>3 DEF Held, Inside
<1>1. ASSUME NEW t \in Threads, ListInterfaces(t), listFailures' = listFailures + 1
      PROVE  /\ pc'[u] \notin {"copy1", "copy2"}
             /\ pc'[u] = "unlock" => found'[u] = None
  <2>1. pc[t] = "list" /\ pc'[t] = "unlock" /\ found' = found
    BY <1>0, <1>1 DEF ListInterfaces, Goto, TypeOK
  <2>2. m_mutex = t /\ found[t] = None
    BY <1>0, <2>1 DEF Mutex, Held, Content
  <2>3. u # t => pc'[u] = pc[u] /\ pc[u] \notin Held
    BY <1>0, <1>1, <2>2 DEF ListInterfaces, Goto, TypeOK, Mutex
  <2> QED
    BY <2>1, <2>2, <2>3 DEF Held
<1>2. CASE listFailures = MaxFds
  <2>1. \A t \in Threads : pc[t] \notin {"list", "scan", "close", "copy1", "copy2"}
                            /\ (pc[t] = "unlock" => found[t] = None)
    BY <1>2 DEF Exhausted
  <2>2. ASSUME NEW t \in Threads, Call(t) \/ Lock(t) \/ Return(t) \/ GetEthernetAddr(t)
        PROVE  /\ pc'[u] \notin {"copy1", "copy2", "unlock"} \/ pc'[u] = pc[u]
               /\ pc[u] = "unlock" => found'[u] = found[u]
    BY <1>0, <2>2 DEF Call, Lock, Return, GetEthernetAddr, Goto, TypeOK
  <2>3. ASSUME NEW t \in Threads, OpenSocket(t)
        PROVE  /\ pc'[u] \notin {"copy1", "copy2"}
               /\ pc'[u] = "unlock" => found'[u] = None
    <3>1. pc[t] = "socket" /\ found' = found /\ found[t] = None
      BY <1>0, <2>3 DEF OpenSocket, Goto, Mutex, Held, Content
    <3>2. u # t => pc'[u] = pc[u]
      BY <1>0, <2>3 DEF OpenSocket, Goto, TypeOK
    <3>3. pc'[t] \in {"list", "unlock"}
      BY <1>0, <2>3 DEF OpenSocket, Goto, TypeOK
    <3> QED
      BY <2>1, <3>1, <3>2, <3>3
  <2>4. ASSUME NEW t \in Threads
        PROVE  ~(ListInterfaces(t) \/ Scan(t) \/ CloseSocket(t) \/ Copy(t))
    BY <2>1 DEF ListInterfaces, Scan, CloseSocket, Copy, Goto
  <2>5. CASE UNCHANGED vars
    BY <2>1, <2>5 DEF vars
  <2> QED
    BY <1>h, <2>1, <2>2, <2>3, <2>4, <2>5 DEF Next, RetrieveEthernetAddr
<1>3. CASE listFailures # MaxFds
  <2>1. listFailures' # listFailures
    BY <1>3
  <2>2. PICK t \in Threads : ListInterfaces(t) /\ listFailures' = listFailures + 1
    BY <2>1 DEF Next, RetrieveEthernetAddr, Call, Lock, OpenSocket, ListInterfaces, Scan,
                CloseSocket, Copy, Return, GetEthernetAddr, vars
  <2> QED
    BY <1>h, <1>1, <2>2
<1> QED
  BY <1>2, <1>3

LEMMA ExhaustedInvariant == Spec => []Exhausted
BY Invariant, InitExhausted, ExhaustedStep, PTL DEF Spec

(* When failed SIOCGIFCONFs have left every descriptor open, no later call  *)
(* of RetrieveEthernetAddr stores an address or reports a success.          *)
THEOREM LeakFinal == Spec => LeakIsFinal
<1>1. ASSUME IInv, Exhausted, [Next]_vars, listFailures = MaxFds
      PROVE  /\ UNCHANGED etheraddress
             /\ \A t \in Threads : Return(t) => returned'[t] = "false"
  <2>0. TypeOK /\ \A t \in Threads :
          pc[t] \notin {"copy1", "copy2"} /\ (pc[t] = "unlock" => found[t] = None)
    BY <1>1 DEF IInv, Exhausted
  <2>1. UNCHANGED etheraddress
    BY <1>1, <2>0 DEF Next, RetrieveEthernetAddr, Call, Lock, OpenSocket, ListInterfaces,
                Scan, CloseSocket, Copy, Return, GetEthernetAddr, Goto, vars
  <2>2. ASSUME NEW t \in Threads, Return(t) PROVE returned'[t] = "false"
    BY <2>0, <2>2 DEF Return, Goto, TypeOK
  <2> QED
    BY <2>1, <2>2
<1> QED
  BY <1>1, Invariant, ExhaustedInvariant, PTL DEF Spec, LeakIsFinal

(* RetrieveEthernetAddr ends after a number of steps that is known when it  *)
(* is called: every step lowers what is left, whatever fails.               *)
THEOREM RetrievalBounded == Spec => RetrievalEnds
<1>1. ASSUME IInv, NEW t \in Threads, RetrieveEthernetAddr(t)
      PROVE  StepsLeft(t)' < StepsLeft(t)
  <2>0. /\ TypeOK /\ Len(Interfaces) \in Nat /\ it[t] \in 1 .. Len(Interfaces) + 1
    BY <1>1, NetUtilAssumption DEF IInv, TypeOK
  <2>1. CASE Lock(t)
    <3>1. pc[t] = "lock" /\ pc'[t] = "socket"
      BY <2>0, <2>1 DEF Lock, Goto, TypeOK
    <3> QED
      BY <2>0, <3>1 DEF StepsLeft, Ahead
  <2>2. CASE OpenSocket(t) \/ ListInterfaces(t)
    <3>1. \/ pc[t] = "socket" /\ pc'[t] \in {"list", "unlock"}
          \/ pc[t] = "list" /\ pc'[t] = "unlock"
          \/ pc[t] = "list" /\ pc'[t] = "scan" /\ it'[t] = it[t]
      BY <2>0, <2>2 DEF OpenSocket, ListInterfaces, Goto, TypeOK
    <3>2. StepsLeft(t) = IF pc[t] = "socket" THEN 7 + Len(Interfaces) ELSE 6 + Len(Interfaces)
      BY <3>1 DEF StepsLeft, Ahead
    <3>3. \/ pc'[t] = "list" /\ StepsLeft(t)' = 6 + Len(Interfaces)
          \/ pc'[t] = "unlock" /\ StepsLeft(t)' = 1 + 0
          \/ pc'[t] = "scan" /\ StepsLeft(t)' = 5 + (Len(Interfaces) + 1 - it'[t])
      BY <3>1 DEF StepsLeft, Ahead
    <3> QED
      BY <2>0, <3>1, <3>2, <3>3
  <2>3. CASE Scan(t)
    <3>1. /\ pc[t] = "scan"
          /\ \/ pc'[t] = "scan" /\ it'[t] = it[t] + 1
             \/ pc'[t] = "close"
      BY <2>0, <2>3 DEF Scan, Goto, TypeOK
    <3>2. StepsLeft(t) = 5 + (Len(Interfaces) + 1 - it[t])
      BY <3>1 DEF StepsLeft, Ahead
    <3>3. StepsLeft(t)' = IF pc'[t] = "scan" THEN 5 + (Len(Interfaces) + 1 - it'[t]) ELSE 4 + 0
      BY <3>1 DEF StepsLeft, Ahead
    <3> QED
      BY <2>0, <3>1, <3>2, <3>3
  <2>4. CASE CloseSocket(t) \/ Copy(t) \/ Return(t)
    <3>1. \/ pc[t] = "close" /\ pc'[t] \in {"copy1", "unlock"}
          \/ pc[t] = "copy1" /\ pc'[t] = "copy2"
          \/ pc[t] = "copy2" /\ pc'[t] = "unlock"
          \/ pc[t] = "unlock" /\ pc'[t] = "out"
      BY <2>0, <2>4 DEF CloseSocket, Copy, Return, Goto, TypeOK
    <3>2. StepsLeft(t) = Ahead[pc[t]] + 0 /\ StepsLeft(t)' = Ahead[pc'[t]] + 0
      BY <3>1 DEF StepsLeft
    <3> QED
      BY <3>1, <3>2 DEF Ahead
  <2> QED
    BY <1>1, <2>1, <2>2, <2>3, <2>4 DEF RetrieveEthernetAddr
<1>2. IInv => [\A t \in Threads : RetrieveEthernetAddr(t) => StepsLeft(t)' < StepsLeft(t)]_vars
  BY <1>1
<1> QED
  BY <1>2, Invariant, PTL DEF RetrievalEnds

-----------------------------------------------------------------------------
(***************************************************************************)
(* The refinement: Return is the abstract step, and the address that       *)
(* counts is the same before and after every other one.                    *)
(***************************************************************************)
LEMMA MapInit == Init => Address!Init
BY DEF Init, Address!Init, StoredAddress, Halves

LEMMA MapStep == IInv /\ [Next]_vars => [Address!Next]_<<StoredAddress, returned>>
<1> SUFFICES ASSUME IInv, [Next]_vars
             PROVE  [Address!Next]_<<StoredAddress, returned>>
  OBVIOUS
<1>0. TypeOK /\ Mutex /\ Content /\ \A u \in Threads : u # None
  BY NetUtilAssumption DEF IInv
<1>1. ASSUME NEW t \in Threads, Return(t) PROVE Address!Next
  <2>1. /\ m_mutex = t /\ pc[t] = "unlock" /\ m_mutex' = None
        /\ etheraddress' = etheraddress
    BY <1>0, <1>1 DEF Return, Goto, Mutex, Held
  <2>2. StoredAddress = before[t][1] /\ StoredAddress' = etheraddress[1]
    BY <1>0, <2>1 DEF StoredAddress
  <2>3. /\ found[t] \in (Hosts \ Loopback) \cup {None}
        /\ etheraddress = IF found[t] = None THEN before[t] ELSE [h \in Halves |-> found[t]]
    BY <1>0, <2>1 DEF Content
  <2>4. CASE found[t] = None
    <3>1. Address!Fail(t)
      BY <1>1, <2>2, <2>3, <2>4 DEF Return, Address!Fail
    <3> QED
      BY <3>1 DEF Address!Next
  <2>5. CASE found[t] # None
    <3>1. StoredAddress' \in Hosts \ Loopback
      BY <2>2, <2>3, <2>5 DEF Halves
    <3>2. Address!Succeed(t)
      BY <1>1, <2>5, <3>1 DEF Return, Address!Succeed
    <3> QED
      BY <3>2 DEF Address!Next
  <2> QED
    BY <2>4, <2>5
<1>2. ASSUME NEW t \in Threads, Lock(t) PROVE UNCHANGED <<StoredAddress, returned>>
  BY <1>0, <1>2 DEF Lock, TypeOK, StoredAddress
<1>3. ASSUME NEW t \in Threads,
             OpenSocket(t) \/ ListInterfaces(t) \/ Scan(t) \/ CloseSocket(t) \/ Copy(t)
      PROVE  UNCHANGED <<StoredAddress, returned>>
  <2>1. pc[t] \in Held /\ UNCHANGED <<m_mutex, before, returned>>
    BY <1>3 DEF OpenSocket, ListInterfaces, Scan, CloseSocket, Copy, Goto, Held
  <2>2. m_mutex = t
    BY <1>0, <2>1 DEF Mutex
  <2> QED
    BY <1>0, <2>1, <2>2 DEF StoredAddress
<1>4. ASSUME NEW t \in Threads, Call(t) \/ GetEthernetAddr(t)
      PROVE  UNCHANGED <<StoredAddress, returned>>
  BY <1>4 DEF Call, GetEthernetAddr, StoredAddress
<1>5. CASE UNCHANGED vars
  BY <1>5 DEF vars, StoredAddress
<1> QED
  BY <1>1, <1>2, <1>3, <1>4, <1>5 DEF Next, RetrieveEthernetAddr

(* NetUtil implements AddressService: to whoever goes by its results,      *)
(* RetrieveEthernetAddr replaces the address at once or not at all.        *)
THEOREM Implements == Spec => AddressSpec
BY Invariant, MapInit, MapStep, PTL DEF Spec, AddressSpec, Address!Spec
=============================================================================
