---------------------------- MODULE SysNetProofs ----------------------------
(***************************************************************************)
(* Proofs about SysNet, for any threads, handles, connections and native   *)
(* errors.                                                                 *)
(*                                                                         *)
(* Answers ties the kernel's error location to the cause of the failure.   *)
(* Handles says how far each file under construction is, and that no two   *)
(* threads construct the same one.  Places says that a connection is in    *)
(* one place, and Counted the same in numbers.  The invariants of the runs *)
(* and the refinement follow.                                              *)
(***************************************************************************)
EXTENDS SysNet, Integers, FiniteSetTheorems, TLAPS

(* What the error location holds after a failure of this cause. *)
KernelError(why) ==
  CASE why = "no handle" -> "EBADF"
    [] why = "stub"      -> "EAGAIN"
    [] OTHER             -> ConvertReturnErrorCode(why)

AnswerOf(t) ==
  /\ pc[t] = "failed" => cause[t] # "none" /\ error[t] = KernelError(cause[t])
  /\ pc[t] = "out" /\ ret[t] \notin {"none", "fd"} =>
       ret[t] = ErrorFor(cause[t]) /\ net_errno[t] = ret[t]

Answers == \A t \in Threads : AnswerOf(t)

Accepted == {"create", "open", "type", "socket"}  \* has a connection in hand
Building == {"open", "type", "socket", "done"}    \* has a handle of its own

Empty == [isopened |-> FALSE, type |-> "none", socket |-> None]
Opened == [isopened |-> TRUE, type |-> "none", socket |-> None]

Fixed ==
  /\ ListenFd \in DOMAIN handles /\ handles[ListenFd] = OpenFile(Listener)
  /\ P2PFd \in DOMAIN handles /\ handles[P2PFd] = OpenFile(P2P)
  /\ DOMAIN given \cap {ListenFd, P2PFd} = {}

Own(t) ==
  /\ fd[t] \in DOMAIN handles /\ fd[t] \notin DOMAIN given \cup {ListenFd, P2PFd}
  /\ pc[t] = "open" => handles[fd[t]] = Empty
  /\ pc[t] = "type" => handles[fd[t]] = Opened
  /\ pc[t] = "socket" => handles[fd[t]] = OpenFile(None)
  /\ pc[t] = "done" => \E c \in Conns : handles[fd[t]] = OpenFile(c)

Handles ==
  /\ Fixed
  /\ GivenComplete
  /\ \A t \in Threads : newsock[t] # None <=> pc[t] \in Accepted
  /\ \A t \in Threads : pc[t] \in Building => Own(t)
  /\ \A t, u \in Threads :
       pc[t] \in Building /\ pc[u] \in Building /\ fd[t] = fd[u] => t = u

USE DEF call

-----------------------------------------------------------------------------
(* The environment's part: names that are different stay different.        *)
LEMMA Distinct ==
  /\ None \notin Conns /\ Listener \notin Conns /\ P2P \notin Conns
  /\ Listener # P2P /\ Listener # None /\ P2P # None
  /\ ListenFd # P2PFd /\ ListenFd \in Fds /\ P2PFd \in Fds
  /\ NativeErrors \subseteq Errnos
BY SysNetAssumption

(* What a step of t at its place "from" to "to" does to the places. *)
LEMMA Moves ==
  ASSUME TypeOK, NEW t \in Threads, NEW from, NEW to, Goto(t, from, to)
  PROVE  /\ pc[t] = from /\ pc'[t] = to
         /\ \A u \in Threads : u # t => pc'[u] = pc[u]
BY DEF TypeOK, Goto

LEMMA Converted ==
  \A e \in NativeErrors : ConvertReturnErrorCode(e) \in OrbisErrors
BY Distinct DEF ConvertReturnErrorCode, Errnos, OrbisErrors

(* Files are the same if their fields are. *)
LEMMA SameFile ==
  ASSUME NEW f \in File, NEW g \in File,
         f.isopened = g.isopened, f.type = g.type, f.socket = g.socket
  PROVE  f = g
BY DEF File

LEMMA Fields ==
  ASSUME NEW r \in File, NEW c \in Sockets
  PROVE  /\ r = Empty => [r EXCEPT !.isopened = TRUE] = Opened
         /\ r = Opened => [r EXCEPT !.type = "Socket"] = OpenFile(None)
         /\ r = OpenFile(None) => [r EXCEPT !.socket = c] = OpenFile(c)
<1>0. Opened \in File /\ OpenFile(None) \in File /\ OpenFile(c) \in File
  BY DEF File, Opened, OpenFile
<1>1. ASSUME r = Empty PROVE [r EXCEPT !.isopened = TRUE] = Opened
  <2> DEFINE q == [r EXCEPT !.isopened = TRUE]
  <2>1. q \in File /\ q.isopened = TRUE /\ q.type = r.type /\ q.socket = r.socket
    BY DEF File
  <2>2. /\ r.type = "none" /\ r.socket = None
        /\ Opened.isopened = TRUE /\ Opened.type = "none" /\ Opened.socket = None
    BY <1>1 DEF Empty, Opened
  <2> HIDE DEF q
  <2>3. q = Opened
    BY <1>0, <2>1, <2>2, SameFile
  <2> QED
    BY <2>3 DEF q
<1>2. ASSUME r = Opened PROVE [r EXCEPT !.type = "Socket"] = OpenFile(None)
  <2> DEFINE q == [r EXCEPT !.type = "Socket"]
  <2>1. q \in File /\ q.isopened = r.isopened /\ q.type = "Socket" /\ q.socket = r.socket
    BY DEF File
  <2>2. /\ r.isopened = TRUE /\ r.socket = None
        /\ OpenFile(None).isopened = TRUE /\ OpenFile(None).type = "Socket"
        /\ OpenFile(None).socket = None
    BY <1>2 DEF Opened, OpenFile
  <2> HIDE DEF q
  <2>3. q = OpenFile(None)
    BY <1>0, <2>1, <2>2, SameFile
  <2> QED
    BY <2>3 DEF q
<1>3. ASSUME r = OpenFile(None) PROVE [r EXCEPT !.socket = c] = OpenFile(c)
  <2> DEFINE q == [r EXCEPT !.socket = c]
  <2>1. q \in File /\ q.isopened = r.isopened /\ q.type = r.type /\ q.socket = c
    BY DEF File
  <2>2. /\ r.isopened = TRUE /\ r.type = "Socket"
        /\ OpenFile(c).isopened = TRUE /\ OpenFile(c).type = "Socket"
        /\ OpenFile(c).socket = c
    BY <1>3 DEF OpenFile
  <2> HIDE DEF q
  <2>3. q = OpenFile(c)
    BY <1>0, <2>1, <2>2, SameFile
  <2> QED
    BY <2>3 DEF q
<1> QED
  BY <1>1, <1>2, <1>3

LEMMA WithTable ==
  ASSUME NEW table, NEW h, NEW x
  PROVE  /\ DOMAIN With(table, h, x) = DOMAIN table \cup {h}
         /\ With(table, h, x)[h] = x
         /\ \A g \in DOMAIN table : g # h => With(table, h, x)[g] = table[g]
BY DEF With

-----------------------------------------------------------------------------
LEMMA InitTyped == Init => TypeOK
<1> SUFFICES ASSUME Init PROVE TypeOK
  OBVIOUS
<1>1. \A h \in DOMAIN handles : handles[h] \in File
  <2>1. OpenFile(Listener) \in File /\ OpenFile(P2P) \in File
    BY DEF OpenFile, File, Sockets
  <2> QED
    BY <2>1 DEF Init
<1>2. DOMAIN handles \subseteq Fds /\ DOMAIN given = {} /\ interrupts \in 0 .. MaxInterrupts
  BY Distinct, SysNetAssumption DEF Init
<1> QED
  BY <1>1, <1>2, Distinct DEF Init, TypeOK

LEMMA InitAnswers == Init => Answers
BY DEF Init, Answers, AnswerOf

LEMMA InitHandles == Init => Handles
BY Distinct DEF Init, Handles, Fixed, GivenComplete, Accepted, Building

-----------------------------------------------------------------------------
(***************************************************************************)
(* Types.  That the answer of a failure is an error of the guest's, and    *)
(* that a handle is given for a connection, takes the other invariants.    *)
(***************************************************************************)
LEMMA PcTyped ==
  ASSUME TypeOK, NEW t \in Threads, NEW from, NEW to, Goto(t, from, to),
         to \in Accepted \cup Building \cup {"out", "lookup", "accept", "failed"}
  PROVE  pc' \in [Threads -> {"out", "lookup", "accept", "create", "open", "type",
                              "socket", "done", "failed"}]
BY DEF TypeOK, Goto, Accepted, Building

LEMMA InterruptTyped ==
  ASSUME TypeOK, NEW e, Interrupt(e) PROVE interrupts' \in 0 .. MaxInterrupts
<1>1. interrupts \in 0 .. MaxInterrupts /\ MaxInterrupts \in Nat
  BY SysNetAssumption DEF TypeOK
<1> QED
  BY <1>1 DEF Interrupt

LEMMA CompleteEffect ==
  ASSUME TypeOK, Handles, NEW t \in Threads, CompleteFile(t)
  PROVE  /\ pc[t] \in Accepted /\ pc[t] \in Building /\ pc'[t] \in Building
         /\ DOMAIN handles' = DOMAIN handles
         /\ \A h \in DOMAIN handles : h # fd[t] => handles'[h] = handles[h]
         /\ \A u \in Threads : u # t => pc'[u] = pc[u] /\ newsock'[u] = newsock[u]
         /\ \/ pc[t] = "open" /\ pc'[t] = "type" /\ handles'[fd[t]] = Opened
               /\ newsock' = newsock
            \/ pc[t] = "type" /\ pc'[t] = "socket" /\ handles'[fd[t]] = OpenFile(None)
               /\ newsock' = newsock
            \/ pc[t] = "socket" /\ pc'[t] = "done"
               /\ handles'[fd[t]] = OpenFile(newsock[t])
               /\ newsock[t] \in Conns /\ newsock'[t] = None
<1>1. fd[t] \in DOMAIN handles
  BY DEF CompleteFile, Goto, Handles, Own, Building
<1>2. CASE Goto(t, "open", "type")
  <2>1. pc[t] = "open" /\ handles' = [handles EXCEPT ![fd[t]].isopened = TRUE] /\ newsock' = newsock
    BY <1>2 DEF CompleteFile, Goto
  <2>f. handles[fd[t]] \in File /\ Listener \in Sockets
    BY <1>1 DEF TypeOK, Sockets
  <2>2. handles[fd[t]] = Empty
    BY <2>1 DEF Handles, Own, Building
  <2>3. handles'[fd[t]] = Opened
    <3>1. handles'[fd[t]] = [handles[fd[t]] EXCEPT !.isopened = TRUE]
      BY <1>1, <2>1
    <3> QED
      BY <2>2, <2>f, <3>1, Fields
  <2> QED
    BY <1>1, <1>2, <2>1, <2>3, Moves DEF Accepted, Building
<1>3. CASE Goto(t, "type", "socket")
  <2>1. pc[t] = "type" /\ handles' = [handles EXCEPT ![fd[t]].type = "Socket"] /\ newsock' = newsock
    BY <1>3 DEF CompleteFile, Goto
  <2>f. handles[fd[t]] \in File /\ Listener \in Sockets
    BY <1>1 DEF TypeOK, Sockets
  <2>2. handles[fd[t]] = Opened
    BY <2>1 DEF Handles, Own, Building
  <2>3. handles'[fd[t]] = OpenFile(None)
    <3>1. handles'[fd[t]] = [handles[fd[t]] EXCEPT !.type = "Socket"]
      BY <1>1, <2>1
    <3> QED
      BY <2>2, <2>f, <3>1, Fields
  <2> QED
    BY <1>1, <1>3, <2>1, <2>3, Moves DEF Accepted, Building
<1>4. CASE Goto(t, "socket", "done")
  <2>1. /\ pc[t] = "socket" /\ handles' = [handles EXCEPT ![fd[t]].socket = newsock[t]]
        /\ newsock' = [newsock EXCEPT ![t] = None]
    BY <1>4 DEF CompleteFile, Goto
  <2>2. handles[fd[t]] = OpenFile(None) /\ newsock[t] # None
    BY <2>1 DEF Handles, Own, Building, Accepted
  <2>f. handles[fd[t]] \in File /\ newsock[t] \in Sockets
    BY <1>1, <2>2 DEF TypeOK, Sockets
  <2>3. handles'[fd[t]] = OpenFile(newsock[t])
    <3>1. handles'[fd[t]] = [handles[fd[t]] EXCEPT !.socket = newsock[t]]
      BY <1>1, <2>1
    <3> QED
      BY <2>2, <2>f, <3>1, Fields
  <2>4. newsock[t] \in Conns /\ newsock'[t] = None
    BY <2>1, <2>2 DEF TypeOK
  <2>5. \A u \in Threads : u # t => newsock'[u] = newsock[u]
    BY <2>1 DEF TypeOK
  <2> QED
    BY <1>1, <1>4, <2>1, <2>3, <2>4, <2>5, Moves DEF Accepted, Building
<1> QED
  BY <1>2, <1>3, <1>4 DEF CompleteFile

LEMMA TypeStep == TypeOK /\ Answers /\ Handles /\ [Next]_vars => TypeOK'
<1> SUFFICES ASSUME TypeOK, Answers, Handles, [Next]_vars PROVE TypeOK'
  OBVIOUS
<1>1. ASSUME NEW c \in Conns, PeerConnects(c) PROVE TypeOK'
  BY <1>1 DEF PeerConnects, TypeOK
<1>2. ASSUME NEW t \in Threads, NEW h \in Fds, SocketCall(t, h), UNCHANGED arrived
      PROVE  TypeOK'
  <2>1. error' \in [Threads -> OrbisErrors \cup {"none"}]
    BY <1>2, Converted DEF SocketCall, TypeOK, OrbisErrors
  <2>2. interrupts' \in 0 .. MaxInterrupts
    BY <1>2, InterruptTyped DEF SocketCall, TypeOK
  <2> QED
    BY <1>2, <2>1, <2>2 DEF SocketCall, TypeOK
<1>3. ASSUME NEW t \in Threads, NEW h \in Fds, sceNetAccept(t, h), UNCHANGED arrived
      PROVE  TypeOK'
  <2>1. pc' \in [Threads -> {"out", "lookup", "accept", "create", "open", "type",
                              "socket", "done", "failed"}]
    BY <1>3, PcTyped DEF sceNetAccept
  <2> QED
    BY <1>3, <2>1 DEF sceNetAccept, TypeOK
<1>4. ASSUME NEW t \in Threads, Lookup(t), UNCHANGED arrived PROVE TypeOK'
  <2>1. pc' \in [Threads -> {"out", "lookup", "accept", "create", "open", "type",
                              "socket", "done", "failed"}]
    BY <1>4, PcTyped DEF Lookup
  <2>2. error' \in [Threads -> OrbisErrors \cup {"none"}]
    BY <1>4 DEF Lookup, Fails, TypeOK, OrbisErrors
  <2>3. cause' \in [Threads -> {"none", "no handle", "stub"} \cup Errnos]
    BY <1>4 DEF Lookup, Fails, TypeOK
  <2> QED
    BY <1>4, <2>1, <2>2, <2>3 DEF Lookup, TypeOK
<1>5. ASSUME NEW t \in Threads, AcceptConnection(t), UNCHANGED arrived PROVE TypeOK'
  <2>1. pc' \in [Threads -> {"out", "lookup", "accept", "create", "open", "type",
                              "socket", "done", "failed"}]
    BY <1>5, PcTyped DEF AcceptConnection, Accepted
  <2> QED
    BY <1>5, <2>1 DEF AcceptConnection, TypeOK
<1>6. ASSUME NEW t \in Threads, AcceptFails(t) \/ AcceptStub(t), UNCHANGED arrived
      PROVE  TypeOK'
  <2>1. pc' \in [Threads -> {"out", "lookup", "accept", "create", "open", "type",
                              "socket", "done", "failed"}]
    BY <1>6, PcTyped DEF AcceptFails, AcceptStub
  <2>2. error' \in [Threads -> OrbisErrors \cup {"none"}]
    <3>1. PICK e \in OrbisErrors : error' = [error EXCEPT ![t] = e]
      BY <1>6, Converted DEF AcceptFails, AcceptStub, Fails, OrbisErrors
    <3> QED
      BY <3>1 DEF TypeOK
  <2>3. cause' \in [Threads -> {"none", "no handle", "stub"} \cup Errnos]
    <3>1. PICK e \in Errnos \cup {"stub"} : cause' = [cause EXCEPT ![t] = e]
      BY <1>6, Distinct DEF AcceptFails, AcceptStub, Fails
    <3> QED
      BY <3>1 DEF TypeOK
  <2>4. interrupts' \in 0 .. MaxInterrupts
    BY <1>6, InterruptTyped DEF AcceptFails, AcceptStub, TypeOK
  <2> QED
    BY <1>6, <2>1, <2>2, <2>3, <2>4 DEF AcceptFails, AcceptStub, TypeOK
<1>7. ASSUME NEW t \in Threads, CreateHandle(t), UNCHANGED arrived PROVE TypeOK'
  <2>1. pc' \in [Threads -> {"out", "lookup", "accept", "create", "open", "type",
                              "socket", "done", "failed"}]
    BY <1>7, PcTyped DEF CreateHandle, Building
  <2>2. PICK h \in Fds \ DOMAIN handles :
          fd' = [fd EXCEPT ![t] = h] /\ handles' = With(handles, h, Empty)
    BY <1>7 DEF CreateHandle, Empty
  <2>3. Empty \in File
    BY DEF Empty, File
  <2>4. DOMAIN handles' \subseteq Fds /\ \A g \in DOMAIN handles' : handles'[g] \in File
    <3>1. /\ DOMAIN handles' = DOMAIN handles \cup {h} /\ handles'[h] = Empty
          /\ \A g \in DOMAIN handles : g # h => handles'[g] = handles[g]
      BY <2>2 DEF With
    <3>2. DOMAIN handles \subseteq Fds /\ \A g \in DOMAIN handles : handles[g] \in File
      BY DEF TypeOK
    <3> QED
      BY <2>3, <3>1, <3>2
  <2> QED
    BY <1>7, <2>1, <2>2, <2>4 DEF CreateHandle, TypeOK
<1>8. ASSUME NEW t \in Threads, CompleteFile(t), UNCHANGED arrived PROVE TypeOK'
  <2>1. pc' \in [Threads -> {"out", "lookup", "accept", "create", "open", "type",
                              "socket", "done", "failed"}]
    BY <1>8, PcTyped DEF CompleteFile, Building
  <2>2. Opened \in File /\ OpenFile(None) \in File /\ \A c \in Conns : OpenFile(c) \in File
    BY DEF Opened, OpenFile, File, Sockets
  <2>3. DOMAIN handles' \subseteq Fds /\ \A g \in DOMAIN handles' : handles'[g] \in File
    <3>1. DOMAIN handles \subseteq Fds /\ \A g \in DOMAIN handles : handles[g] \in File
      BY DEF TypeOK
    <3>2. /\ DOMAIN handles' = DOMAIN handles
          /\ \A g \in DOMAIN handles : g # fd[t] => handles'[g] = handles[g]
          /\ handles'[fd[t]] \in File
      BY <1>8, <2>2, CompleteEffect
    <3> QED
      BY <3>1, <3>2
  <2> QED
    BY <1>8, <2>1, <2>3 DEF CompleteFile, TypeOK
<1>9. ASSUME NEW t \in Threads, ReturnHandle(t), UNCHANGED arrived PROVE TypeOK'
  <2>1. pc' \in [Threads -> {"out", "lookup", "accept", "create", "open", "type",
                              "socket", "done", "failed"}]
    BY <1>9, PcTyped DEF ReturnHandle
  <2>2. given' = With(given, fd[t], handles[fd[t]].socket)
    BY <1>9 DEF ReturnHandle
  <2>3. handles[fd[t]].socket \in Conns
    <3>1. PICK c \in Conns : handles[fd[t]] = OpenFile(c)
      BY <1>9 DEF ReturnHandle, Goto, Handles, Own, Building
    <3> QED
      BY <3>1 DEF OpenFile
  <2>4. DOMAIN given' \subseteq Fds /\ \A h \in DOMAIN given' : given'[h] \in Conns \cup {None}
    <3>1. /\ DOMAIN given' = DOMAIN given \cup {fd[t]}
          /\ given'[fd[t]] = handles[fd[t]].socket
          /\ \A g \in DOMAIN given : g # fd[t] => given'[g] = given[g]
      BY <2>2 DEF With
    <3>2. /\ DOMAIN given \subseteq Fds /\ fd[t] \in Fds
          /\ \A g \in DOMAIN given : given[g] \in Conns \cup {None}
      BY DEF TypeOK
    <3> QED
      BY <2>3, <3>1, <3>2
  <2> QED
    BY <1>9, <2>1, <2>4, Distinct DEF ReturnHandle, ForgetLocals, TypeOK
<1>10. ASSUME NEW t \in Threads, HandleError(t), UNCHANGED arrived PROVE TypeOK'
  <2>1. pc' \in [Threads -> {"out", "lookup", "accept", "create", "open", "type",
                              "socket", "done", "failed"}]
    BY <1>10, PcTyped DEF HandleError
  <2>2. GuestError(error[t]) \in OrbisErrors
    <3>1. cause[t] \in {"no handle", "stub"} \cup Errnos /\ error[t] = KernelError(cause[t])
      BY <1>10 DEF HandleError, Goto, Answers, AnswerOf, TypeOK
    <3> QED
      BY <3>1 DEF KernelError, ConvertReturnErrorCode, GuestError, OrbisErrors, Errnos
  <2>3. /\ s' \in [Threads -> Fds] /\ fd' \in [Threads -> Fds]
        /\ net_errno' \in [Threads -> OrbisErrors \cup {"none"}]
    <3>1. CASE UNCHANGED <<net_errno, ret, s, fd>>
      BY <3>1 DEF TypeOK
    <3>2. CASE ForgetLocals(t) /\ net_errno' = [net_errno EXCEPT ![t] = GuestError(error[t])]
      BY <2>2, <3>2, Distinct DEF ForgetLocals, TypeOK
    <3> QED
      BY <1>10, <3>1, <3>2 DEF HandleError
  <2>4. ret' \in [Threads -> {"none", "fd"} \cup OrbisErrors]
    BY <1>10, <2>2 DEF HandleError, TypeOK
  <2> QED
    BY <1>10, <2>1, <2>3, <2>4 DEF HandleError, TypeOK
<1>11. CASE UNCHANGED vars
  BY <1>11 DEF vars, TypeOK
<1> QED
  BY <1>1, <1>2, <1>3, <1>4, <1>5, <1>6, <1>7, <1>8, <1>9, <1>10, <1>11
     DEF Next, Run, sysaccept, sysconnect, sysbind

-----------------------------------------------------------------------------
(***************************************************************************)
(* Answers: only a step of the thread itself touches what it looks at.     *)
(***************************************************************************)
LEMMA OthersAnswers ==
  ASSUME Answers, NEW t \in Threads, AnswerOf(t)',
         \A u \in Threads : u # t =>
           /\ pc'[u] = pc[u] /\ error'[u] = error[u] /\ cause'[u] = cause[u]
           /\ ret'[u] = ret[u] /\ net_errno'[u] = net_errno[u]
  PROVE  Answers'
BY DEF Answers, AnswerOf

LEMMA AnswersStep == TypeOK /\ Answers /\ [Next]_vars => Answers'
<1> SUFFICES ASSUME TypeOK, Answers, [Next]_vars PROVE Answers'
  OBVIOUS
<1>1. ASSUME NEW c \in Conns, PeerConnects(c) PROVE Answers'
  BY <1>1 DEF PeerConnects, Answers, AnswerOf
<1>2. ASSUME NEW t \in Threads, NEW h \in Fds, SocketCall(t, h) PROVE Answers'
  <2>1. /\ pc[t] = "out" /\ UNCHANGED <<pc, cause, ret, net_errno>>
        /\ \A u \in Threads : u # t => error'[u] = error[u]
    BY <1>2 DEF SocketCall, TypeOK
  <2>2. AnswerOf(t)'
    BY <2>1 DEF Answers, AnswerOf
  <2> QED
    BY <2>1, <2>2, OthersAnswers
<1>3. ASSUME NEW t \in Threads, NEW h \in Fds, sceNetAccept(t, h) PROVE Answers'
  <2>1. /\ pc'[t] = "lookup" /\ UNCHANGED <<error, net_errno>>
        /\ \A u \in Threads : u # t =>
             pc'[u] = pc[u] /\ cause'[u] = cause[u] /\ ret'[u] = ret[u]
    BY <1>3 DEF sceNetAccept, Goto, TypeOK
  <2>2. AnswerOf(t)'
    BY <2>1 DEF AnswerOf
  <2> QED
    BY <2>1, <2>2, OthersAnswers
<1>4. ASSUME NEW t \in Threads, Lookup(t) \/ AcceptFails(t) \/ AcceptStub(t)
      PROVE  Answers'
  <2>1. /\ UNCHANGED <<ret, net_errno>>
        /\ \A u \in Threads : u # t =>
             pc'[u] = pc[u] /\ error'[u] = error[u] /\ cause'[u] = cause[u]
    BY <1>4 DEF Lookup, AcceptFails, AcceptStub, Fails, Goto, TypeOK
  <2>2. \/ pc'[t] = "accept"
        \/ /\ pc'[t] = "failed"
           /\ \E why \in {"no handle", "stub"} \cup NativeErrors :
                cause'[t] = why /\ error'[t] = KernelError(why)
    <3>1. CASE AcceptFails(t)
      <4>1. PICK e \in NativeErrors :
              error' = [error EXCEPT ![t] = ConvertReturnErrorCode(e)]
              /\ cause' = [cause EXCEPT ![t] = e]
        BY <3>1 DEF AcceptFails, Fails
      <4>2. cause'[t] = e /\ error'[t] = ConvertReturnErrorCode(e) /\ pc'[t] = "failed"
        BY <3>1, <4>1 DEF AcceptFails, Goto, TypeOK
      <4>3. KernelError(e) = ConvertReturnErrorCode(e)
        BY Distinct DEF KernelError, Errnos
      <4> QED
        BY <4>2, <4>3
    <3>2. CASE AcceptStub(t)
      BY <3>2 DEF AcceptStub, Fails, Goto, TypeOK, KernelError
    <3>3. CASE Lookup(t)
      BY <3>3 DEF Lookup, Fails, Goto, TypeOK, KernelError
    <3> QED
      BY <1>4, <3>1, <3>2, <3>3
  <2>3. AnswerOf(t)'
    BY <2>2, Distinct DEF AnswerOf, Errnos
  <2> QED
    BY <2>1, <2>3, OthersAnswers
<1>5. ASSUME NEW t \in Threads, AcceptConnection(t) \/ CreateHandle(t) \/ CompleteFile(t)
      PROVE  Answers'
  <2>1. UNCHANGED <<error, cause, ret, net_errno>>
    BY <1>5 DEF AcceptConnection, CreateHandle, CompleteFile
  <2>2. /\ pc'[t] \in Accepted \cup Building
        /\ \A u \in Threads : u # t => pc'[u] = pc[u]
    BY <1>5 DEF AcceptConnection, CreateHandle, CompleteFile, Goto, TypeOK, Accepted, Building
  <2>3. AnswerOf(t)'
    BY <2>2 DEF AnswerOf, Accepted, Building
  <2> QED
    BY <2>1, <2>2, <2>3, OthersAnswers
<1>6. ASSUME NEW t \in Threads, ReturnHandle(t) PROVE Answers'
  <2>1. /\ pc'[t] = "out" /\ ret'[t] = "fd" /\ UNCHANGED <<error, cause, net_errno>>
        /\ \A u \in Threads : u # t => pc'[u] = pc[u] /\ ret'[u] = ret[u]
    BY <1>6 DEF ReturnHandle, Goto, TypeOK
  <2>2. AnswerOf(t)'
    BY <2>1 DEF AnswerOf
  <2> QED
    BY <2>1, <2>2, OthersAnswers
<1>7. ASSUME NEW t \in Threads, HandleError(t) PROVE Answers'
  <2>1. /\ pc[t] = "failed" /\ UNCHANGED <<error, cause>>
        /\ \A u \in Threads : u # t =>
             pc'[u] = pc[u] /\ ret'[u] = ret[u] /\ net_errno'[u] = net_errno[u]
    BY <1>7 DEF HandleError, Goto, TypeOK
  <2>2. \/ pc'[t] = "lookup"
        \/ /\ pc'[t] = "out" /\ error[t] # "EINTR"
           /\ ret'[t] = GuestError(error[t]) /\ net_errno'[t] = GuestError(error[t])
    BY <1>7 DEF HandleError, Goto, TypeOK
  <2>3. /\ cause[t] \in {"no handle", "stub"} \cup Errnos
        /\ error[t] = KernelError(cause[t])
    BY <2>1 DEF Answers, AnswerOf, TypeOK
  <2>4. error[t] # "EINTR" => GuestError(error[t]) = ErrorFor(cause[t])
    BY <2>3 DEF KernelError, ConvertReturnErrorCode, GuestError, ErrorFor, Errnos
  <2>5. AnswerOf(t)'
    BY <2>1, <2>2, <2>4 DEF AnswerOf
  <2> QED
    BY <2>1, <2>5, OthersAnswers
<1>8. CASE UNCHANGED vars
  BY <1>8 DEF vars, Answers, AnswerOf
<1> QED
  BY <1>1, <1>2, <1>3, <1>4, <1>5, <1>6, <1>7, <1>8
     DEF Next, Run, sysaccept, sysconnect, sysbind

-----------------------------------------------------------------------------
(***************************************************************************)
(* Handles: the steps that leave the table and what was given alone keep   *)
(* it if they move no thread into or out of the statements it is about.    *)
(***************************************************************************)
LEMMA HandlesKept ==
  ASSUME Handles, UNCHANGED <<handles, given, newsock, fd>>,
         \A t \in Threads : pc'[t] # pc[t] => pc[t] \notin Accepted \cup Building
                                              /\ pc'[t] \notin Accepted \cup Building
  PROVE  Handles'
<1>1. Fixed' /\ GivenComplete'
  BY DEF Handles, Fixed, GivenComplete
<1>2. \A t \in Threads : (newsock'[t] # None) <=> (pc'[t] \in Accepted)
  BY DEF Handles
<1>3. \A t \in Threads : pc'[t] \in Building => pc'[t] = pc[t]
  OBVIOUS
<1>4. \A t \in Threads : pc'[t] \in Building => Own(t)'
  BY <1>3 DEF Handles, Own
<1>5. \A t, u \in Threads :
        pc'[t] \in Building /\ pc'[u] \in Building /\ fd'[t] = fd'[u] => t = u
  BY <1>3 DEF Handles
<1> QED
  BY <1>1, <1>2, <1>4, <1>5 DEF Handles

LEMMA HandlesStep == TypeOK /\ Handles /\ [Next]_vars => Handles'
<1> SUFFICES ASSUME TypeOK, Handles, [Next]_vars PROVE Handles'
  OBVIOUS
<1>1. ASSUME NEW c \in Conns, PeerConnects(c) PROVE Handles'
  BY <1>1, HandlesKept DEF PeerConnects
<1>2. ASSUME NEW t \in Threads, NEW h \in Fds, SocketCall(t, h) PROVE Handles'
  BY <1>2, HandlesKept DEF SocketCall
<1>3. ASSUME NEW t \in Threads, NEW h \in Fds, sceNetAccept(t, h) PROVE Handles'
  BY <1>3, HandlesKept DEF sceNetAccept, Goto, TypeOK, Accepted, Building
<1>4. ASSUME NEW t \in Threads, Lookup(t) \/ AcceptFails(t) \/ AcceptStub(t)
      PROVE  Handles'
  BY <1>4, HandlesKept
     DEF Lookup, AcceptFails, AcceptStub, Goto, TypeOK, Accepted, Building
<1>5. ASSUME NEW t \in Threads, AcceptConnection(t) PROVE Handles'
  <2>1. PICK c \in backlog : newsock' = [newsock EXCEPT ![t] = c]
    BY <1>5 DEF AcceptConnection
  <2>2. c # None
    BY Distinct DEF TypeOK
  <2>3. /\ UNCHANGED <<handles, given, fd>> /\ pc[t] = "accept" /\ pc'[t] = "create"
        /\ newsock'[t] = c
        /\ \A u \in Threads : u # t => pc'[u] = pc[u] /\ newsock'[u] = newsock[u]
    BY <1>5, <2>1 DEF AcceptConnection, Goto, TypeOK
  <2>4. \A u \in Threads : pc'[u] \in Building => pc[u] = pc'[u]
    BY <2>3 DEF Building
  <2>5. \A u \in Threads : (newsock'[u] # None) <=> (pc'[u] \in Accepted)
    BY <2>2, <2>3 DEF Handles, Accepted
  <2>6. Fixed' /\ GivenComplete'
    BY <2>3 DEF Handles, Fixed, GivenComplete
  <2>7. \A u \in Threads : pc'[u] \in Building => Own(u)'
    BY <2>3, <2>4 DEF Handles, Own
  <2> QED
    BY <2>3, <2>4, <2>5, <2>6, <2>7 DEF Handles
<1>6. ASSUME NEW t \in Threads, CreateHandle(t) PROVE Handles'
  <2>1. PICK h \in Fds \ DOMAIN handles :
          fd' = [fd EXCEPT ![t] = h] /\ handles' = With(handles, h, Empty)
    BY <1>6 DEF CreateHandle, Empty
  <2>2. /\ UNCHANGED <<given, newsock>> /\ pc[t] = "create" /\ pc'[t] = "open" /\ fd'[t] = h
        /\ \A u \in Threads : u # t => pc'[u] = pc[u] /\ fd'[u] = fd[u]
    BY <1>6, <2>1 DEF CreateHandle, Goto, TypeOK
  <2>3. /\ DOMAIN handles' = DOMAIN handles \cup {h} /\ handles'[h] = Empty
        /\ \A g \in DOMAIN handles : g # h => handles'[g] = handles[g]
    BY <2>1 DEF With
  <2>4. Fixed' /\ GivenComplete' /\ h \notin DOMAIN given \cup {ListenFd, P2PFd}
    BY <2>1, <2>2, <2>3 DEF Handles, Fixed, GivenComplete
  <2>5. \A u \in Threads : (newsock'[u] # None) <=> (pc'[u] \in Accepted)
    BY <2>2 DEF Handles, Accepted
  <2>6. \A u \in Threads : u # t /\ pc'[u] \in Building =>
          fd'[u] \in DOMAIN handles /\ fd'[u] # h /\ Own(u)'
    BY <2>1, <2>2, <2>3 DEF Handles, Own
  <2>7. Own(t)'
    BY <2>2, <2>3, <2>4 DEF Own
  <2> QED
    BY <2>2, <2>4, <2>5, <2>6, <2>7 DEF Handles
<1>7. ASSUME NEW t \in Threads, CompleteFile(t) PROVE Handles'
  <2>1. UNCHANGED <<given, fd>>
    BY <1>7 DEF CompleteFile
  <2>2. Own(t)
    BY <1>7, CompleteEffect DEF Handles
  <2>3. /\ DOMAIN handles' = DOMAIN handles
        /\ \A h \in DOMAIN handles : h # fd[t] => handles'[h] = handles[h]
        /\ \A u \in Threads : u # t => pc'[u] = pc[u] /\ newsock'[u] = newsock[u]
        /\ pc[t] \in Building /\ pc[t] \in Accepted
    BY <1>7, CompleteEffect
  <2>4. Fixed' /\ GivenComplete'
    BY <2>1, <2>2, <2>3 DEF Handles, Fixed, GivenComplete, Own
  <2>5. \A u \in Threads : u # t /\ pc'[u] \in Building => fd[u] # fd[t] /\ Own(u)'
    BY <2>1, <2>3 DEF Handles, Own
  <2>6. (newsock'[t] # None) <=> (pc'[t] \in Accepted)
    BY <1>7, CompleteEffect DEF Handles, Accepted
  <2>7. Own(t)'
    BY <1>7, <2>1, <2>2, <2>3, CompleteEffect DEF Own
  <2> QED
    BY <2>1, <2>3, <2>4, <2>5, <2>6, <2>7 DEF Handles
<1>8. ASSUME NEW t \in Threads, ReturnHandle(t) PROVE Handles'
  <2>1. /\ UNCHANGED <<handles, newsock>> /\ pc[t] = "done" /\ pc'[t] = "out"
        /\ given' = With(given, fd[t], handles[fd[t]].socket)
        /\ \A u \in Threads : u # t => pc'[u] = pc[u] /\ fd'[u] = fd[u]
    BY <1>8 DEF ReturnHandle, ForgetLocals, Goto, TypeOK
  <2>2. Own(t) /\ \A u \in Threads : u # t /\ pc[u] \in Building => fd[u] # fd[t]
    BY <2>1 DEF Handles, Building
  <2>3. PICK c \in Conns : handles[fd[t]] = OpenFile(c)
    BY <2>1, <2>2 DEF Own
  <2>4. handles[fd[t]].socket = c
    BY <2>3 DEF OpenFile
  <2>5. /\ DOMAIN given' = DOMAIN given \cup {fd[t]} /\ given'[fd[t]] = c
        /\ \A g \in DOMAIN given : g # fd[t] => given'[g] = given[g]
    BY <2>1, <2>4 DEF With
  <2>6. Fixed' /\ GivenComplete'
    BY <2>1, <2>2, <2>3, <2>5 DEF Handles, Fixed, GivenComplete, Own
  <2>7. \A u \in Threads : (newsock'[u] # None) <=> (pc'[u] \in Accepted)
    BY <2>1 DEF Handles, Accepted
  <2>8. \A u \in Threads : pc'[u] \in Building => u # t /\ pc[u] \in Building
    BY <2>1 DEF Building
  <2>9. \A u \in Threads : pc'[u] \in Building => Own(u)'
    BY <2>1, <2>2, <2>5, <2>8 DEF Handles, Own
  <2> QED
    BY <2>1, <2>6, <2>7, <2>8, <2>9 DEF Handles
<1>9. ASSUME NEW t \in Threads, HandleError(t) PROVE Handles'
  <2>1. /\ UNCHANGED <<handles, newsock, given>>
        /\ pc[t] = "failed" /\ pc'[t] \in {"out", "lookup"}
        /\ \A u \in Threads : u # t => pc'[u] = pc[u] /\ fd'[u] = fd[u]
    BY <1>9 DEF HandleError, ForgetLocals, Goto, TypeOK
  <2>2. \A u \in Threads : pc'[u] \in Building => u # t /\ pc[u] \in Building
    BY <2>1 DEF Building
  <2>3. \A u \in Threads : pc'[u] \in Building => Own(u)'
    BY <2>1, <2>2 DEF Handles, Own
  <2>4. \A u \in Threads : (newsock'[u] # None) <=> (pc'[u] \in Accepted)
    BY <2>1 DEF Handles, Accepted
  <2>5. Fixed' /\ GivenComplete'
    BY <2>1 DEF Handles, Fixed, GivenComplete
  <2> QED
    BY <2>1, <2>2, <2>3, <2>4, <2>5 DEF Handles
<1>10. CASE UNCHANGED vars
  BY <1>10, HandlesKept DEF vars
<1> QED
  BY <1>1, <1>2, <1>3, <1>4, <1>5, <1>6, <1>7, <1>8, <1>9, <1>10
     DEF Next, Run, sysaccept, sysconnect, sysbind

-----------------------------------------------------------------------------
(***************************************************************************)
(* Places: what is in hand and what is in the table are followed as sets   *)
(* of connections, one change at a time.                                   *)
(***************************************************************************)
ConnsInHand == {newsock[t] : t \in InHand}
ConnsInTable == {handles[h].socket : h \in InTable}

Places ==
  /\ arrived = backlog \cup ConnsInHand \cup ConnsInTable
  /\ backlog \cap ConnsInHand = {} /\ backlog \cap ConnsInTable = {}
  /\ ConnsInHand \cap ConnsInTable = {}
  /\ \A t, u \in InHand : newsock[t] = newsock[u] => t = u
  /\ \A g, h \in InTable : handles[g].socket = handles[h].socket => g = h

Counted ==
  Cardinality(arrived) =
    Cardinality(backlog) + Cardinality(InHand) + Cardinality(InTable)

LEMMA Finite ==
  ASSUME TypeOK
  PROVE  /\ IsFiniteSet(arrived) /\ IsFiniteSet(backlog)
         /\ IsFiniteSet(InHand) /\ IsFiniteSet(InTable)
         /\ Cardinality(arrived) \in Nat /\ Cardinality(backlog) \in Nat
         /\ Cardinality(InHand) \in Nat /\ Cardinality(InTable) \in Nat
<1>1. /\ arrived \subseteq Conns /\ backlog \subseteq Conns
      /\ InHand \subseteq Threads /\ InTable \subseteq Fds
  BY DEF TypeOK, InHand, InTable
<1>2. IsFiniteSet(Conns) /\ IsFiniteSet(Threads) /\ IsFiniteSet(Fds)
  BY SysNetAssumption
<1>3. /\ IsFiniteSet(arrived) /\ IsFiniteSet(backlog)
      /\ IsFiniteSet(InHand) /\ IsFiniteSet(InTable)
  BY <1>1, <1>2, FS_Subset
<1> QED
  BY <1>3, FS_CardinalityType

LEMMA InitPlaces == Init => Places /\ Counted
<1> SUFFICES ASSUME Init PROVE Places /\ Counted
  OBVIOUS
<1>1. \A h \in DOMAIN handles : handles[h].socket \in {Listener, P2P}
  BY DEF Init, OpenFile
<1>2. InHand = {} /\ InTable = {} /\ arrived = {} /\ backlog = {}
  BY <1>1, Distinct DEF Init, InHand, InTable
<1>3. ConnsInHand = {} /\ ConnsInTable = {}
  BY <1>2 DEF ConnsInHand, ConnsInTable
<1>4. Cardinality({}) = 0
  BY FS_EmptySet
<1> QED
  BY <1>2, <1>3, <1>4 DEF Places, Counted

(* The table gains no connection if no file's socket changes to one. *)
LEMMA SameTable ==
  ASSUME DOMAIN handles \subseteq DOMAIN handles',
         \A h \in DOMAIN handles' :
           IF h \in DOMAIN handles THEN handles'[h].socket = handles[h].socket
                                   ELSE handles'[h].socket = None
  PROVE  /\ InTable' = InTable /\ ConnsInTable' = ConnsInTable
         /\ \A h \in InTable : handles'[h].socket = handles[h].socket
<1>1. InTable' = InTable
  BY Distinct DEF InTable
<1>2. \A h \in InTable : handles'[h].socket = handles[h].socket
  BY DEF InTable
<1> QED
  BY <1>1, <1>2 DEF ConnsInTable

LEMMA PlacesKept ==
  ASSUME Places, Counted, UNCHANGED <<backlog, newsock, arrived>>,
         InTable' = InTable, ConnsInTable' = ConnsInTable,
         \A h \in InTable : handles'[h].socket = handles[h].socket
  PROVE  Places' /\ Counted'
<1>1. InHand' = InHand /\ ConnsInHand' = ConnsInHand
  BY DEF InHand, ConnsInHand
<1> QED
  BY <1>1 DEF Places, Counted

LEMMA PlacesSame ==
  ASSUME Places, Counted, UNCHANGED <<handles, backlog, newsock, arrived>>
  PROVE  Places' /\ Counted'
<1>1. /\ InTable' = InTable /\ ConnsInTable' = ConnsInTable
      /\ \A h \in InTable : handles'[h].socket = handles[h].socket
  BY DEF InTable, ConnsInTable
<1> QED
  BY <1>1, PlacesKept

LEMMA PlacesStep == TypeOK /\ Handles /\ Places /\ Counted /\ [Next]_vars => Places' /\ Counted'
<1> SUFFICES ASSUME TypeOK, Handles, Places, Counted, [Next]_vars PROVE Places' /\ Counted'
  OBVIOUS
<1>1. ASSUME NEW c \in Conns, PeerConnects(c) PROVE Places' /\ Counted'
  <2>1. /\ c \notin arrived /\ arrived' = arrived \cup {c} /\ backlog' = backlog \cup {c}
        /\ UNCHANGED <<handles, newsock>>
    BY <1>1 DEF PeerConnects
  <2>2. /\ InHand' = InHand /\ InTable' = InTable
        /\ ConnsInHand' = ConnsInHand /\ ConnsInTable' = ConnsInTable
    BY <2>1 DEF InHand, InTable, ConnsInHand, ConnsInTable
  <2>3. Places'
    BY <2>1, <2>2 DEF Places
  <2>4. /\ Cardinality(arrived') = Cardinality(arrived) + 1
        /\ Cardinality(backlog') = Cardinality(backlog) + 1
    <3>1. c \notin backlog
      BY <2>1 DEF Places
    <3> QED
      BY <2>1, <3>1, Finite, FS_AddElement
  <2> QED
    BY <2>2, <2>3, <2>4, Finite DEF Counted
<1>2. ASSUME NEW t \in Threads, AcceptConnection(t), UNCHANGED arrived
      PROVE  Places' /\ Counted'
  <2>1. PICK c \in backlog : newsock' = [newsock EXCEPT ![t] = c] /\ backlog' = backlog \ {c}
    BY <1>2 DEF AcceptConnection
  <2>2. newsock[t] = None /\ c # None /\ UNCHANGED <<handles, arrived>>
    BY <1>2, Distinct DEF AcceptConnection, Goto, Handles, Accepted, TypeOK
  <2>3. newsock'[t] = c /\ \A u \in Threads : u # t => newsock'[u] = newsock[u]
    BY <2>1 DEF TypeOK
  <2>4. t \notin InHand /\ InHand' = InHand \cup {t}
    BY <2>2, <2>3 DEF InHand
  <2>5. ConnsInHand' = ConnsInHand \cup {c}
    BY <2>3, <2>4 DEF ConnsInHand, InHand
  <2>6. InTable' = InTable /\ ConnsInTable' = ConnsInTable
    BY <2>2 DEF InTable, ConnsInTable
  <2>7. \A u \in InHand : newsock[u] # c
    BY DEF Places, ConnsInHand
  <2>8. Places'
    <3>1. \A u, v \in InHand' : newsock'[u] = newsock'[v] => u = v
      BY <2>3, <2>4, <2>7 DEF Places, InHand
    <3>2. \A g, h \in InTable' : handles'[g].socket = handles'[h].socket => g = h
      BY <2>2, <2>6 DEF Places
    <3> QED
      BY <2>1, <2>2, <2>5, <2>6, <3>1, <3>2 DEF Places
  <2>9. /\ Cardinality(backlog') = Cardinality(backlog) - 1
        /\ Cardinality(InHand') = Cardinality(InHand) + 1
    BY <2>1, <2>4, Finite, FS_AddElement, FS_RemoveElement
  <2> QED
    BY <2>2, <2>6, <2>8, <2>9, Finite DEF Counted
<1>3. ASSUME NEW t \in Threads, CreateHandle(t), UNCHANGED arrived PROVE Places' /\ Counted'
  <2>1. PICK h \in Fds \ DOMAIN handles : handles' = With(handles, h, Empty)
    BY <1>3 DEF CreateHandle, Empty
  <2>2. /\ DOMAIN handles' = DOMAIN handles \cup {h} /\ handles'[h] = Empty
        /\ \A g \in DOMAIN handles : g # h => handles'[g] = handles[g]
    BY <2>1 DEF With
  <2>3. Empty.socket = None
    BY DEF Empty
  <2>4. /\ InTable' = InTable /\ ConnsInTable' = ConnsInTable
        /\ \A g \in InTable : handles'[g].socket = handles[g].socket
    BY <2>1, <2>2, <2>3, SameTable
  <2> QED
    BY <1>3, <2>4, PlacesKept DEF CreateHandle
<1>4. ASSUME NEW t \in Threads, CompleteFile(t), UNCHANGED arrived PROVE Places' /\ Counted'
  <2>1. UNCHANGED <<backlog, arrived>> /\ fd[t] \in DOMAIN handles
    BY <1>4, CompleteEffect DEF CompleteFile, Handles, Own
  <2>2. /\ DOMAIN handles' = DOMAIN handles
        /\ \A h \in DOMAIN handles : h # fd[t] => handles'[h] = handles[h]
    BY <1>4, CompleteEffect
  <2>3. handles[fd[t]].socket = None
    <3>1. handles[fd[t]] \in {Empty, Opened, OpenFile(None)}
      BY <1>4, CompleteEffect DEF Handles, Own, Building, Accepted
    <3> QED
      BY <3>1 DEF Empty, Opened, OpenFile
  <2>4. CASE newsock' = newsock /\ handles'[fd[t]] \in {Opened, OpenFile(None)}
    <3>1. handles'[fd[t]].socket = None
      BY <2>4 DEF Opened, OpenFile
    <3>2. /\ InTable' = InTable /\ ConnsInTable' = ConnsInTable
          /\ \A g \in InTable : handles'[g].socket = handles[g].socket
      BY <2>2, <2>3, <3>1, SameTable
    <3> QED
      BY <2>1, <2>4, <3>2, PlacesKept
  <2>5. CASE /\ handles'[fd[t]] = OpenFile(newsock[t])
             /\ newsock[t] \in Conns /\ newsock'[t] = None
    <3> DEFINE c == newsock[t]
    <3>1. handles'[fd[t]].socket = c
      BY <2>5 DEF OpenFile
    <3>2. \A u \in Threads : u # t => newsock'[u] = newsock[u]
      BY <1>4, CompleteEffect
    <3>3. fd[t] \notin InTable /\ InTable' = InTable \cup {fd[t]}
      BY <2>1, <2>2, <2>3, <2>5, <3>1, Distinct DEF InTable
    <3>4. \A h \in InTable : handles'[h].socket = handles[h].socket
      BY <2>2, <3>3 DEF InTable
    <3>5. ConnsInTable' = ConnsInTable \cup {c}
      BY <3>1, <3>3, <3>4 DEF ConnsInTable
    <3>6. t \in InHand /\ InHand' = InHand \ {t}
      BY <2>5, <3>2, Distinct DEF InHand
    <3>7. ConnsInHand' = ConnsInHand \ {c}
      <4>1. \A u \in InHand : u # t => newsock[u] # c
        BY <3>6 DEF Places
      <4>2. \A u \in InHand' : newsock'[u] = newsock[u] /\ u \in InHand
        BY <3>2, <3>6 DEF InHand
      <4> QED
        BY <3>6, <4>1, <4>2 DEF ConnsInHand
    <3>8. c \in ConnsInHand
      BY <3>6 DEF ConnsInHand
    <3>9. Places'
      <4>1. \A u, v \in InHand' : newsock'[u] = newsock'[v] => u = v
        BY <3>2, <3>6 DEF Places, InHand
      <4>2. \A h \in InTable : handles[h].socket # c
        BY <3>8 DEF Places, ConnsInTable
      <4>3. \A g, h \in InTable' : handles'[g].socket = handles'[h].socket => g = h
        BY <3>1, <3>3, <3>4, <4>2 DEF Places
      <4> HIDE DEF c
      <4> QED
        BY <2>1, <3>5, <3>7, <3>8, <4>1, <4>3 DEF Places
    <3>10. /\ Cardinality(InHand') = Cardinality(InHand) - 1
           /\ Cardinality(InTable') = Cardinality(InTable) + 1
      BY <3>3, <3>6, Finite, FS_AddElement, FS_RemoveElement
    <3> QED
      BY <2>1, <3>9, <3>10, Finite DEF Counted
  <2> QED
    BY <1>4, <2>4, <2>5, CompleteEffect
<1>5. ASSUME NEW t \in Threads,
             (\E h \in Fds : SocketCall(t, h) \/ sceNetAccept(t, h))
               \/ Lookup(t) \/ AcceptFails(t) \/ AcceptStub(t) \/ ReturnHandle(t)
               \/ HandleError(t),
             UNCHANGED arrived
      PROVE  Places' /\ Counted'
  <2>1. UNCHANGED <<handles, backlog, newsock>>
    BY <1>5 DEF SocketCall, sceNetAccept, Lookup, AcceptFails, AcceptStub, ReturnHandle,
                HandleError
  <2> QED
    BY <1>5, <2>1, PlacesSame
<1>6. CASE UNCHANGED vars
  BY <1>6, PlacesSame DEF vars
<1> QED
  BY <1>1, <1>2, <1>3, <1>4, <1>5, <1>6 DEF Next, Run, sysaccept, sysconnect, sysbind

-----------------------------------------------------------------------------
IInv == TypeOK /\ Answers /\ Handles /\ Places /\ Counted

LEMMA Invariant == Spec => []IInv
<1>1. Init => IInv
  BY InitTyped, InitAnswers, InitHandles, InitPlaces DEF IInv
<1>2. IInv /\ [Next]_vars => IInv'
  BY TypeStep, AnswersStep, HandlesStep, PlacesStep DEF IInv
<1> QED
  BY <1>1, <1>2, PTL DEF Spec

(* No step leaves the types: every failure is converted to an error of the *)
(* guest's, and every handle that is given stands for a socket.            *)
THEOREM TypeCorrect == Spec => []TypeOK
BY Invariant, PTL DEF IInv

(* Whatever fails, is interrupted or retried in sceNetAccept, a connection *)
(* that arrived is in one place.                                           *)
THEOREM NoneLost == Spec => []AcceptedOnce
<1>1. IInv => AcceptedOnce
  BY DEF IInv, Places, Counted, ConnsInHand, ConnsInTable, AcceptedOnce
<1> QED
  BY Invariant, <1>1, PTL

(* A handle that sceNetAccept returned is complete, and no other accept    *)
(* touches it.                                                             *)
THEOREM HandleComplete == Spec => []GivenComplete
BY Invariant, PTL DEF IInv, Handles

(* NetErrorHandler answers with the error of the attempt it answers for.   *)
THEOREM AnswerMatches == Spec => []AnswerMatchesCause
<1>1. IInv => AnswerMatchesCause
  BY DEF IInv, Answers, AnswerOf, AnswerMatchesCause
<1> QED
  BY Invariant, <1>1, PTL

-----------------------------------------------------------------------------
(***************************************************************************)
(* The retry loop: what an attempt has left before it returns or starts    *)
(* over, and that an interrupt pays for one more attempt.                  *)
(***************************************************************************)
Attempt(t) == IF pc[t] = "failed" /\ error[t] = "EINTR" THEN 9 ELSE Ahead[pc[t]]

LEMMA Nearer ==
  ASSUME TypeOK, TypeOK', NEW t \in Threads, Attempt(t) \in 0 .. 9, Attempt(t)' \in 0 .. 9,
         \/ interrupts' = interrupts /\ Attempt(t)' < Attempt(t)
         \/ interrupts' = interrupts + 1 /\ Attempt(t) > 0
  PROVE  StepsLeft(t)' < StepsLeft(t)
<1>1. MaxInterrupts \in Nat /\ interrupts \in Nat /\ interrupts' \in Nat
  <2>1. MaxInterrupts \in Nat /\ interrupts \in 0 .. MaxInterrupts
    BY SysNetAssumption DEF TypeOK
  <2>2. interrupts' \in 0 .. MaxInterrupts
    BY DEF TypeOK
  <2> QED
    BY <2>1, <2>2
<1>2. /\ StepsLeft(t) = 9 * (MaxInterrupts - interrupts) + Attempt(t)
      /\ StepsLeft(t)' = 9 * (MaxInterrupts - interrupts') + Attempt(t)'
  BY DEF StepsLeft, Attempt
<1> QED
  BY <1>1, <1>2

(* The attempt a thread is in, by the place it is at.                      *)
LEMMA AttemptIs ==
  ASSUME NEW t
  PROVE  /\ pc[t] = "lookup" => Attempt(t) = 8
         /\ pc[t] = "accept" => Attempt(t) = 7
         /\ pc[t] = "create" => Attempt(t) = 6
         /\ pc[t] = "open" => Attempt(t) = 5
         /\ pc[t] = "type" => Attempt(t) = 4
         /\ pc[t] = "socket" => Attempt(t) = 3
         /\ pc[t] = "done" => Attempt(t) = 2
         /\ pc[t] = "failed" => Attempt(t) = IF error[t] = "EINTR" THEN 9 ELSE 1
         /\ pc[t] = "out" => Attempt(t) = 0
BY DEF Attempt, Ahead

LEMMA AttemptIsNext ==
  ASSUME NEW t
  PROVE  /\ pc'[t] = "lookup" => Attempt(t)' = 8
         /\ pc'[t] = "accept" => Attempt(t)' = 7
         /\ pc'[t] = "create" => Attempt(t)' = 6
         /\ pc'[t] = "open" => Attempt(t)' = 5
         /\ pc'[t] = "type" => Attempt(t)' = 4
         /\ pc'[t] = "socket" => Attempt(t)' = 3
         /\ pc'[t] = "done" => Attempt(t)' = 2
         /\ pc'[t] = "failed" => Attempt(t)' = IF error'[t] = "EINTR" THEN 9 ELSE 1
         /\ pc'[t] = "out" => Attempt(t)' = 0
BY DEF Attempt, Ahead

(* sceNetAccept starts over only for an interrupt of the attempt it is in: *)
(* the error location is set on every failure, so no error that an earlier *)
(* call left there is taken for one.                                       *)
THEOREM AcceptBounded == Spec => AcceptEnds
<1>1. ASSUME IInv, IInv', NEW t \in Threads, Run(t) PROVE StepsLeft(t)' < StepsLeft(t)
  <2>0. TypeOK /\ TypeOK' /\ Handles
    BY <1>1 DEF IInv
  <2>1. CASE Lookup(t)
    <3>1. /\ pc[t] = "lookup" /\ interrupts' = interrupts
          /\ \/ pc'[t] = "accept"
             \/ pc'[t] = "failed" /\ error'[t] = "EBADF"
      BY <2>0, <2>1 DEF Lookup, Goto, Fails, TypeOK
    <3> QED
      BY <2>0, <3>1, AttemptIs, AttemptIsNext, Nearer
  <2>2. CASE AcceptConnection(t) \/ AcceptStub(t)
    <3>1. /\ pc[t] = "accept" /\ interrupts' = interrupts
          /\ \/ pc'[t] = "create"
             \/ pc'[t] = "failed" /\ error'[t] = "EAGAIN"
      BY <2>0, <2>2 DEF AcceptConnection, AcceptStub, Goto, Fails, TypeOK
    <3> QED
      BY <2>0, <3>1, AttemptIs, AttemptIsNext, Nearer
  <2>3. CASE AcceptFails(t)
    <3>1. pc[t] = "accept" /\ pc'[t] = "failed"
      BY <2>0, <2>3 DEF AcceptFails, Goto, TypeOK
    <3>2. PICK e \in NativeErrors : Interrupt(e) /\ Fails(t, ConvertReturnErrorCode(e), e)
      BY <2>3 DEF AcceptFails
    <3>3. \/ interrupts' = interrupts + 1
          \/ interrupts' = interrupts /\ error'[t] # "EINTR"
      BY <2>0, <3>2 DEF Interrupt, Fails, ConvertReturnErrorCode, TypeOK
    <3> QED
      BY <2>0, <3>1, <3>3, AttemptIs, AttemptIsNext, Nearer
  <2>4. CASE CreateHandle(t) \/ ReturnHandle(t)
    <3>1. /\ interrupts' = interrupts
          /\ \/ pc[t] = "create" /\ pc'[t] = "open"
             \/ pc[t] = "done" /\ pc'[t] = "out"
      BY <2>0, <2>4 DEF CreateHandle, ReturnHandle, Goto, TypeOK
    <3> QED
      BY <2>0, <3>1, AttemptIs, AttemptIsNext, Nearer
  <2>5. CASE CompleteFile(t)
    <3>1. /\ interrupts' = interrupts
          /\ \/ pc[t] = "open" /\ pc'[t] = "type"
             \/ pc[t] = "type" /\ pc'[t] = "socket"
             \/ pc[t] = "socket" /\ pc'[t] = "done"
      BY <2>0, <2>5 DEF CompleteFile, Goto, TypeOK
    <3> QED
      BY <2>0, <3>1, AttemptIs, AttemptIsNext, Nearer
  <2>6. CASE HandleError(t)
    <3>1. /\ interrupts' = interrupts /\ pc[t] = "failed"
          /\ \/ error[t] = "EINTR" /\ pc'[t] = "lookup"
             \/ error[t] # "EINTR" /\ pc'[t] = "out"
      BY <2>0, <2>6 DEF HandleError, Goto, TypeOK
    <3> QED
      BY <2>0, <3>1, AttemptIs, AttemptIsNext, Nearer
  <2> QED
    BY <1>1, <2>1, <2>2, <2>3, <2>4, <2>5, <2>6 DEF Run, sysaccept
<1>2. IInv /\ IInv' => [\A t \in Threads : Run(t) => StepsLeft(t)' < StepsLeft(t)]_vars
  BY <1>1
<1> QED
  BY <1>2, Invariant, PTL DEF AcceptEnds

-----------------------------------------------------------------------------
(***************************************************************************)
(* The refinement: ReturnHandle gives, PeerConnects is the arrival, and    *)
(* every other step is none of AcceptService's.                            *)
(***************************************************************************)
LEMMA ServiceStep == IInv /\ [Next]_vars => [Service!Next]_<<arrived, given>>
<1> SUFFICES ASSUME IInv, [Next]_vars PROVE [Service!Next]_<<arrived, given>>
  OBVIOUS
<1>0. TypeOK /\ Handles /\ Places
  BY DEF IInv
<1>1. ASSUME NEW c \in Conns, PeerConnects(c) PROVE Service!Next
  BY <1>1 DEF PeerConnects, Service!Next, Service!Arrive
<1>2. ASSUME NEW t \in Threads, ReturnHandle(t), UNCHANGED arrived PROVE Service!Next
  <2>1. pc[t] = "done" /\ given' = With(given, fd[t], handles[fd[t]].socket)
    BY <1>2 DEF ReturnHandle, Goto
  <2>2. Own(t) /\ fd[t] \in Fds
    BY <1>0, <2>1 DEF Handles, Building, TypeOK
  <2>3. PICK c \in Conns : handles[fd[t]] = OpenFile(c)
    BY <2>1, <2>2 DEF Own
  <2>4. handles[fd[t]].socket = c /\ fd[t] \in InTable
    BY <2>2, <2>3 DEF OpenFile, Own, InTable
  <2>5. c \in arrived
    BY <1>0, <2>4 DEF Places, ConnsInTable
  <2>6. \A h \in DOMAIN given : given[h] # c
    <3>1. SUFFICES ASSUME NEW h \in DOMAIN given, given[h] = c PROVE FALSE
      OBVIOUS
    <3>2. h \in DOMAIN handles /\ handles[h] = OpenFile(c)
      BY <1>0, <3>1 DEF Handles, GivenComplete
    <3>3. h \in InTable /\ handles[h].socket = c
      BY <3>2 DEF InTable, OpenFile
    <3>4. h = fd[t]
      BY <1>0, <2>4, <3>3 DEF Places
    <3> QED
      BY <2>2, <3>4 DEF Own
  <2>7. Service!Give(fd[t], c)
    BY <1>2, <2>1, <2>2, <2>4, <2>5, <2>6 DEF Service!Give, Service!waiting, With, Own
  <2> QED
    BY <2>2, <2>7 DEF Service!Next
<1>3. ASSUME NEW t \in Threads,
             (\E h \in Fds : SocketCall(t, h) \/ sceNetAccept(t, h))
               \/ sysaccept(t) \/ HandleError(t),
             UNCHANGED arrived
      PROVE  UNCHANGED <<arrived, given>>
  BY <1>3 DEF SocketCall, sceNetAccept, sysaccept, Lookup, AcceptConnection, AcceptFails,
              AcceptStub, CreateHandle, CompleteFile, HandleError
<1>4. CASE UNCHANGED vars
  BY <1>4 DEF vars
<1> QED
  BY <1>1, <1>2, <1>3, <1>4 DEF Next, Run, sysconnect, sysbind

(* SysNet implements AcceptService: however the threads interleave, a      *)
(* connection is given to the guest once, under a handle of its own.       *)
THEOREM Implements == Spec => AcceptSpec
<1>1. Init => Service!Init
  BY DEF Init, Service!Init
<1> QED
  BY <1>1, Invariant, ServiceStep, PTL DEF Spec, AcceptSpec, Service!Spec
=============================================================================
