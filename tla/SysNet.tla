------------------------------- MODULE SysNet -------------------------------
(***************************************************************************)
(* Accepting connections: sceNetAccept with its error handler (net.cpp),   *)
(* sysaccept, sysconnect and sysbind over the table of handles             *)
(* (sys_net.cpp), and the socket classes as far as they are in the source: *)
(* the translation of native errors (posix_sockets.cpp, unix_sockets.cpp,  *)
(* one and the same) and the peer-to-peer stub (p2p_sockets.cpp).          *)
(*                                                                         *)
(* Nothing here holds a lock across two statements.  A step is what no     *)
(* other thread can see into: a lookup in the table, a native accept, the  *)
(* creation of a handle, each of the assignments that complete it.  The    *)
(* error location of the kernel library and sce_net_errno belong to a      *)
(* thread.  Handle table and native sockets are not in the source: they    *)
(* are modelled from their use.  There is no close.                        *)
(***************************************************************************)
EXTENDS FiniteSets, Naturals

CONSTANTS
  Threads,
  Fds,           \* what the guest may pass as a socket id
  ListenFd,      \* a native socket that listens
  P2PFd,         \* a peer-to-peer socket
  Conns,         \* connections that peers make
  Listener, P2P, \* the sockets behind ListenFd and P2PFd
  None,          \* no socket
  NativeErrors,  \* how native calls fail
  MaxInterrupts  \* bound of the model: native calls a signal interrupts

(***************************************************************************)
(* The native errors told apart: EWOULDBLOCK stands for those that are     *)
(* translated to their namesake, EPROTO for those without a translation.   *)
(***************************************************************************)
Errnos == {"EINTR", "EWOULDBLOCK", "ENOTSOCK", "EPROTO"}

ASSUME SysNetAssumption ==
  /\ NativeErrors \subseteq Errnos
  /\ ListenFd \in Fds /\ P2PFd \in Fds /\ ListenFd # P2PFd
  /\ IsFiniteSet(Conns) /\ IsFiniteSet(Fds) /\ IsFiniteSet(Threads)
  /\ Cardinality(Conns) + 2 <= Cardinality(Fds)
  /\ Listener # P2P /\ {Listener, P2P, None} \cap Conns = {}
  /\ None \notin {Listener, P2P}
  /\ MaxInterrupts \in Nat

Sockets == Conns \cup {Listener, P2P}

OrbisErrors ==
  {"EINTR", "EWOULDBLOCK", "EAGAIN", "ENOTSOCK", "EBADF", "EINTERNAL"}

OpenFile(sock) == [isopened |-> TRUE, type |-> "Socket", socket |-> sock]

File == [isopened : BOOLEAN, type : {"none", "Socket"}, socket : Sockets \cup {None}]

VARIABLES
  handles,     \* FDTable: fd -> File, for the handles created so far
  backlog,     \* connections waiting at the listener
  pc,          \* thread -> where it is in sceNetAccept
  s,           \* thread -> the socket id it was called with
  newsock,     \* thread -> the socket Accept returned
  fd,          \* thread -> the handle created for it
  error,       \* thread -> Libraries::Kernel::Error()
  net_errno,   \* thread -> sceNetErrnoLoc()
  ret,         \* thread -> what its last sceNetAccept returned
  interrupts   \* native calls interrupted so far

(***************************************************************************)
(* History: why the latest attempt of a thread failed, the connections     *)
(* that arrived, and the handles that accepts gave to the guest, each with *)
(* the connection it was for.                                              *)
(***************************************************************************)
VARIABLES cause, arrived, given

call == <<s, newsock, fd>>
vars == <<handles, backlog, pc, call, error, net_errno, ret, interrupts,
          cause, arrived, given>>

TypeOK ==
  /\ DOMAIN handles \subseteq Fds
  /\ \A h \in DOMAIN handles : handles[h] \in File
  /\ backlog \subseteq Conns
  /\ pc \in [Threads -> {"out", "lookup", "accept", "create", "open", "type",
                         "socket", "done", "failed"}]
  /\ s \in [Threads -> Fds] /\ fd \in [Threads -> Fds]
  /\ newsock \in [Threads -> Conns \cup {None}]
  /\ error \in [Threads -> OrbisErrors \cup {"none"}]
  /\ net_errno \in [Threads -> OrbisErrors \cup {"none"}]
  /\ ret \in [Threads -> {"none", "fd"} \cup OrbisErrors]
  /\ interrupts \in 0 .. MaxInterrupts
  /\ cause \in [Threads -> {"none", "no handle", "stub"} \cup Errnos]
  /\ arrived \subseteq Conns
  /\ DOMAIN given \subseteq Fds /\ \A h \in DOMAIN given : given[h] \in Conns \cup {None}

-----------------------------------------------------------------------------
(* Mutant of ConvertReturnErrorCode: forgets the errors without a case. *)
ConvertTableOnly(e) == e

(***************************************************************************)
(* ConvertReturnErrorCode, on a native call that failed: the errors of the *)
(* table keep their name, the others become ORBIS_NET_EINTERNAL.           *)
(***************************************************************************)
ConvertReturnErrorCode(e) == IF e = "EPROTO" THEN "EINTERNAL" ELSE e

(* Mutant of GuestError: passes an error on as it is. *)
GuestErrorRaw(e) == e

(***************************************************************************)
(* The end of NetErrorHandler: what the guest gets for a kernel error.     *)
(* Its case for ENETINTR, which becomes EINTR, is left out: no error of    *)
(* these sockets is an ENETINTR.                                           *)
(***************************************************************************)
GuestError(e) == IF e = "ENOTSOCK" THEN "EBADF" ELSE e

(* The table's GetSocket: the handle exists and is a socket. *)
GetSocket(h) == h \in DOMAIN handles /\ handles[h].type = "Socket"

(***************************************************************************)
(* A guest does not know the handle of an accept that has not returned:    *)
(* it passes one that does not exist or one that it was given.             *)
(***************************************************************************)
Known(h) == h \notin DOMAIN handles \/ h \in {ListenFd, P2PFd} \cup DOMAIN given

Goto(t, from, to) == pc[t] = from /\ pc' = [pc EXCEPT ![t] = to]

(* A table with the entry x under the handle h. *)
With(table, h, x) ==
  [g \in DOMAIN table \cup {h} |-> IF g = h THEN x ELSE table[g]]

Fails(t, e, why) ==
  /\ error' = [error EXCEPT ![t] = e]
  /\ cause' = [cause EXCEPT ![t] = why]

(* A native call that a signal interrupts uses up one of the interrupts. *)
Interrupt(e) ==
  IF e = "EINTR" THEN interrupts < MaxInterrupts /\ interrupts' = interrupts + 1
  ELSE UNCHANGED interrupts

-----------------------------------------------------------------------------
(* A peer connects to the listening socket. *)
PeerConnects(c) ==
  /\ c \notin arrived
  /\ arrived' = arrived \cup {c}
  /\ backlog' = backlog \cup {c}
  /\ UNCHANGED <<handles, pc, call, error, net_errno, ret, interrupts, cause, given>>

(* sysconnect and sysbind are one and the same but for the native call. *)
SocketCall(t, h) ==
  /\ pc[t] = "out" /\ Known(h)
  /\ \/ /\ ~GetSocket(h)
        /\ error' = [error EXCEPT ![t] = "EBADF"]
        /\ UNCHANGED interrupts
     \/ /\ GetSocket(h) /\ handles[h].socket # P2P
        /\ \E e \in NativeErrors :
             /\ Interrupt(e)
             /\ error' = [error EXCEPT ![t] = ConvertReturnErrorCode(e)]
     \/ GetSocket(h) /\ UNCHANGED <<error, interrupts>>
  /\ UNCHANGED <<handles, backlog, pc, call, net_errno, ret, cause, given>>

sysconnect(t, h) == SocketCall(t, h)
sysbind(t, h) == SocketCall(t, h)

sceNetAccept(t, h) ==
  /\ Goto(t, "out", "lookup") /\ Known(h)
  /\ s' = [s EXCEPT ![t] = h]
  /\ ret' = [ret EXCEPT ![t] = "none"]
  /\ cause' = [cause EXCEPT ![t] = "none"]
  /\ UNCHANGED <<handles, backlog, newsock, fd, error, net_errno, interrupts, given>>

(* Mutant of Lookup: an invalid id fails without an error code. *)
LookupSilently(t) ==
  /\ \/ GetSocket(s[t]) /\ Goto(t, "lookup", "accept") /\ UNCHANGED cause
     \/ /\ ~GetSocket(s[t]) /\ Goto(t, "lookup", "failed")
        /\ cause' = [cause EXCEPT ![t] = "no handle"]
  /\ UNCHANGED <<handles, backlog, call, error, net_errno, ret, interrupts, given>>

(* sysaccept, the lookup of its socket id. *)
Lookup(t) ==
  /\ \/ GetSocket(s[t]) /\ Goto(t, "lookup", "accept") /\ UNCHANGED <<error, cause>>
     \/ ~GetSocket(s[t]) /\ Goto(t, "lookup", "failed") /\ Fails(t, "EBADF", "no handle")
  /\ UNCHANGED <<handles, backlog, call, net_errno, ret, interrupts, given>>

(* Mutant of AcceptConnection: leaves the connection in the backlog. *)
AcceptPeeking(t) ==
  /\ Goto(t, "accept", "create")
  /\ handles[s[t]].socket = Listener
  /\ \E c \in backlog : newsock' = [newsock EXCEPT ![t] = c]
  /\ UNCHANGED <<handles, backlog, s, fd, error, net_errno, ret, interrupts, cause, given>>

(***************************************************************************)
(* sysaccept, the Accept of the socket.  A listener takes a waiting        *)
(* connection; a native accept may fail at any time, and one on a socket   *)
(* that does not listen does; the peer-to-peer stub always fails.          *)
(***************************************************************************)
AcceptConnection(t) ==
  /\ Goto(t, "accept", "create")
  /\ handles[s[t]].socket = Listener
  /\ \E c \in backlog : /\ newsock' = [newsock EXCEPT ![t] = c]
                        /\ backlog' = backlog \ {c}
  /\ UNCHANGED <<handles, s, fd, error, net_errno, ret, interrupts, cause, given>>

AcceptFails(t) ==
  /\ Goto(t, "accept", "failed")
  /\ handles[s[t]].socket # P2P
  /\ \E e \in NativeErrors : Interrupt(e) /\ Fails(t, ConvertReturnErrorCode(e), e)
  /\ UNCHANGED <<handles, backlog, call, net_errno, ret, given>>

AcceptStub(t) ==
  /\ Goto(t, "accept", "failed")
  /\ handles[s[t]].socket = P2P
  /\ Fails(t, "EAGAIN", "stub")
  /\ UNCHANGED <<handles, backlog, call, net_errno, ret, interrupts, given>>

(* Mutant of CreateHandle: a handle is free until its file is open. *)
CreateHandleShared(t) ==
  /\ Goto(t, "create", "open")
  /\ \E h \in {g \in Fds : g \in DOMAIN handles => ~handles[g].isopened} :
       /\ fd' = [fd EXCEPT ![t] = h]
       /\ handles' = With(handles, h, [isopened |-> FALSE, type |-> "none", socket |-> None])
  /\ UNCHANGED <<backlog, s, newsock, error, net_errno, ret, interrupts, cause, given>>

(* FDTable's CreateHandle and GetFile: an empty file under a new handle. *)
CreateHandle(t) ==
  /\ Goto(t, "create", "open")
  /\ \E h \in Fds \ DOMAIN handles :
       /\ fd' = [fd EXCEPT ![t] = h]
       /\ handles' = With(handles, h, [isopened |-> FALSE, type |-> "none", socket |-> None])
  /\ UNCHANGED <<backlog, s, newsock, error, net_errno, ret, interrupts, cause, given>>

(* Mutant of CompleteFile: the handle is returned before the socket is stored. *)
CompleteFileEarly(t) ==
  /\ \/ /\ Goto(t, "open", "type")
        /\ handles' = [handles EXCEPT ![fd[t]].isopened = TRUE]
        /\ UNCHANGED newsock
     \/ /\ Goto(t, "type", "done")
        /\ handles' = [handles EXCEPT ![fd[t]].type = "Socket"]
        /\ UNCHANGED newsock
     \/ /\ Goto(t, "socket", "done")
        /\ handles' = [handles EXCEPT ![fd[t]].socket = newsock[t]]
        /\ newsock' = [newsock EXCEPT ![t] = None]
  /\ UNCHANGED <<backlog, s, fd, error, net_errno, ret, interrupts, cause, given>>

(***************************************************************************)
(* The three assignments that complete the file, in their order.  The      *)
(* last moves the socket from the local variable into the table.           *)
(***************************************************************************)
CompleteFile(t) ==
  /\ \/ /\ Goto(t, "open", "type")
        /\ handles' = [handles EXCEPT ![fd[t]].isopened = TRUE]
        /\ UNCHANGED newsock
     \/ /\ Goto(t, "type", "socket")
        /\ handles' = [handles EXCEPT ![fd[t]].type = "Socket"]
        /\ UNCHANGED newsock
     \/ /\ Goto(t, "socket", "done")
        /\ handles' = [handles EXCEPT ![fd[t]].socket = newsock[t]]
        /\ newsock' = [newsock EXCEPT ![t] = None]
  /\ UNCHANGED <<backlog, s, fd, error, net_errno, ret, interrupts, cause, given>>

(* The parameters and locals of a call that returns are gone. *)
ForgetLocals(t) ==
  /\ s' = [s EXCEPT ![t] = ListenFd]
  /\ fd' = [fd EXCEPT ![t] = ListenFd]

(* A success goes through NetErrorHandler as it is. *)
ReturnHandle(t) ==
  /\ Goto(t, "done", "out")
  /\ ret' = [ret EXCEPT ![t] = "fd"]
  /\ given' = With(given, fd[t], handles[fd[t]].socket)
  /\ ForgetLocals(t)
  /\ UNCHANGED <<handles, backlog, newsock, error, net_errno, interrupts, cause>>

(* Mutants of HandleError: returns EINTR like any other error; retries EAGAIN too. *)
HandleErrorOnce(t) ==
  /\ Goto(t, "failed", "out")
  /\ net_errno' = [net_errno EXCEPT ![t] = GuestError(error[t])]
  /\ ret' = [ret EXCEPT ![t] = GuestError(error[t])]
  /\ ForgetLocals(t)
  /\ UNCHANGED <<handles, backlog, newsock, error, interrupts, cause, given>>

HandleErrorAgain(t) ==
  /\ \/ /\ error[t] \in {"EINTR", "EAGAIN", "EWOULDBLOCK"}
        /\ Goto(t, "failed", "lookup")
        /\ UNCHANGED <<net_errno, ret, s, fd>>
     \/ /\ error[t] \notin {"EINTR", "EAGAIN", "EWOULDBLOCK"}
        /\ Goto(t, "failed", "out")
        /\ net_errno' = [net_errno EXCEPT ![t] = GuestError(error[t])]
        /\ ret' = [ret EXCEPT ![t] = GuestError(error[t])]
        /\ ForgetLocals(t)
  /\ UNCHANGED <<handles, backlog, newsock, error, interrupts, cause, given>>

(***************************************************************************)
(* NetErrorHandler on a failure: reads the kernel error, repeats the whole *)
(* of sysaccept if it was interrupted, and answers otherwise.  No error    *)
(* of these sockets is in the range that it hands on unconverted.          *)
(***************************************************************************)
HandleError(t) ==
  /\ \/ /\ error[t] = "EINTR"
        /\ Goto(t, "failed", "lookup")
        /\ UNCHANGED <<net_errno, ret, s, fd>>
     \/ /\ error[t] # "EINTR"
        /\ Goto(t, "failed", "out")
        /\ net_errno' = [net_errno EXCEPT ![t] = GuestError(error[t])]
        /\ ret' = [ret EXCEPT ![t] = GuestError(error[t])]
        /\ ForgetLocals(t)
  /\ UNCHANGED <<handles, backlog, newsock, error, interrupts, cause, given>>

sysaccept(t) ==
  \/ Lookup(t)
  \/ AcceptConnection(t) \/ AcceptFails(t) \/ AcceptStub(t)
  \/ CreateHandle(t) \/ CompleteFile(t)

-----------------------------------------------------------------------------
Init ==
  /\ handles = [h \in {ListenFd, P2PFd} |->
                  OpenFile(IF h = ListenFd THEN Listener ELSE P2P)]
  /\ backlog = {}
  /\ pc = [t \in Threads |-> "out"]
  /\ s = [t \in Threads |-> ListenFd]
  /\ fd = [t \in Threads |-> ListenFd]
  /\ newsock = [t \in Threads |-> None]
  /\ error = [t \in Threads |-> "none"]
  /\ net_errno = [t \in Threads |-> "none"]
  /\ ret = [t \in Threads |-> "none"]
  /\ interrupts = 0
  /\ cause = [t \in Threads |-> "none"]
  /\ arrived = {}
  /\ given = [h \in {} |-> None]

Run(t) == (sysaccept(t) \/ ReturnHandle(t) \/ HandleError(t)) /\ UNCHANGED arrived

Next ==
  \/ \E c \in Conns : PeerConnects(c)
  \/ \E t \in Threads :
       \/ /\ \E h \in Fds : sysconnect(t, h) \/ sysbind(t, h) \/ sceNetAccept(t, h)
          /\ UNCHANGED arrived
       \/ Run(t)

(***************************************************************************)
(* A thread inside sceNetAccept keeps running, and gets a connection if    *)
(* one waits; an accept on a listener without one may block for ever.      *)
(***************************************************************************)
Blocking(t) == pc[t] = "accept" /\ handles[s[t]].socket = Listener

Spec ==
  /\ Init /\ [][Next]_vars
  /\ \A t \in Threads :
       /\ WF_vars(~Blocking(t) /\ Run(t))
       /\ WF_vars(AcceptConnection(t) /\ UNCHANGED arrived)

-----------------------------------------------------------------------------
InTable == {h \in DOMAIN handles : handles[h].socket \in Conns}
InHand  == {t \in Threads : newsock[t] # None}

(***************************************************************************)
(* Every connection that arrived is in one place: waiting, in the hands of *)
(* one accepting thread, or behind one handle.  No retry or failure loses  *)
(* one, and no two threads accept the same.                                *)
(***************************************************************************)
AcceptedOnce ==
  /\ arrived = backlog \cup {newsock[t] : t \in InHand}
                      \cup {handles[h].socket : h \in InTable}
  /\ Cardinality(arrived) =
       Cardinality(backlog) + Cardinality(InHand) + Cardinality(InTable)

(***************************************************************************)
(* A handle the guest was given is complete and stays that of the          *)
(* connection it was given for, whatever other threads accept meanwhile:   *)
(* the code completes a handle that is already in the table.               *)
(***************************************************************************)
GivenComplete ==
  \A h \in DOMAIN given :
    /\ h \in DOMAIN handles
    /\ handles[h] = OpenFile(given[h])
    /\ given[h] \in Conns

(* What a guest is to see of a failed attempt, by its cause. *)
ErrorFor(why) ==
  CASE why \in {"no handle", "ENOTSOCK"} -> "EBADF"
    [] why = "stub"        -> "EAGAIN"
    [] why = "EWOULDBLOCK" -> "EWOULDBLOCK"
    [] why = "EPROTO"      -> "EINTERNAL"

(***************************************************************************)
(* An accept that fails answers with the error of its own last attempt,    *)
(* never with one that an earlier call of the thread left in the error     *)
(* location and never with an interrupt, and sce_net_errno says the same.  *)
(***************************************************************************)
AnswerMatchesCause ==
  \A t \in Threads :
    pc[t] = "out" /\ ret[t] \notin {"none", "fd"} =>
      ret[t] = ErrorFor(cause[t]) /\ net_errno[t] = ret[t]

(***************************************************************************)
(* Every step inside sceNetAccept brings its return nearer, but for what   *)
(* an interrupt of an attempt costs, and it starts over after no other     *)
(* failure: the retry loop of NetErrorHandler, which reads the error that  *)
(* any earlier call may have left, has no more turns than interrupts.      *)
(***************************************************************************)
Ahead == [lookup |-> 8, accept |-> 7, create |-> 6, open |-> 5, type |-> 4,
          socket |-> 3, done |-> 2, failed |-> 1, out |-> 0]

StepsLeft(t) ==
  9 * (MaxInterrupts - interrupts) +
    IF pc[t] = "failed" /\ error[t] = "EINTR" THEN 9 ELSE Ahead[pc[t]]

AcceptEnds == [][\A t \in Threads : Run(t) => StepsLeft(t)' < StepsLeft(t)]_vars

(***************************************************************************)
(* A connection is given to the guest once, under a handle of its own, and *)
(* only after it arrived, however the threads interleave and whatever they *)
(* repeat: SysNet implements AcceptService.                                *)
(***************************************************************************)
Service == INSTANCE AcceptService

AcceptSpec == Service!Spec

(***************************************************************************)
(* No accept stays inside for ever while connections wait: neither the     *)
(* retry loop nor a handle under construction holds a thread.              *)
(***************************************************************************)
AcceptNotStuck ==
  \A t \in Threads : []<>(pc[t] = "out" \/ backlog = {})
=============================================================================
