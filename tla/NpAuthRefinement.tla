-------------------------- MODULE NpAuthRefinement --------------------------
(***************************************************************************)
(* NpAuth implements NpAuthService, for every value of the constants: the  *)
(* vector with its reused slots, the counter and the two-step creation     *)
(* look to the guest like a set of requests on which each call takes       *)
(* effect at once.  A creation takes effect where it holds the lock.       *)
(***************************************************************************)
EXTENDS NpAuthProofs

(* Nothing can be called before the library is registered. *)
Unregistered == ~registered => g_auth_requests = << >> /\ Creators = {}

USE DEF library, table, threads, Service!Live

LEMMA NextUnregistered ==
  Indexed /\ Unregistered /\ [Next]_vars => Unregistered'
<1> SUFFICES ASSUME Indexed, Unregistered, [Next]_vars, ~registered'
             PROVE  g_auth_requests' = << >> /\ Creators' = {}
  BY DEF Unregistered
<1>1. CASE UNCHANGED vars
  BY <1>1 DEF vars, Unregistered, Creators
<1>2. CASE RegisterLib
  BY <1>2 DEF RegisterLib
<1>3. ASSUME NEW t \in Threads, CreateCall(t), Next
      PROVE  g_auth_requests' = << >> /\ Creators' = {}
  <2>1. registered' = registered
    BY <1>3, CreateCallCases, BeginCreateShape, FinishCreateShape DEF Quiet
  <2>2. ~registered /\ Creators = {}
    BY <2>1 DEF Unregistered
  <2> QED
    BY <1>3, <2>2 DEF CreateCall, sceNpAuthCreateRequest,
       sceNpAuthCreateAsyncRequest, FinishCreate, CanCall, Creators
<1>4. ASSUME NEW t \in Threads, NEW id \in Ids, RequestCall(t, id)
      PROVE  g_auth_requests' = << >> /\ Creators' = {}
  <2>1. registered' = registered
    BY <1>4, RequestCallShape DEF Quiet, Rewrite, Free
  <2> QED
    BY <1>4, <2>1 DEF RequestCall, GetAuthorizationCode, GetIdToken, ServeCall,
       sceNpAuthAbortRequest, sceNpAuthWaitAsync, sceNpAuthPollAsync, Report,
       sceNpAuthDeleteRequest, CanCall
<1> QED
  BY <1>1, <1>2, <1>3, <1>4 DEF Next

-----------------------------------------------------------------------------
(***************************************************************************)
(* The mapping: a live slot s is the live request s + Offset.              *)
(***************************************************************************)
LEMMA Mapping ==
  ASSUME Indexed
  PROVE  /\ LiveSlots \subseteq Int
         /\ DOMAIN LiveRequests = {s + Offset : s \in LiveSlots}
         /\ \A s \in LiveSlots : LiveRequests[s + Offset] = g_auth_requests[s]
         /\ \A id \in Int : id \in DOMAIN LiveRequests <=> id - Offset \in LiveSlots
<1>1. LiveSlots \subseteq Int
  BY Finiteness DEF LiveSlots, Indexed, TypeOK
<1>2. Offset \in Int
  BY NpAuthAssumption
<1>3. \A s \in LiveSlots : (s + Offset) - Offset = s
  BY <1>1, <1>2
<1>4. \A id \in Int : (id - Offset) + Offset = id
  BY <1>2
<1> QED
  BY <1>1, <1>3, <1>4 DEF LiveRequests

LEMMA MapQuiet ==
  ASSUME UNCHANGED g_auth_requests
  PROVE  LiveRequests' = LiveRequests
  BY DEF LiveRequests, LiveSlots, Slots

LEMMA MapRewrite ==
  ASSUME Indexed, NEW s \in LiveSlots, NEW r, r.state # "None",
         g_auth_requests' = [g_auth_requests EXCEPT ![s] = r]
  PROVE  LiveRequests' = [LiveRequests EXCEPT ![s + Offset] = r]
<1>1. /\ s \in DOMAIN g_auth_requests
      /\ Slots' = Slots
      /\ LiveSlots' = LiveSlots
      /\ g_auth_requests'[s] = r
      /\ \A i \in LiveSlots \ {s} : g_auth_requests'[i] = g_auth_requests[i]
  BY DEF LiveSlots, Slots, Indexed, TypeOK
<1>2. LiveRequests' =
        [id \in {i + Offset : i \in LiveSlots} |-> g_auth_requests'[id - Offset]]
  BY <1>1 DEF LiveRequests
<1>3. ASSUME NEW i \in LiveSlots
      PROVE  g_auth_requests'[(i + Offset) - Offset] =
               [LiveRequests EXCEPT ![s + Offset] = r][i + Offset]
  BY <1>1, Mapping, NpAuthAssumption
<1> QED
  BY <1>2, <1>3, Mapping

LEMMA MapFree ==
  ASSUME Indexed, NEW s, Free(s), RetOK'
  PROVE  LiveRequests' =
           [i \in (DOMAIN LiveRequests) \ {s + Offset} |-> LiveRequests[i]]
<1>1. /\ s \in LiveSlots
      /\ LiveSlots' = LiveSlots \ {s}
      /\ \A i \in LiveSlots \ {s} : g_auth_requests'[i] = g_auth_requests[i]
  BY FreeIndexed DEF Free, LiveSlots, Slots, Indexed, TypeOK
<1>2. LiveSlots \subseteq Int /\ Offset \in Int
  BY Mapping, NpAuthAssumption
<1>3. {i + Offset : i \in LiveSlots'} = (DOMAIN LiveRequests) \ {s + Offset}
  BY <1>1, <1>2, Mapping
<1>4. \A i \in LiveSlots' :
        g_auth_requests'[(i + Offset) - Offset] = LiveRequests[i + Offset]
  BY <1>1, <1>2, Mapping
<1> QED
  BY <1>3, <1>4 DEF LiveRequests

LEMMA MapFresh ==
  ASSUME Indexed, NEW s, NEW async, Fresh(s, async)
  PROVE  LiveRequests' =
           [i \in (DOMAIN LiveRequests) \cup {s + Offset} |->
              IF i = s + Offset THEN g_auth_requests'[s] ELSE LiveRequests[i]]
<1>1. /\ s \in Int /\ s \notin LiveSlots
      /\ LiveSlots' = LiveSlots \cup {s}
      /\ \A i \in LiveSlots : g_auth_requests'[i] = g_auth_requests[i]
  BY NpAuthAssumption DEF Fresh, LiveSlots
<1>2. LiveSlots \subseteq Int /\ Offset \in Int
  BY Mapping, NpAuthAssumption
<1>3. {i + Offset : i \in LiveSlots'} = (DOMAIN LiveRequests) \cup {s + Offset}
  BY <1>1, <1>2, Mapping
<1>4. \A i \in LiveSlots' :
        g_auth_requests'[(i + Offset) - Offset] =
          IF i + Offset = s + Offset THEN g_auth_requests'[s]
          ELSE LiveRequests[i + Offset]
  BY <1>1, <1>2, Mapping
<1> QED
  BY <1>3, <1>4 DEF LiveRequests

-----------------------------------------------------------------------------
(***************************************************************************)
(* Each call is a step of the service.                                     *)
(***************************************************************************)
LEMMA Found_Live ==
  ASSUME Indexed, NEW id \in Ids
  PROVE  /\ Found(id) <=> id \in DOMAIN LiveRequests
         /\ Found(id) => /\ id - Offset \in LiveSlots
                         /\ ReqIndex(id) + 1 = id - Offset
                         /\ (id - Offset) + Offset = id
                         /\ LiveRequests[id] = g_auth_requests[id - Offset]
                         /\ LiveRequests[id] \in Request
<1>1. id \in Int /\ Offset \in Int
  BY NpAuthAssumption
<1>2. (id - Offset) + Offset = id
  BY <1>1
<1> QED
  BY <1>1, <1>2, Lookup, Mapping, SlotTyped DEF Indexed

LEMMA NotFoundStep ==
  ASSUME Indexed, NEW call, NEW id \in Ids, NotFound(call, id)
  PROVE  Service!NotFound(call, id) /\ UNCHANGED g_signed_in
  BY Found_Live, MapQuiet
  DEF NotFound, Refuse, Return, Service!NotFound, Service!Answer

(* A live slot that is rewritten is an update of its request. *)
LEMMA UpdateStep ==
  ASSUME Indexed, NEW id \in Ids, Found(id), NEW r, r.state # "None",
         g_auth_requests' = [g_auth_requests EXCEPT ![id - Offset] = r]
  PROVE  Service!Update(id, r)
<1>1. LiveRequests' = [LiveRequests EXCEPT ![(id - Offset) + Offset] = r]
  BY Found_Live, MapRewrite
<1>2. (id - Offset) + Offset = id
  BY Found_Live
<1> QED
  BY <1>1, <1>2 DEF Service!Update

LEMMA ServeStep ==
  ASSUME Indexed, NEW call \in TokenCalls, NEW id \in Ids, Serve(call, id)
  PROVE  Service!RequestCall(id) /\ UNCHANGED g_signed_in
<1>1. CASE NotFound(call, id)
  BY <1>1, NotFoundStep DEF Service!RequestCall
<1>2. CASE ~NotFound(call, id)
  <2> DEFINE s == id - Offset
             q == g_auth_requests[s]
  <2>1. /\ Found(id)
        /\ \/ ServeDecided(call, id, s)
           \/ ServeSignedOut(call, id, s)
           \/ ServeSignedIn(call, id, s)
        /\ UNCHANGED g_signed_in
    BY <1>2, Lookup DEF Serve
  <2>2. /\ id \in DOMAIN LiveRequests /\ LiveRequests[id] = q /\ q \in Request
    BY <2>1, Found_Live
  <2>3. ASSUME ServeDecided(call, id, s) PROVE Service!Repeat(call, id)
    <3> DEFINE code == IF q.state = "Complete" THEN "INVALID_ARGUMENT" ELSE "ABORTED"
               r == [q EXCEPT !.result = code]
    <3>1. /\ code \in {"INVALID_ARGUMENT", "ABORTED"}
          /\ q.state = IF code = "ABORTED" THEN "Aborted" ELSE "Complete"
      BY <2>3 DEF ServeDecided
    <3>2. Service!Update(id, r)
      <4>1. r.state # "None"
        BY <2>2, <2>3 DEF ServeDecided, Request
      <4>2. g_auth_requests' = [g_auth_requests EXCEPT ![s] = r]
        BY <2>3 DEF ServeDecided
      <4> HIDE DEF r
      <4> QED
        BY <2>1, <4>1, <4>2, UpdateStep
    <3>3. Service!Answer(call, id, code, "none")
      BY <2>3 DEF ServeDecided, Return, Service!Answer
    <3> HIDE DEF code
    <3> QED
      BY <2>2, <3>1, <3>2, <3>3 DEF Service!Repeat
  <2>4. ASSUME ServeSignedOut(call, id, s) PROVE Service!Complete(call, id)
    <3> DEFINE done == [q EXCEPT !.state = "Complete"]
               r == [state |-> "Complete", async |-> q.async, result |-> "SIGNED_OUT"]
    <3>1. r = [done EXCEPT !.result = "SIGNED_OUT"]
      <4>1. done = [state |-> "Complete", async |-> q.async, result |-> q.result]
        BY <2>2 DEF Request
      <4> HIDE DEF done
      <4> QED
        BY <4>1
    <3>2. Service!Update(id, [done EXCEPT !.result = "SIGNED_OUT"])
      <4>1. g_auth_requests' = [g_auth_requests EXCEPT ![s] = r]
        BY <2>4 DEF ServeSignedOut
      <4>2. r.state # "None"
        OBVIOUS
      <4> HIDE DEF r
      <4> QED
        BY <2>1, <3>1, <4>1, <4>2, UpdateStep
    <3>3. /\ ~g_signed_in /\ q.state = "Ready"
          /\ Service!Answer(call, id, IF q.async THEN "OK" ELSE "SIGNED_OUT", "none")
      BY <2>4 DEF ServeSignedOut, Return, Service!Answer
    <3> QED
      BY <2>2, <3>2, <3>3 DEF Service!Complete
  <2>5. ASSUME ServeSignedIn(call, id, s) PROVE Service!Complete(call, id)
    <3> DEFINE done == [q EXCEPT !.state = "Complete"]
    <3>1. Service!Update(id, done)
      <4>1. g_auth_requests' = [g_auth_requests EXCEPT ![s] = done]
        BY <2>5 DEF ServeSignedIn
      <4>2. done.state # "None"
        BY <2>2 DEF Request
      <4> HIDE DEF done
      <4> QED
        BY <2>1, <4>1, <4>2, UpdateStep
    <3>2. /\ g_signed_in /\ q.state = "Ready"
          /\ Service!Answer(call, id, "OK", "token")
      BY <2>5 DEF ServeSignedIn, Return, Service!Answer
    <3> QED
      BY <2>2, <3>1, <3>2 DEF Service!Complete
  <2> QED
    BY <2>1, <2>3, <2>4, <2>5 DEF Service!RequestCall
<1> QED
  BY <1>1, <1>2

LEMMA TokenCallStep ==
  ASSUME Indexed, NEW call \in TokenCalls, NEW t \in Threads,
         NEW entry \in {"plain", "A"}, NEW p \in Params, NEW id \in Ids,
         ServeCall(call, t, entry, p, id)
  PROVE  Service!RequestCall(id) /\ UNCHANGED g_signed_in
<1>1. CASE Serve(call, id)
  BY <1>1, ServeStep
<1>2. CASE ~Serve(call, id)
  <2>1. /\ UNCHANGED <<g_signed_in, g_auth_requests>>
        /\ \/ Service!Answer(call, id, "INVALID_ARGUMENT", "none")
           \/ Service!Answer(call, id, "INVALID_SIZE", "none")
           \/ ~g_signed_in /\ Service!Answer(call, id, "USER_NOT_FOUND", "none")
    BY <1>2 DEF ServeCall, Refuse, Return, ParamError, Service!Answer
  <2> QED
    BY <2>1, MapQuiet DEF Service!RequestCall, Service!RefuseToken
<1> QED
  BY <1>1, <1>2

LEMMA AbortStep ==
  ASSUME Indexed, NEW t \in Threads, NEW id \in Ids,
         sceNpAuthAbortRequest(t, id)
  PROVE  Service!RequestCall(id) /\ UNCHANGED g_signed_in
<1>1. CASE NotFound("AbortRequest", id)
  BY <1>1, NotFoundStep DEF Service!RequestCall
<1>2. CASE ~NotFound("AbortRequest", id)
  <2> DEFINE q == g_auth_requests[id - Offset]
             r == [q EXCEPT !.state = "Aborted"]
  <2>1. /\ Found(id)
        /\ g_auth_requests' =
             IF q.state = "Complete" THEN g_auth_requests
             ELSE [g_auth_requests EXCEPT ![id - Offset] = r]
        /\ Service!Answer("AbortRequest", id, "OK", "none")
        /\ UNCHANGED g_signed_in
    BY <1>2, Lookup DEF sceNpAuthAbortRequest, Return, Service!Answer
  <2>2. id \in DOMAIN LiveRequests /\ LiveRequests[id] = q /\ q \in Request
    BY <2>1, Found_Live
  <2>3. CASE q.state = "Complete"
    BY <2>1, <2>2, <2>3, MapQuiet DEF Service!RequestCall, Service!Abort
  <2>4. CASE q.state # "Complete"
    <3>1. r.state # "None"
      BY <2>2 DEF Request
    <3>2. g_auth_requests' = [g_auth_requests EXCEPT ![id - Offset] = r]
      BY <2>1, <2>4
    <3>3. LiveRequests' = [LiveRequests EXCEPT ![id] = r]
      <4> HIDE DEF r
      <4> QED
        BY <2>1, <3>1, <3>2, UpdateStep DEF Service!Update
    <3>4. LiveRequests' = [LiveRequests EXCEPT ![id].state = "Aborted"]
      BY <2>2, <3>3
    <3> QED
      BY <2>1, <2>2, <2>4, <3>4 DEF Service!RequestCall, Service!Abort
  <2> QED
    BY <2>3, <2>4
<1> QED
  BY <1>1, <1>2

LEMMA ReportStep ==
  ASSUME Indexed, NEW call \in ReportCalls, NEW t \in Threads,
         NEW p \in {"valid", "null"}, NEW id \in Ids, Report(call, t, p, id)
  PROVE  Service!RequestCall(id) /\ UNCHANGED g_signed_in
<1>1. CASE NotFound(call, id)
  BY <1>1, NotFoundStep DEF Service!RequestCall
<1>2. CASE p = "null"
  BY <1>2, MapQuiet
  DEF Report, NotFound, Refuse, Return, Service!RequestCall, Service!RefuseReport,
      Service!Answer
<1>3. CASE ~NotFound(call, id) /\ p # "null"
  <2> DEFINE q == g_auth_requests[id - Offset]
  <2>1. /\ Found(id)
        /\ IF q.async /\ q.state # "Ready"
           THEN Service!Answer(call, id, "OK", q.result)
           ELSE Service!Answer(call, id, "INVALID_ID", "none")
        /\ UNCHANGED <<g_signed_in, g_auth_requests>>
    BY <1>3, Lookup DEF Report, Return, Service!Answer
  <2>2. id \in DOMAIN LiveRequests /\ LiveRequests[id] = q
    BY <2>1, Found_Live
  <2> QED
    BY <2>1, <2>2, MapQuiet DEF Service!RequestCall, Service!Report
<1> QED
  BY <1>1, <1>2, <1>3

LEMMA DeleteStep ==
  ASSUME Indexed, NEW t \in Threads, NEW id \in Ids,
         sceNpAuthDeleteRequest(t, id)
  PROVE  Service!RequestCall(id) /\ UNCHANGED g_signed_in
<1>1. CASE NotFound("DeleteRequest", id)
  BY <1>1, NotFoundStep DEF Service!RequestCall
<1>2. CASE ~NotFound("DeleteRequest", id)
  <2>1. /\ Found(id)
        /\ Service!Answer("DeleteRequest", id, "OK", "none")
        /\ UNCHANGED g_signed_in
    BY <1>2 DEF sceNpAuthDeleteRequest, Return, Service!Answer
  <2>2. Free(id - Offset) /\ RetOK'
    <3>1. ~Quiet
      <4>1. g_active_auth_requests' = g_active_auth_requests - 1
        BY <1>2 DEF sceNpAuthDeleteRequest
      <4>2. g_active_auth_requests \in Int
        BY DEF Indexed, TypeOK
      <4> QED
        BY <4>1, <4>2 DEF Quiet
    <3> QED
      BY <3>1, DeleteShape
  <2>3. LiveRequests' = [i \in (DOMAIN LiveRequests) \ {id} |-> LiveRequests[i]]
    BY <2>1, <2>2, MapFree, Found_Live
  <2> QED
    BY <2>1, <2>3, Found_Live DEF Service!RequestCall, Service!Delete
<1> QED
  BY <1>1, <1>2

LEMMA RequestCallStep ==
  ASSUME Indexed, NEW t \in Threads, NEW id \in Ids, RequestCall(t, id)
  PROVE  Service!Next
<1>1. Service!RequestCall(id) /\ UNCHANGED g_signed_in
  BY TokenCallStep, AbortStep, ReportStep, DeleteStep
  DEF RequestCall, GetAuthorizationCode, GetIdToken, TokenCalls,
      sceNpAuthWaitAsync, sceNpAuthPollAsync, ReportCalls
<1> QED
  BY <1>1 DEF Service!Next

-----------------------------------------------------------------------------
LEMMA CreateCallStep ==
  ASSUME Indexed, NEW t \in Threads, CreateCall(t)
  PROVE  Service!Next \/ UNCHANGED Service!vars
<1>1. ASSUME NEW code \in {"REQUEST_MAX", "INVALID_ARGUMENT", "INVALID_SIZE"},
             Refuse("Create", 0, code)
      PROVE  Service!Next
  <2>1. Service!RefuseCreate
    BY <1>1, MapQuiet DEF Refuse, Return, Service!RefuseCreate, Service!Answer
  <2> QED
    BY <2>1 DEF Service!Next
<1>2. ASSUME NEW kind \in {"sync", "async"}, BeginCreate(t, kind)
      PROVE  Service!Next \/ UNCHANGED Service!vars
  BY <1>1, <1>2, MapQuiet DEF BeginCreate, Service!vars
<1>3. CASE FinishCreate(t)
  <2>0. PICK async \in BOOLEAN : \E s : Fresh(s, async)
    <3>1. (creating[t] = "async") \in BOOLEAN
      OBVIOUS
    <3> QED
      BY <1>3, <3>1, FinishCreateShape
  <2>1. PICK s : Fresh(s, async)
    BY <2>0
  <2> DEFINE id == s + Offset
             r == g_auth_requests'[s]
  <2>2. id \in (Offset + 1 .. Offset + MaxSlots) \ DOMAIN LiveRequests
    BY <2>1, Mapping, NpAuthAssumption DEF Fresh
  <2>3. r \in Request
    BY <2>1 DEF Fresh, Slots
  <2>4. r = [state |-> "Ready", async |-> async, result |-> r.result]
    BY <2>1, <2>3 DEF Fresh, Request
  <2>5. LiveRequests' =
          [i \in (DOMAIN LiveRequests) \cup {id} |->
             IF i = id
             THEN [state |-> "Ready", async |-> async, result |-> r.result]
             ELSE LiveRequests[i]]
    BY <2>1, <2>4, MapFresh
  <2>6. r.result \in ResultCodes /\ UNCHANGED g_signed_in
    BY <1>3, <2>3, FinishCreateShape DEF Request
  <2>7. Service!Answer("Create", id, "OK", "none")
    BY <2>1 DEF Fresh, Service!Answer
  <2> HIDE DEF id, r
  <2>8. Service!Create
    BY <2>2, <2>5, <2>6, <2>7 DEF Service!Create
  <2> QED
    BY <2>8 DEF Service!Next
<1>4. ASSUME NEW p \in Params, p # "valid", p # "member"
      PROVE  ParamError(p) \in {"REQUEST_MAX", "INVALID_ARGUMENT", "INVALID_SIZE"}
  BY DEF ParamError
<1> QED
  BY <1>1, <1>2, <1>3, <1>4
  DEF CreateCall, sceNpAuthCreateRequest, sceNpAuthCreateAsyncRequest

LEMMA StepRefines ==
  Indexed /\ Unregistered /\ [Next]_vars => [Service!Next]_(Service!vars)
<1> SUFFICES ASSUME Indexed, Unregistered, [Next]_vars
             PROVE  Service!Next \/ UNCHANGED Service!vars
  OBVIOUS
<1>1. CASE UNCHANGED vars
  BY <1>1, MapQuiet DEF vars, Service!vars
<1>2. CASE RegisterLib
  <2>1. DOMAIN LiveRequests = {}
    BY <1>2 DEF RegisterLib, Unregistered, LiveRequests, LiveSlots, Slots
  <2>2. Service!Register
    BY <1>2, <2>1, MapQuiet DEF RegisterLib, Service!Register
  <2> QED
    BY <2>2 DEF Service!Next
<1>3. ASSUME NEW t \in Threads, CreateCall(t)
      PROVE  Service!Next \/ UNCHANGED Service!vars
  BY <1>3, CreateCallStep
<1>4. ASSUME NEW t \in Threads, NEW id \in Ids, RequestCall(t, id)
      PROVE  Service!Next
  BY <1>4, RequestCallStep
<1> QED
  BY <1>1, <1>2, <1>3, <1>4 DEF Next

(***************************************************************************)
(* The request table implements the request service, whatever the threads, *)
(* the limit, the offset and the width of an s32: to the guest every call  *)
(* of np_auth.cpp takes effect at one moment on the request its id names.  *)
(***************************************************************************)
THEOREM Implements == Spec => ServiceSpec
<1>1. Init => Service!Init
  <2> SUFFICES ASSUME Init PROVE LiveRequests = << >>
    BY DEF Init, Service!Init
  <2>1. LiveSlots = {}
    BY DEF Init, LiveSlots, Slots
  <2> QED
    BY <2>1 DEF LiveRequests
<1>2. Init => Unregistered
  BY DEF Init, Unregistered, Creators
<1> QED
  BY <1>1, <1>2, NextUnregistered, StepRefines, SpecIndexed, PTL
  DEF Spec, ServiceSpec, Service!Spec
=============================================================================
