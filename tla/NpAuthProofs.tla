---------------------------- MODULE NpAuthProofs ----------------------------
(***************************************************************************)
(* Proofs about NpAuth, for any number of guest threads, any limit and any *)
(* bound on the slots.                                                     *)
(*                                                                         *)
(* The inductive invariant has two layers.  TypeOK /\ Counting relates the *)
(* counter, the vector and the threads between check and lock: an id can   *)
(* only be shown to stay an s32, and the counter to stay natural, because  *)
(* the counter is exact and the vector is never longer than the bound.     *)
(* History, about what happened to the request in each slot, rests on it.  *)
(***************************************************************************)
EXTENDS NpAuth, FiniteSetTheorems, TLAPS

Counting ==
  /\ ActiveCountExact
  /\ NoSlotLeak
  /\ peak <= MaxSlots
  /\ g_active_auth_requests + Cardinality(Creators) <= MaxSlots

Indexed == TypeOK /\ Counting

RetOK == ret \in [call : Calls \cup {"none"}, id : S32, code : ReturnCodes,
                  out : ResultCodes \cup {"none", "token"}]

USE DEF library, table, threads

-----------------------------------------------------------------------------
(***************************************************************************)
(* The sets that are counted are finite.                                   *)
(***************************************************************************)
LEMMA Finiteness ==
  ASSUME TypeOK
  PROVE  /\ Slots = 1 .. Len(g_auth_requests)
         /\ IsFiniteSet(Slots)
         /\ Cardinality(Slots) = Len(g_auth_requests)
         /\ IsFiniteSet(LiveSlots)
         /\ IsFiniteSet(Creators)
         /\ Cardinality(LiveSlots) \in Nat
         /\ Cardinality(Creators) \in Nat
<1>1. /\ Slots = 1 .. Len(g_auth_requests)
      /\ Len(g_auth_requests) \in Nat
  BY DEF Slots, TypeOK
<1>2. /\ IsFiniteSet(Slots)
      /\ Cardinality(Slots) = Len(g_auth_requests)
  <2>1. /\ IsFiniteSet(1 .. Len(g_auth_requests))
        /\ Cardinality(1 .. Len(g_auth_requests)) =
             IF 1 > Len(g_auth_requests) THEN 0 ELSE Len(g_auth_requests) - 1 + 1
    BY <1>1, FS_Interval
  <2> QED
    BY <1>1, <2>1
<1>3. LiveSlots \in SUBSET Slots
  BY DEF LiveSlots
<1>4. Creators \in SUBSET Threads
  BY DEF Creators
<1>5. IsFiniteSet(LiveSlots) /\ IsFiniteSet(Creators)
  BY <1>2, <1>3, <1>4, FS_Subset, NpAuthAssumption
<1>6. Cardinality(LiveSlots) \in Nat /\ Cardinality(Creators) \in Nat
  BY <1>5, FS_CardinalityType
<1> QED
  BY <1>1, <1>2, <1>5, <1>6

(***************************************************************************)
(* The lookup test of every call, wrap-around of the index included, finds *)
(* exactly the ids of the live slots.                                      *)
(***************************************************************************)
LEMMA Lookup ==
  ASSUME Indexed, NEW id \in Ids
  PROVE  /\ Found(id) <=> id - Offset \in LiveSlots
         /\ Found(id) => ReqIndex(id) + 1 = id - Offset
<1>1. /\ id \in Int /\ id >= -IntMax - 1 /\ id <= IntMax
      /\ Offset \in Nat /\ IntMax \in Nat /\ MaxSlots \in Nat
      /\ Offset + MaxSlots <= IntMax
  BY NpAuthAssumption
<1>2. /\ Slots = 1 .. Len(g_auth_requests)
      /\ Len(g_auth_requests) \in Nat
      /\ Len(g_auth_requests) <= MaxSlots
  BY Finiteness DEF Indexed, Counting, NoSlotLeak, TypeOK
<1>3. ReqIndex(id) + 1 \in Slots => ReqIndex(id) + 1 = id - Offset
  BY <1>1, <1>2 DEF ReqIndex
<1>4. id - Offset \in Slots => ReqIndex(id) + 1 = id - Offset
  BY <1>1, <1>2 DEF ReqIndex
<1>5. id - Offset \in LiveSlots => g_active_auth_requests # 0
  <2>1. ASSUME id - Offset \in LiveSlots PROVE LiveSlots # {}
    BY <2>1
  <2> QED
    BY <2>1, Finiteness, FS_EmptySet DEF Indexed, Counting, ActiveCountExact
<1> QED
  BY <1>3, <1>4, <1>5 DEF Found, LiveSlots

-----------------------------------------------------------------------------
(***************************************************************************)
(* The shapes a step of a request call can have.                           *)
(***************************************************************************)
Quiet == UNCHANGED <<library, table, threads>>

(***************************************************************************)
(* What the code relies on about a request r and what happened to it, h:   *)
(* only a Complete request was served, one that would report OK got its    *)
(* code or token, and one that failed would report its own failure.        *)
(***************************************************************************)
Agree(r, h) ==
  /\ h.served = (IF r.state = "Complete" THEN 1 ELSE 0)
  /\ r.state = "Complete" /\ r.result = "OK" => h.delivered
  /\ r.state = "Complete" /\ h.own # "OK" => r.result = h.own

Decided(r) == r.state \in {"Complete", "Aborted"}

(* The request in slot s and its history change, the slot stays live. *)
Rewrite(s) ==
  /\ s \in LiveSlots
  /\ \E r \in Request, h \in Past :
       /\ r.state # "None"
       /\ r.async = g_auth_requests[s].async
       /\ Decided(g_auth_requests[s]) => r.state = g_auth_requests[s].state
       /\ Agree(g_auth_requests[s], past[s]) => Agree(r, h)
       /\ g_auth_requests' = [g_auth_requests EXCEPT ![s] = r]
       /\ past' = [past EXCEPT ![s] = h]
  /\ UNCHANGED <<library, g_active_auth_requests, peak, threads>>

Free(s) ==
  /\ s \in LiveSlots
  /\ g_active_auth_requests' = g_active_auth_requests - 1
  /\ g_auth_requests' = [g_auth_requests EXCEPT ![s].state = "None"]
  /\ past' = [past EXCEPT ![s] = NewPast]
  /\ ret'.call = "DeleteRequest"
  /\ ret'.code = "OK"
  /\ UNCHANGED <<library, peak, threads>>

LEMMA SlotTyped ==
  ASSUME TypeOK, NEW s \in LiveSlots
  PROVE  /\ s \in DOMAIN g_auth_requests
         /\ s \in DOMAIN past
         /\ g_auth_requests[s] \in Request
         /\ past[s] \in Past
  BY DEF TypeOK, LiveSlots, Slots

LEMMA NotFoundShape ==
  ASSUME NEW call \in Calls, NEW id \in Ids, NotFound(call, id)
  PROVE  Quiet /\ RetOK'
  BY NpAuthAssumption DEF NotFound, Refuse, Return, Quiet, RetOK, S32, ReturnCodes

LEMMA ServeShape ==
  ASSUME Indexed, NEW call \in TokenCalls, NEW id \in Ids, Serve(call, id)
  PROVE  /\ Quiet \/ Rewrite(id - Offset)
         /\ RetOK'
<1>1. call \in Calls /\ id \in S32
  BY NpAuthAssumption DEF Calls, S32
<1>2. CASE NotFound(call, id)
  BY <1>1, <1>2, NotFoundShape
<1>3. CASE ~NotFound(call, id)
  <2> DEFINE s == id - Offset
  <2>1. /\ Found(id)
        /\ \/ ServeDecided(call, id, s)
           \/ ServeSignedOut(call, id, s)
           \/ ServeSignedIn(call, id, s)
        /\ UNCHANGED <<library, g_active_auth_requests, peak, threads>>
    BY <1>3, Lookup DEF Serve
  <2>2. s \in LiveSlots
    BY <2>1, Lookup
  <2>3. /\ g_auth_requests[s] \in Request /\ past[s] \in Past
        /\ s \in DOMAIN g_auth_requests /\ s \in DOMAIN past
    BY <2>2, SlotTyped DEF Indexed
  <2>4. CASE ServeDecided(call, id, s)
    <3> DEFINE code == IF g_auth_requests[s].state = "Complete"
                       THEN "INVALID_ARGUMENT" ELSE "ABORTED"
               r == [g_auth_requests[s] EXCEPT !.result = code]
               h == [past[s] EXCEPT !.own = code]
    <3>1. /\ g_auth_requests' = [g_auth_requests EXCEPT ![s] = r]
          /\ past' = [past EXCEPT ![s] = h]
      BY <2>3, <2>4 DEF ServeDecided
    <3>2. /\ r \in Request /\ h \in Past /\ r.state # "None"
          /\ r.async = g_auth_requests[s].async
          /\ Decided(g_auth_requests[s]) => r.state = g_auth_requests[s].state
      BY <2>3, <2>4 DEF ServeDecided, Request, Past, ResultCodes
    <3>4. Agree(g_auth_requests[s], past[s]) => Agree(r, h)
      BY <2>3 DEF Agree, Request, Past
    <3>3. RetOK'
      BY <1>1, <2>4 DEF ServeDecided, Return, RetOK, ReturnCodes, ResultCodes
    <3> QED
      BY <2>1, <2>2, <3>1, <3>2, <3>3, <3>4 DEF Rewrite
  <2>5. CASE ServeSignedOut(call, id, s)
    <3> DEFINE r == [state |-> "Complete", async |-> g_auth_requests[s].async,
                     result |-> "SIGNED_OUT"]
               h == [own |-> "SIGNED_OUT", served |-> past[s].served + 1,
                     delivered |-> past[s].delivered]
    <3>1. /\ g_auth_requests' = [g_auth_requests EXCEPT ![s] = r]
          /\ past' = [past EXCEPT ![s] = h]
      BY <2>3, <2>5 DEF ServeSignedOut, Request, Past
    <3>2. /\ r \in Request /\ h \in Past /\ r.state # "None"
          /\ r.async = g_auth_requests[s].async
          /\ Decided(g_auth_requests[s]) => r.state = g_auth_requests[s].state
      BY <2>3, <2>5
      DEF ServeSignedOut, Request, Past, ResultCodes, RequestStates, Decided
    <3>4. Agree(g_auth_requests[s], past[s]) => Agree(r, h)
      BY <2>3, <2>5 DEF ServeSignedOut, Agree, Past
    <3>3. RetOK'
      BY <1>1, <2>5 DEF ServeSignedOut, Return, RetOK, ReturnCodes, ResultCodes
    <3> QED
      BY <2>1, <2>2, <3>1, <3>2, <3>3, <3>4 DEF Rewrite
  <2>6. CASE ServeSignedIn(call, id, s)
    <3> DEFINE r == [g_auth_requests[s] EXCEPT !.state = "Complete"]
               h == [own |-> "OK", served |-> past[s].served + 1, delivered |-> TRUE]
    <3>1. /\ g_auth_requests' = [g_auth_requests EXCEPT ![s] = r]
          /\ past' = [past EXCEPT ![s] = h]
      BY <2>3, <2>6 DEF ServeSignedIn
    <3>2. /\ r \in Request /\ h \in Past /\ r.state # "None"
          /\ r.async = g_auth_requests[s].async
          /\ Decided(g_auth_requests[s]) => r.state = g_auth_requests[s].state
      BY <2>3, <2>6
      DEF ServeSignedIn, Request, Past, ResultCodes, RequestStates, Decided
    <3>4. Agree(g_auth_requests[s], past[s]) => Agree(r, h)
      BY <2>3, <2>6 DEF ServeSignedIn, Agree, Request, Past
    <3>3. RetOK'
      BY <1>1, <2>6 DEF ServeSignedIn, Return, RetOK, ReturnCodes, ResultCodes
    <3> QED
      BY <2>1, <2>2, <3>1, <3>2, <3>3, <3>4 DEF Rewrite
  <2> QED
    BY <2>1, <2>4, <2>5, <2>6
<1> QED
  BY <1>2, <1>3

LEMMA TokenCallShape ==
  ASSUME Indexed, NEW call \in TokenCalls, NEW t \in Threads,
         NEW entry \in {"plain", "A"}, NEW p \in Params, NEW id \in Ids,
         ServeCall(call, t, entry, p, id)
  PROVE  /\ Quiet \/ Rewrite(id - Offset)
         /\ RetOK'
<1>1. call \in Calls /\ id \in S32
  BY NpAuthAssumption DEF Calls, S32
<1>2. CASE Serve(call, id)
  BY <1>2, ServeShape
<1>3. CASE ~Serve(call, id)
  BY <1>1, <1>3 DEF ServeCall, Refuse, Return, ParamError, Quiet, RetOK, ReturnCodes,
     ResultCodes
<1> QED
  BY <1>2, <1>3

LEMMA AbortShape ==
  ASSUME Indexed, NEW t \in Threads, NEW id \in Ids,
         sceNpAuthAbortRequest(t, id)
  PROVE  /\ Quiet \/ Rewrite(id - Offset)
         /\ RetOK'
<1>1. CASE NotFound("AbortRequest", id)
  BY <1>1, NotFoundShape DEF Calls
<1>2. CASE ~NotFound("AbortRequest", id)
  <2> DEFINE s == id - Offset
             r == [g_auth_requests[s] EXCEPT !.state = "Aborted"]
  <2>1. /\ Found(id)
        /\ g_auth_requests' =
             IF g_auth_requests[s].state = "Complete" THEN g_auth_requests
             ELSE [g_auth_requests EXCEPT ![s].state = "Aborted"]
        /\ Return("AbortRequest", id, "OK", "none")
        /\ UNCHANGED <<library, g_active_auth_requests, past, peak, threads>>
    BY <1>2, Lookup DEF sceNpAuthAbortRequest
  <2>2. s \in LiveSlots
    BY <2>1, Lookup
  <2>3. /\ g_auth_requests[s] \in Request /\ past[s] \in Past
        /\ s \in DOMAIN g_auth_requests /\ s \in DOMAIN past
    BY <2>2, SlotTyped DEF Indexed
  <2>4. RetOK'
    BY <2>1, NpAuthAssumption
    DEF Return, RetOK, Calls, S32, ReturnCodes, ResultCodes
  <2>5. CASE g_auth_requests[s].state = "Complete"
    BY <2>1, <2>4, <2>5 DEF Quiet
  <2>6. CASE g_auth_requests[s].state # "Complete"
    <3>1. /\ g_auth_requests' = [g_auth_requests EXCEPT ![s] = r]
          /\ past' = [past EXCEPT ![s] = past[s]]
      BY <2>1, <2>3, <2>6 DEF Indexed, TypeOK
    <3>2. /\ r \in Request /\ r.state # "None"
          /\ r.async = g_auth_requests[s].async
          /\ Decided(g_auth_requests[s]) => r.state = g_auth_requests[s].state
      BY <2>3, <2>6 DEF Request, RequestStates, Decided
    <3>3. Agree(g_auth_requests[s], past[s]) => Agree(r, past[s])
      BY <2>3, <2>6 DEF Agree, Request
    <3> QED
      BY <2>1, <2>2, <2>3, <2>4, <3>1, <3>2, <3>3 DEF Rewrite
  <2> QED
    BY <2>5, <2>6
<1> QED
  BY <1>1, <1>2

LEMMA ReportShape ==
  ASSUME Indexed, NEW call \in ReportCalls, NEW t \in Threads,
         NEW p \in {"valid", "null"}, NEW id \in Ids, Report(call, t, p, id)
  PROVE  Quiet /\ RetOK'
<1>1. call \in Calls /\ id \in S32
  BY NpAuthAssumption DEF Calls, S32
<1>2. CASE NotFound(call, id)
  BY <1>1, <1>2, NotFoundShape
<1>3. CASE p = "null" /\ Refuse(call, id, "INVALID_ARGUMENT")
  BY <1>1, <1>3 DEF Refuse, Return, Quiet, RetOK, ReturnCodes, ResultCodes
<1>4. CASE ~NotFound(call, id) /\ p # "null"
  <2> DEFINE r == g_auth_requests[id - Offset]
  <2>1. /\ Found(id)
        /\ IF ~r.async \/ r.state = "Ready"
           THEN Return(call, id, "INVALID_ID", "none")
           ELSE Return(call, id, "OK", r.result)
        /\ Quiet
    BY <1>4, Lookup DEF Report, Quiet
  <2>2. r \in Request
    BY <2>1, Lookup, SlotTyped DEF Indexed
  <2> QED
    BY <1>1, <2>1, <2>2 DEF Return, RetOK, Request, ReturnCodes, ResultCodes
<1> QED
  BY <1>2, <1>3, <1>4 DEF Report

LEMMA DeleteShape ==
  ASSUME Indexed, NEW t \in Threads, NEW id \in Ids,
         sceNpAuthDeleteRequest(t, id)
  PROVE  /\ Quiet \/ Free(id - Offset)
         /\ RetOK'
<1>1. CASE NotFound("DeleteRequest", id)
  BY <1>1, NotFoundShape DEF Calls
<1>2. CASE ~NotFound("DeleteRequest", id)
  <2>1. Free(id - Offset)
    BY <1>2, Lookup DEF sceNpAuthDeleteRequest, Free, Return
  <2>2. RetOK'
    BY <1>2, NpAuthAssumption
    DEF sceNpAuthDeleteRequest, Return, RetOK, Calls, S32, ReturnCodes, ResultCodes
  <2> QED
    BY <2>1, <2>2
<1> QED
  BY <1>1, <1>2

LEMMA RequestCallShape ==
  ASSUME Indexed, NEW t \in Threads, NEW id \in Ids, RequestCall(t, id)
  PROVE  /\ Quiet \/ Rewrite(id - Offset) \/ Free(id - Offset)
         /\ RetOK'
<1>1. ASSUME NEW entry \in {"plain", "A"}, NEW p \in Params,
             GetAuthorizationCode(t, entry, p, id) \/ GetIdToken(t, entry, p, id)
      PROVE  /\ Quiet \/ Rewrite(id - Offset)
             /\ RetOK'
  BY <1>1, TokenCallShape DEF GetAuthorizationCode, GetIdToken, TokenCalls
<1>2. ASSUME NEW p \in {"valid", "null"},
             sceNpAuthWaitAsync(t, p, id) \/ sceNpAuthPollAsync(t, p, id)
      PROVE  Quiet /\ RetOK'
  BY <1>2, ReportShape DEF sceNpAuthWaitAsync, sceNpAuthPollAsync, ReportCalls
<1> QED
  BY <1>1, <1>2, AbortShape, DeleteShape DEF RequestCall

-----------------------------------------------------------------------------
(***************************************************************************)
(* Each shape keeps the types and the counting.                            *)
(***************************************************************************)
LEMMA QuietIndexed ==
  ASSUME Indexed, Quiet, RetOK'
  PROVE  Indexed'
  BY DEF Indexed, Quiet, RetOK, TypeOK, Counting, ActiveCountExact, NoSlotLeak,
     LiveSlots, Slots, Creators

LEMMA RewriteIndexed ==
  ASSUME Indexed, NEW s, Rewrite(s), RetOK'
  PROVE  /\ Indexed'
         /\ LiveSlots' = LiveSlots
<1>1. PICK r \in Request, h \in Past :
        /\ r.state # "None"
        /\ g_auth_requests' = [g_auth_requests EXCEPT ![s] = r]
        /\ past' = [past EXCEPT ![s] = h]
  BY DEF Rewrite
<1>2. /\ g_auth_requests' \in Seq(Request)
      /\ Len(g_auth_requests') = Len(g_auth_requests)
      /\ past' \in Seq(Past)
      /\ Len(past') = Len(past)
  BY <1>1, SlotTyped DEF Indexed, TypeOK, Rewrite
<1>3. LiveSlots' = LiveSlots
  BY <1>1 DEF Rewrite, LiveSlots, Slots, Indexed, TypeOK
<1>4. TypeOK'
  BY <1>2 DEF TypeOK, Rewrite, Indexed, RetOK
<1>5. Counting'
  BY <1>2, <1>3
  DEF Rewrite, Indexed, Counting, ActiveCountExact, NoSlotLeak, Creators
<1> QED
  BY <1>3, <1>4, <1>5 DEF Indexed

LEMMA FreeIndexed ==
  ASSUME Indexed, NEW s, Free(s), RetOK'
  PROVE  /\ Indexed'
         /\ LiveSlots' = LiveSlots \ {s}
<1>1. /\ g_auth_requests' \in Seq(Request)
      /\ Len(g_auth_requests') = Len(g_auth_requests)
      /\ past' \in Seq(Past)
      /\ Len(past') = Len(past)
  <2>1. [g_auth_requests[s] EXCEPT !.state = "None"] \in Request
    BY SlotTyped DEF Free, Indexed, Request, RequestStates
  <2>2. NewPast \in Past
    BY DEF NewPast, Past
  <2> QED
    BY <2>1, <2>2, SlotTyped DEF Free, Indexed, TypeOK
<1>2. LiveSlots' = LiveSlots \ {s}
  BY SlotTyped DEF Free, LiveSlots, Slots, Indexed, TypeOK, Request
<1>3. Cardinality(LiveSlots') = Cardinality(LiveSlots) - 1
  BY <1>2, Finiteness, FS_RemoveElement DEF Free, Indexed
<1>4. g_active_auth_requests' = Cardinality(LiveSlots')
  BY <1>3 DEF Free, Indexed, Counting, ActiveCountExact
<1>5. g_active_auth_requests' \in Nat
  <2>1. IsFiniteSet(LiveSlots')
    BY <1>2, Finiteness, FS_RemoveElement DEF Indexed
  <2> QED
    BY <2>1, <1>4, FS_CardinalityType
<1>6. TypeOK'
  BY <1>1, <1>5 DEF TypeOK, Free, Indexed, RetOK
<1>7. Counting'
  <2>1. Creators' = Creators
    BY DEF Free, Creators
  <2> QED
    BY <1>1, <1>4, <2>1, Finiteness, NpAuthAssumption
    DEF Free, Indexed, TypeOK, Counting, ActiveCountExact, NoSlotLeak
<1> QED
  BY <1>2, <1>6, <1>7 DEF Indexed

LEMMA RegisterIndexed ==
  ASSUME Indexed, RegisterLib
  PROVE  Indexed'
  BY DEF Indexed, RegisterLib, TypeOK, Counting, ActiveCountExact, NoSlotLeak,
     LiveSlots, Slots, Creators

LEMMA RefuseCreateShape ==
  ASSUME Indexed, NEW code \in ReturnCodes, Refuse("Create", 0, code)
  PROVE  Quiet /\ RetOK'
  BY NpAuthAssumption DEF Refuse, Return, Quiet, RetOK, Calls, S32

(* A thread that passes the limit check joins the creators. *)
LEMMA BeginCreateShape ==
  ASSUME Indexed, NEW t \in Threads, creating[t] = "no",
         NEW kind \in {"sync", "async"}, BeginCreate(t, kind),
         ~(Quiet /\ RetOK')
  PROVE  /\ g_active_auth_requests # Limit
         /\ g_active_auth_requests + Cardinality(Creators) < MaxSlots
         /\ creating' = [creating EXCEPT ![t] = kind]
         /\ overlapped' = (overlapped \/ Creators # {})
         /\ UNCHANGED <<library, table, ret>>
         /\ Creators' = Creators \cup {t}
         /\ Cardinality(Creators') = Cardinality(Creators) + 1
         /\ Indexed'
<1>1. ~Refuse("Create", 0, "REQUEST_MAX")
  BY RefuseCreateShape DEF ReturnCodes
<1>2. /\ g_active_auth_requests # Limit
      /\ g_active_auth_requests + Cardinality(Creators) < MaxSlots
      /\ creating' = [creating EXCEPT ![t] = kind]
      /\ overlapped' = (overlapped \/ Creators # {})
      /\ UNCHANGED <<library, table, ret>>
  BY <1>1 DEF BeginCreate
<1>3. Creators' = Creators \cup {t}
  BY <1>2 DEF Creators, Indexed, TypeOK
<1>4. Cardinality(Creators') = Cardinality(Creators) + 1
  BY <1>3, Finiteness, FS_AddElement DEF Creators, Indexed
<1>5. TypeOK'
  BY <1>2 DEF Indexed, TypeOK
<1>6. Counting'
  <2>1. LiveSlots' = LiveSlots
    BY <1>2 DEF LiveSlots, Slots
  <2> QED
    BY <1>2, <1>4, <2>1, Finiteness, NpAuthAssumption
    DEF Indexed, TypeOK, Counting, ActiveCountExact, NoSlotLeak
<1> QED
  BY <1>2, <1>3, <1>4, <1>5, <1>6 DEF Indexed

(***************************************************************************)
(* The locked part of a creation puts one Ready request into one slot that *)
(* was not live, an old one or the next one, and leaves the others alone.  *)
(***************************************************************************)
Fresh(s, async) ==
  /\ s \in 1 .. MaxSlots
  /\ s \notin LiveSlots
  /\ Slots' = Slots \cup {s}
  /\ g_auth_requests' \in Seq(Request)
  /\ g_auth_requests'[s].state = "Ready"
  /\ g_auth_requests'[s].async = async
  /\ past' \in Seq(Past)
  /\ Len(past') = Len(g_auth_requests')
  /\ past'[s] = IF s \in Slots THEN past[s] ELSE NewPast
  /\ \A i \in Slots \ {s} : /\ g_auth_requests'[i] = g_auth_requests[i]
                           /\ past'[i] = past[i]
  /\ ret' = [call |-> "Create", id |-> s + Offset, code |-> "OK", out |-> "none"]

LEMMA ReuseFresh ==
  ASSUME Indexed, NEW async \in BOOLEAN, NEW s \in Slots, Reuse(s, async)
  PROVE  /\ Fresh(s, async)
         /\ Len(g_auth_requests') = Len(g_auth_requests)
         /\ Cardinality(LiveSlots) < Len(g_auth_requests)
<1>1. /\ s \in DOMAIN g_auth_requests /\ s \in DOMAIN past
      /\ g_auth_requests[s] \in Request
      /\ g_auth_requests[s].state = "None"
  BY DEF Reuse, IsFirstFree, Indexed, TypeOK, Slots
<1>2. [state |-> "Ready", async |-> async, result |-> g_auth_requests[s].result]
        \in Request
  BY <1>1 DEF Request, RequestStates
<1>3. /\ g_auth_requests' \in Seq(Request)
      /\ Len(g_auth_requests') = Len(g_auth_requests)
      /\ Slots' = Slots
  BY <1>1, <1>2 DEF Reuse, Indexed, TypeOK, Slots
<1>4. s \in 1 .. MaxSlots
  BY <1>1, Finiteness, NpAuthAssumption
  DEF Indexed, TypeOK, Counting, NoSlotLeak, Slots
<1>5. s \notin LiveSlots
  BY <1>1 DEF LiveSlots
<1>6. Fresh(s, async)
  BY <1>1, <1>3, <1>4, <1>5 DEF Fresh, Reuse, Return, Indexed, TypeOK, Slots
<1>7. Cardinality(LiveSlots) < Len(g_auth_requests)
  <2>1. LiveSlots \in SUBSET Slots /\ LiveSlots # Slots
    BY <1>5 DEF LiveSlots
  <2> QED
    BY <2>1, Finiteness, FS_Subset DEF Indexed, TypeOK
<1> QED
  BY <1>3, <1>6, <1>7

LEMMA GrowFresh ==
  ASSUME Indexed, NEW async \in BOOLEAN, Grow(async),
         Len(g_auth_requests) < MaxSlots
  PROVE  /\ Fresh(Len(g_auth_requests) + 1, async)
         /\ Len(g_auth_requests') = Len(g_auth_requests) + 1
         /\ Cardinality(LiveSlots) = Len(g_auth_requests)
<1> DEFINE s == Len(g_auth_requests) + 1
           r == [state |-> "Ready", async |-> async, result |-> "OK"]
<1>1. r \in Request /\ NewPast \in Past
  BY DEF Request, RequestStates, ResultCodes, NewPast, Past
<1>2. /\ g_auth_requests' = Append(g_auth_requests, r)
      /\ past' = Append(past, NewPast)
      /\ g_auth_requests \in Seq(Request) /\ past \in Seq(Past)
      /\ Len(past) = Len(g_auth_requests)
      /\ Len(g_auth_requests) \in Nat
  BY DEF Grow, Indexed, TypeOK
<1>3. /\ g_auth_requests' \in Seq(Request)
      /\ past' \in Seq(Past)
      /\ Len(g_auth_requests') = s
      /\ Len(past') = s
      /\ g_auth_requests'[s] = r
      /\ past'[s] = NewPast
      /\ \A i \in 1 .. Len(g_auth_requests) :
           g_auth_requests'[i] = g_auth_requests[i] /\ past'[i] = past[i]
  BY <1>1, <1>2
<1>4. Slots = 1 .. Len(g_auth_requests) /\ Slots' = 1 .. s
  BY <1>2, <1>3 DEF Slots
<1>5. Slots' = Slots \cup {s} /\ s \notin Slots
  BY <1>2, <1>4
<1>6. s \in 1 .. MaxSlots
  BY <1>2, NpAuthAssumption
<1>7. ret' = [call |-> "Create", id |-> s + Offset, code |-> "OK", out |-> "none"]
  BY DEF Grow, Return
<1>8. Fresh(s, async)
  BY <1>3, <1>4, <1>5, <1>6, <1>7 DEF Fresh, LiveSlots
<1>9. Cardinality(LiveSlots) = Len(g_auth_requests)
  BY Finiteness DEF Grow, Indexed
<1> QED
  BY <1>3, <1>8, <1>9

LEMMA FinishCreateShape ==
  ASSUME Indexed, NEW t \in Threads, FinishCreate(t)
  PROVE  /\ \E s : Fresh(s, creating[t] = "async") /\ LiveSlots' = LiveSlots \cup {s}
         /\ t \in Creators
         /\ Creators' = Creators \ {t}
         /\ Cardinality(Creators') = Cardinality(Creators) - 1
         /\ g_active_auth_requests' = g_active_auth_requests + 1
         /\ UNCHANGED <<library, overlapped>>
         /\ Indexed'
<1>0. PICK async \in BOOLEAN : async = (creating[t] = "async")
  OBVIOUS
<1>1. /\ (\E s \in Slots : Reuse(s, async)) \/ Grow(async)
      /\ g_active_auth_requests' = g_active_auth_requests + 1
      /\ peak' = IF g_active_auth_requests + 1 > peak
                 THEN g_active_auth_requests + 1 ELSE peak
      /\ creating' = [creating EXCEPT ![t] = "no"]
      /\ UNCHANGED <<library, overlapped>>
      /\ t \in Creators
  BY <1>0 DEF FinishCreate, Creators
<1>2. Creators' = Creators \ {t}
  BY <1>1 DEF Creators, Indexed, TypeOK
<1>3. /\ Cardinality(Creators') = Cardinality(Creators) - 1
      /\ Cardinality(Creators') \in Nat
  <2>1. IsFiniteSet(Creators')
    BY <1>2, Finiteness, FS_RemoveElement DEF Indexed
  <2> QED
    BY <1>1, <1>2, <2>1, Finiteness, FS_RemoveElement, FS_CardinalityType DEF Indexed
<1>4. /\ g_active_auth_requests = Cardinality(LiveSlots)
      /\ g_active_auth_requests \in Nat
      /\ peak = Len(g_auth_requests)
      /\ peak \in Nat
      /\ peak <= MaxSlots
      /\ g_active_auth_requests + 1 <= MaxSlots
      /\ g_active_auth_requests' + Cardinality(Creators') <= MaxSlots
  BY <1>1, <1>3, Finiteness, NpAuthAssumption
  DEF Indexed, TypeOK, Counting, ActiveCountExact, NoSlotLeak
<1>5. \E s : /\ Fresh(s, async)
             /\ Len(g_auth_requests') = peak'
             /\ peak' \in Nat
             /\ peak' <= MaxSlots
  <2>1. ASSUME NEW s \in Slots, Reuse(s, async)
        PROVE  Fresh(s, async) /\ Len(g_auth_requests') = peak' /\ peak' = peak
    BY <1>1, <1>4, <2>1, ReuseFresh
  <2>2. ASSUME Grow(async)
        PROVE  /\ Fresh(Len(g_auth_requests) + 1, async)
               /\ Len(g_auth_requests') = peak'
               /\ peak' = peak + 1
               /\ peak' <= MaxSlots
    <3>1. Cardinality(LiveSlots) = Len(g_auth_requests)
      BY <2>2, Finiteness DEF Grow, Indexed
    <3>2. Len(g_auth_requests) < MaxSlots
      BY <1>4, <3>1, NpAuthAssumption
    <3> QED
      BY <1>1, <1>4, <2>2, <3>1, <3>2, GrowFresh
  <2> QED
    BY <1>1, <1>4, <2>1, <2>2
<1>6. PICK s : /\ Fresh(s, async)
               /\ Len(g_auth_requests') = peak'
               /\ peak' \in Nat
               /\ peak' <= MaxSlots
  BY <1>5
<1>7. LiveSlots' = LiveSlots \cup {s}
  BY <1>6 DEF Fresh, LiveSlots
<1>8. Cardinality(LiveSlots') = Cardinality(LiveSlots) + 1
  BY <1>6, <1>7, Finiteness, FS_AddElement DEF Fresh, Indexed
<1>9. RetOK'
  BY <1>6, NpAuthAssumption DEF Fresh, RetOK, Calls, S32, ReturnCodes, ResultCodes
<1>10. TypeOK'
  BY <1>1, <1>4, <1>6, <1>9 DEF Fresh, TypeOK, Indexed, RetOK
<1>11. Counting'
  BY <1>1, <1>4, <1>6, <1>8 DEF Counting, ActiveCountExact, NoSlotLeak
<1> QED
  BY <1>0, <1>1, <1>2, <1>3, <1>6, <1>7, <1>10, <1>11 DEF Indexed

(* A step of a creating call is quiet, passes the check, or finishes. *)
LEMMA CreateCallCases ==
  ASSUME Indexed, NEW t \in Threads, CreateCall(t)
  PROVE  \/ Quiet /\ RetOK'
         \/ \E kind \in {"sync", "async"} :
              creating[t] = "no" /\ BeginCreate(t, kind)
         \/ FinishCreate(t)
<1>1. CASE sceNpAuthCreateRequest(t)
  BY <1>1 DEF sceNpAuthCreateRequest, CanCall
<1>2. ASSUME NEW p \in Params, sceNpAuthCreateAsyncRequest(t, p)
      PROVE  \/ Quiet /\ RetOK'
             \/ creating[t] = "no" /\ BeginCreate(t, "async")
  <2>1. ParamError(p) \in ReturnCodes
    BY DEF ParamError, ReturnCodes, ResultCodes
  <2> QED
    BY <1>2, <2>1, RefuseCreateShape DEF sceNpAuthCreateAsyncRequest, CanCall
<1> QED
  BY <1>1, <1>2 DEF CreateCall

LEMMA InitIndexed == Init => Indexed
<1> SUFFICES ASSUME Init PROVE Indexed
  OBVIOUS
<1>1. Slots = {} /\ LiveSlots = {} /\ Creators = {}
  BY DEF Init, Slots, LiveSlots, Creators
<1>2. Cardinality({}) = 0
  BY FS_EmptySet
<1>3. RetOK
  BY NpAuthAssumption DEF Init, RetOK, S32, ReturnCodes, ResultCodes
<1>4. TypeOK
  <2>1. /\ << >> \in Seq(Request) /\ << >> \in Seq(Past)
        /\ Len(past) = Len(g_auth_requests)
    BY DEF Init
  <2>2. creating \in [Threads -> {"no", "sync", "async"}]
    BY DEF Init
  <2> QED
    BY <1>3, <2>1, <2>2 DEF Init, TypeOK, RetOK
<1>5. Counting
  BY <1>1, <1>2, NpAuthAssumption DEF Init, Counting, ActiveCountExact, NoSlotLeak
<1> QED
  BY <1>4, <1>5 DEF Indexed

LEMMA NextIndexed == Indexed /\ [Next]_vars => Indexed'
<1> SUFFICES ASSUME Indexed, [Next]_vars PROVE Indexed'
  OBVIOUS
<1>1. CASE UNCHANGED vars
  BY <1>1, QuietIndexed DEF vars, Quiet, RetOK, Indexed, TypeOK
<1>2. CASE RegisterLib
  BY <1>2, RegisterIndexed
<1>3. ASSUME NEW t \in Threads, CreateCall(t) PROVE Indexed'
  BY <1>3, CreateCallCases, QuietIndexed, BeginCreateShape, FinishCreateShape
<1>4. ASSUME NEW t \in Threads, NEW id \in Ids, RequestCall(t, id)
      PROVE  Indexed'
  BY <1>4, RequestCallShape, QuietIndexed, RewriteIndexed, FreeIndexed
<1> QED
  BY <1>1, <1>2, <1>3, <1>4 DEF Next

THEOREM SpecIndexed == Spec => []Indexed
  BY InitIndexed, NextIndexed, PTL DEF Spec

(***************************************************************************)
(* Every variable keeps its type: ids given to the guest stay in the range *)
(* of an s32 and the counter never goes below zero.                        *)
(***************************************************************************)
THEOREM TypeCorrect == Spec => []TypeOK
<1>1. Indexed => TypeOK
  BY DEF Indexed
<1> QED
  BY <1>1, SpecIndexed, PTL

(***************************************************************************)
(* g_active_auth_requests is the number of live requests, for any number   *)
(* of threads creating and deleting at once.                               *)
(***************************************************************************)
THEOREM CounterExact == Spec => []ActiveCountExact
<1>1. Indexed => ActiveCountExact
  BY DEF Indexed, Counting
<1> QED
  BY <1>1, SpecIndexed, PTL

(***************************************************************************)
(* The vector never grows while it has a free slot.                        *)
(***************************************************************************)
THEOREM SlotsReused == Spec => []NoSlotLeak
<1>1. Indexed => NoSlotLeak
  BY DEF Indexed, Counting
<1> QED
  BY <1>1, SpecIndexed, PTL

-----------------------------------------------------------------------------
(***************************************************************************)
(* The limit.  While no creations have overlapped there is at most one     *)
(* thread between its check and the lock, and room for what it creates.    *)
(***************************************************************************)
RoomForCreator ==
  ~overlapped =>
    /\ Cardinality(Creators) <= 1
    /\ g_active_auth_requests + Cardinality(Creators) <= Limit

LEMMA NextRoom == Indexed /\ RoomForCreator /\ [Next]_vars => RoomForCreator'
<1> SUFFICES ASSUME Indexed, RoomForCreator, [Next]_vars PROVE RoomForCreator'
  OBVIOUS
<1>1. ASSUME g_active_auth_requests' = g_active_auth_requests, UNCHANGED threads
      PROVE  RoomForCreator'
  BY <1>1 DEF RoomForCreator, Creators
<1>2. CASE UNCHANGED vars \/ RegisterLib
  BY <1>1, <1>2 DEF vars, RegisterLib
<1>3. CASE Quiet
  BY <1>1, <1>3 DEF Quiet
<1>4. ASSUME NEW t \in Threads, CreateCall(t), ~Quiet PROVE RoomForCreator'
  <2>1. CASE FinishCreate(t)
    BY <2>1, FinishCreateShape, Finiteness, NpAuthAssumption
    DEF RoomForCreator, Indexed, TypeOK
  <2>2. ASSUME NEW kind \in {"sync", "async"}, creating[t] = "no",
               BeginCreate(t, kind)
        PROVE  RoomForCreator'
    <3>1. /\ g_active_auth_requests # Limit
          /\ UNCHANGED g_active_auth_requests
          /\ overlapped' = (overlapped \/ Creators # {})
          /\ Cardinality(Creators') = Cardinality(Creators) + 1
      BY <1>4, <2>2, BeginCreateShape
    <3>2. SUFFICES ASSUME ~overlapped'
                   PROVE  /\ Cardinality(Creators') <= 1
                          /\ g_active_auth_requests' + Cardinality(Creators')
                               <= Limit
      BY DEF RoomForCreator
    <3>3. ~overlapped /\ Creators = {}
      BY <3>1, <3>2
    <3>4. Cardinality(Creators) = 0
      BY <3>3, FS_EmptySet
    <3>5. g_active_auth_requests <= Limit
      BY <3>3, <3>4 DEF RoomForCreator, Indexed, TypeOK
    <3> QED
      BY <3>1, <3>4, <3>5, NpAuthAssumption DEF Indexed, TypeOK
  <2> QED
    BY <1>4, <2>1, <2>2, CreateCallCases
<1>5. ASSUME NEW t \in Threads, NEW id \in Ids, RequestCall(t, id), ~Quiet
      PROVE  RoomForCreator'
  <2>1. PICK s : Rewrite(s) \/ Free(s)
    BY <1>5, RequestCallShape
  <2>2. CASE Rewrite(s)
    BY <1>1, <2>2 DEF Rewrite
  <2>3. CASE Free(s)
    <3>1. Creators' = Creators /\ UNCHANGED overlapped
      BY <2>3 DEF Free, Creators
    <3> QED
      <4>1. /\ g_active_auth_requests \in Nat /\ Cardinality(Creators) \in Nat
            /\ Limit \in Nat
        BY Finiteness, NpAuthAssumption DEF Indexed, TypeOK
      <4>2. g_active_auth_requests' = g_active_auth_requests - 1
        BY <2>3 DEF Free
      <4> QED
        BY <3>1, <4>1, <4>2 DEF RoomForCreator
  <2> QED
    BY <2>1, <2>2, <2>3
<1> QED
  BY <1>2, <1>3, <1>4, <1>5 DEF Next

(***************************************************************************)
(* As long as no two creations overlap, and however many other threads     *)
(* serve, abort and delete in between, the limit holds.                    *)
(***************************************************************************)
THEOREM LimitHolds == Spec => []LimitWithoutOverlap
<1>1. Init => RoomForCreator
  <2>1. ASSUME Init PROVE Cardinality(Creators) = 0
    <3>1. Creators = {}
      BY <2>1 DEF Init, Creators
    <3> QED
      BY <3>1, FS_EmptySet
  <2>2. ASSUME Init
        PROVE  /\ Cardinality(Creators) <= 1
               /\ g_active_auth_requests + Cardinality(Creators) <= Limit
    <3>1. Cardinality(Creators) = 0 /\ g_active_auth_requests = 0
      BY <2>1, <2>2 DEF Init
    <3> QED
      BY <3>1, NpAuthAssumption
  <2> QED
    BY <2>2 DEF RoomForCreator
<1>2. Indexed /\ RoomForCreator => LimitWithoutOverlap
  BY Finiteness, NpAuthAssumption
  DEF RoomForCreator, LimitWithoutOverlap, LimitRespected, Indexed, TypeOK
<1> QED
  BY <1>1, <1>2, NextRoom, SpecIndexed, PTL DEF Spec

-----------------------------------------------------------------------------
(***************************************************************************)
(* What happened to the request in each slot.  A free slot is included: a  *)
(* reused one must start with a request that nobody has served.            *)
(***************************************************************************)
Told == TokenBehindSuccess /\ FailureReported

History ==
  /\ \A s \in Slots : Agree(g_auth_requests[s], past[s])
  /\ Told

(* What a call tells the guest about its request is true. *)
LEMMA RequestCallTold ==
  ASSUME Indexed, History, NEW t \in Threads, NEW id \in Ids, RequestCall(t, id)
  PROVE  Told'
<1>1. ASSUME ret'.call \notin ReportCalls PROVE Told'
  BY <1>1 DEF Told, TokenBehindSuccess, FailureReported
<1>2. ASSUME NEW call \in TokenCalls, NEW entry \in {"plain", "A"},
             NEW p \in Params, ServeCall(call, t, entry, p, id)
      PROVE  ret'.call \notin ReportCalls
  <2>1. ret'.call = call
    BY <1>2 DEF ServeCall, Serve, NotFound, ServeDecided, ServeSignedOut,
       ServeSignedIn, Refuse, Return
  <2> QED
    BY <2>1 DEF TokenCalls, ReportCalls
<1>3. CASE sceNpAuthAbortRequest(t, id) \/ sceNpAuthDeleteRequest(t, id)
  <2>1. ret'.call \in {"AbortRequest", "DeleteRequest"}
    BY <1>3 DEF sceNpAuthAbortRequest, sceNpAuthDeleteRequest, NotFound, Refuse, Return
  <2> QED
    BY <1>1, <2>1 DEF ReportCalls
<1>4. ASSUME NEW call \in ReportCalls, NEW p \in {"valid", "null"},
             Report(call, t, p, id)
      PROVE  Told'
  <2> SUFFICES ASSUME ret'.out # "none", Found(id),
                      Return(call, id, "OK", g_auth_requests[ReqIndex(id) + 1].result),
                      Quiet
               PROVE  Told'
    <3>1. CASE ret'.out = "none" /\ ret'.code # "OK"
      BY <3>1 DEF Told, TokenBehindSuccess, FailureReported
    <3>2. \/ ret'.out = "none" /\ ret'.code # "OK"
          \/ /\ Found(id) /\ Quiet
             /\ Return(call, id, "OK", g_auth_requests[ReqIndex(id) + 1].result)
      BY <1>4 DEF Report, NotFound, Refuse, Return, Quiet
    <3>3. Found(id) => g_auth_requests[ReqIndex(id) + 1].result \in ResultCodes
      <4>1. Found(id) => ReqIndex(id) + 1 \in LiveSlots
        BY DEF Found, LiveSlots
      <4> QED
        BY <4>1, SlotTyped DEF Indexed, Request
    <3> QED
      BY <3>1, <3>2, <3>3 DEF Return, ResultCodes
  <2> DEFINE s == ReqIndex(id) + 1
  <2>1. ret'.id = id /\ ret'.out = g_auth_requests[s].result
    BY DEF Return
  <2>2. Agree(g_auth_requests[s], past[s])
    BY DEF Found, History
  <2>3. UNCHANGED <<g_auth_requests, past>>
    BY DEF Quiet
  <2> QED
    BY <2>1, <2>2, <2>3 DEF Told, TokenBehindSuccess, FailureReported, Agree, ReqIndex
<1> QED
  BY <1>1, <1>2, <1>3, <1>4
  DEF RequestCall, GetAuthorizationCode, GetIdToken, TokenCalls,
      sceNpAuthWaitAsync, sceNpAuthPollAsync, ReportCalls

(* The slots other than the changed one, and the changed one. *)
LEMMA ShapeAgree ==
  ASSUME Indexed, History, NEW s, Rewrite(s) \/ Free(s)
  PROVE  \A i \in Slots' : Agree(g_auth_requests[i], past[i])'
<1>1. /\ s \in Slots
      /\ s \in DOMAIN g_auth_requests /\ s \in DOMAIN past
      /\ g_auth_requests[s] \in Request /\ past[s] \in Past
      /\ Agree(g_auth_requests[s], past[s])
  BY SlotTyped DEF Rewrite, Free, LiveSlots, History, Indexed
<1>2. CASE Rewrite(s)
  <2>1. PICK r \in Request, h \in Past :
          /\ Agree(r, h)
          /\ g_auth_requests' = [g_auth_requests EXCEPT ![s] = r]
          /\ past' = [past EXCEPT ![s] = h]
    BY <1>1, <1>2 DEF Rewrite
  <2>2. Slots' = Slots /\ DOMAIN past = Slots
    BY <2>1 DEF Slots, Indexed, TypeOK
  <2>3. g_auth_requests'[s] = r /\ past'[s] = h
    BY <1>1, <2>1
  <2>4. ASSUME NEW i \in Slots, i # s
        PROVE  g_auth_requests'[i] = g_auth_requests[i] /\ past'[i] = past[i]
    BY <2>1, <2>2, <2>4 DEF Slots
  <2> QED
    BY <2>1, <2>2, <2>3, <2>4 DEF History, Agree
<1>3. CASE Free(s)
  <2>1. Slots' = Slots /\ DOMAIN past = Slots
    BY <1>3 DEF Free, Slots, Indexed, TypeOK
  <2>2. g_auth_requests'[s].state = "None" /\ past'[s] = NewPast
    BY <1>1, <1>3 DEF Free, Request
  <2>3. ASSUME NEW i \in Slots, i # s
        PROVE  g_auth_requests'[i] = g_auth_requests[i] /\ past'[i] = past[i]
    BY <1>3, <2>1, <2>3 DEF Free, Slots
  <2> QED
    BY <2>1, <2>2, <2>3 DEF History, Agree, NewPast
<1> QED
  BY <1>2, <1>3

LEMMA NextHistory == Indexed /\ History /\ [Next]_vars => History'
<1> SUFFICES ASSUME Indexed, History, [Next]_vars PROVE History'
  OBVIOUS
<1>1. ASSUME UNCHANGED table PROVE \A i \in Slots' : Agree(g_auth_requests[i], past[i])'
  BY <1>1 DEF History, Slots, Agree
<1>2. ASSUME UNCHANGED <<table, ret>> PROVE History'
  BY <1>1, <1>2 DEF History, Told, TokenBehindSuccess, FailureReported, ReqIndex
<1>3. CASE UNCHANGED vars \/ RegisterLib
  BY <1>2, <1>3 DEF vars, RegisterLib
<1>4. ASSUME NEW t \in Threads, CreateCall(t) PROVE History'
  <2>1. ASSUME NEW code \in ReturnCodes, Refuse("Create", 0, code) PROVE History'
    BY <1>1, <2>1 DEF Refuse, Return, History, Told, TokenBehindSuccess,
       FailureReported, ReportCalls
  <2>2. ASSUME NEW kind \in {"sync", "async"}, BeginCreate(t, kind)
        PROVE  History'
    BY <1>2, <2>1, <2>2 DEF BeginCreate, ReturnCodes
  <2>3. CASE FinishCreate(t)
    <3>1. PICK async, s : Fresh(s, async)
      BY <2>3, FinishCreateShape
    <3>2. Told'
      BY <3>1 DEF Fresh, Told, TokenBehindSuccess, FailureReported, ReportCalls
    <3>3. Agree(g_auth_requests'[s], past'[s])
      <4>1. past'[s].served = 0
        BY <3>1, <2>3 DEF Fresh, NewPast, History, Agree, Slots, LiveSlots
      <4> QED
        BY <3>1, <4>1 DEF Fresh, Agree
    <3> QED
      BY <3>1, <3>2, <3>3 DEF Fresh, History, Agree
  <2>4. ASSUME NEW p \in Params, p # "valid" PROVE ParamError(p) \in ReturnCodes
    BY DEF ParamError, ReturnCodes, ResultCodes
  <2> QED
    BY <1>4, <2>1, <2>2, <2>3, <2>4
    DEF CreateCall, sceNpAuthCreateRequest, sceNpAuthCreateAsyncRequest
<1>5. ASSUME NEW t \in Threads, NEW id \in Ids, RequestCall(t, id)
      PROVE  History'
  <2>1. Told'
    BY <1>5, RequestCallTold
  <2>2. \A i \in Slots' : Agree(g_auth_requests[i], past[i])'
    BY <1>1, <1>5, RequestCallShape, ShapeAgree DEF Quiet
  <2> QED
    BY <2>1, <2>2 DEF History
<1> QED
  BY <1>3, <1>4, <1>5 DEF Next

THEOREM SpecHistory == Spec => []History
<1>1. Init => History
  BY DEF Init, History, Slots, Told, TokenBehindSuccess, FailureReported, ReportCalls
<1> QED
  BY <1>1, NextHistory, SpecIndexed, PTL DEF Spec

(***************************************************************************)
(* No interleaving of token calls and aborts processes a request twice.    *)
(***************************************************************************)
THEOREM ServedOnce == Spec => []ServedAtMostOnce
<1>1. History => ServedAtMostOnce
  BY DEF History, ServedAtMostOnce, Agree, LiveSlots
<1> QED
  BY <1>1, SpecHistory, PTL

(***************************************************************************)
(* A success that WaitAsync or PollAsync reports for a Complete request    *)
(* has a code or token behind it that this request delivered.              *)
(***************************************************************************)
THEOREM SuccessHasToken == Spec => []TokenBehindSuccess
<1>1. History => TokenBehindSuccess
  BY DEF History, Told
<1> QED
  BY <1>1, SpecHistory, PTL

(***************************************************************************)
(* A request that failed is reported with its own failure.                 *)
(***************************************************************************)
THEOREM FailureTold == Spec => []FailureReported
<1>1. History => FailureReported
  BY DEF History, Told
<1> QED
  BY <1>1, SpecHistory, PTL

LEMMA NextKeepsDecision == Indexed /\ [Next]_vars => [DecisionKept]_vars
<1> SUFFICES ASSUME Indexed, Next PROVE DecisionKept
  OBVIOUS
<1>1. ASSUME UNCHANGED g_auth_requests PROVE DecisionKept
  BY <1>1 DEF DecisionKept, LiveSlots, Slots
<1>2. CASE RegisterLib \/ Quiet
  BY <1>1, <1>2 DEF RegisterLib, Quiet
<1>3. ASSUME NEW t \in Threads, CreateCall(t) PROVE DecisionKept
  <2>1. CASE FinishCreate(t)
    <3>1. PICK async, s : Fresh(s, async)
      BY <2>1, FinishCreateShape
    <3> QED
      BY <3>1 DEF Fresh, DecisionKept, LiveSlots
  <2>2. ASSUME NEW kind \in {"sync", "async"}, BeginCreate(t, kind)
        PROVE  DecisionKept
    BY <1>1, <2>2 DEF BeginCreate, Refuse
  <2> QED
    BY <1>2, <1>3, <2>1, <2>2, CreateCallCases
<1>4. ASSUME NEW s, Rewrite(s) PROVE DecisionKept
  <2>1. PICK r \in Request, h \in Past :
          /\ r.state # "None"
          /\ r.async = g_auth_requests[s].async
          /\ Decided(g_auth_requests[s]) => r.state = g_auth_requests[s].state
          /\ g_auth_requests' = [g_auth_requests EXCEPT ![s] = r]
    BY <1>4 DEF Rewrite
  <2>2. s \in DOMAIN g_auth_requests /\ Slots' = Slots
    BY <1>4, <2>1 DEF Rewrite, LiveSlots, Slots, Indexed, TypeOK
  <2>3. g_auth_requests'[s] = r
    BY <2>1, <2>2
  <2>4. \A i \in LiveSlots \ {s} : g_auth_requests'[i] = g_auth_requests[i]
    BY <2>1 DEF LiveSlots, Slots
  <2> QED
    BY <2>1, <2>2, <2>3, <2>4 DEF DecisionKept, LiveSlots, Decided
<1>5. ASSUME NEW s, Free(s) PROVE DecisionKept
  <2>1. s \in DOMAIN g_auth_requests /\ Slots' = Slots
    BY <1>5 DEF Free, LiveSlots, Slots, Indexed, TypeOK
  <2>2. g_auth_requests'[s].state = "None"
    BY <1>5, <2>1, SlotTyped DEF Free, Indexed, Request
  <2>3. \A i \in LiveSlots \ {s} : g_auth_requests'[i] = g_auth_requests[i]
    BY <1>5 DEF Free, LiveSlots, Slots
  <2> QED
    BY <1>5, <2>1, <2>2, <2>3 DEF Free, DecisionKept, LiveSlots
<1> QED
  BY <1>2, <1>3, <1>4, <1>5, RequestCallShape DEF Next

(***************************************************************************)
(* The outcome of a request is final: whichever of an abort and a token    *)
(* call gets the lock first decides, and only a deletion frees the slot.   *)
(***************************************************************************)
THEOREM DecisionFinal == Spec => DecidedIsFinal
<1>1. Indexed /\ [Next]_vars => [DecisionKept]_vars
  BY NextKeepsDecision
<1> QED
  BY <1>1, SpecIndexed, PTL DEF Spec, DecidedIsFinal
=============================================================================
