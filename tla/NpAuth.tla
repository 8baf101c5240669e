------------------------------- MODULE NpAuth -------------------------------
(***************************************************************************)
(* The request table of the libSceNpAuth HLE library                       *)
(* (src/core/libraries/np/np_auth.cpp).                                    *)
(*                                                                         *)
(* Guest threads create authentication requests, have them served          *)
(* (authorization code or id token), abort, wait for, poll and delete      *)
(* them.  All requests live in one vector, g_auth_requests, whose slots    *)
(* are reused; a guest names a request by the id  index + Offset + 1.      *)
(*                                                                         *)
(* Atomicity.  Every body below a scoped_lock of g_auth_request_mutex runs *)
(* without releasing it and is one action.  CreateNpAuthRequest alone      *)
(* reads shared state before it takes the lock (the limit check), so a     *)
(* creation is two actions: BeginCreate, the unlocked check, and           *)
(* FinishCreate, the locked body.  g_signed_in is written once, by         *)
(* RegisterLib, before the guest can call anything.                        *)
(*                                                                         *)
(* The sequences of TLA+ start at 1: slot s of the model is index s - 1 of *)
(* the vector.                                                             *)
(***************************************************************************)
EXTENDS Integers, Sequences, FiniteSets

CONSTANTS
  Threads,    \* guest threads
  Limit,      \* ORBIS_NP_AUTH_REQUEST_LIMIT
  Offset,     \* ORBIS_NP_AUTH_REQUEST_ID_OFFSET
  IntMax,     \* largest value of an s32
  Ids,        \* the ids the guest passes, any s32
  MaxSlots    \* bound of the model: requests live or being created at a time

ASSUME NpAuthAssumption ==
  /\ IsFiniteSet(Threads) /\ Threads # {}
  /\ Limit \in Nat \ {0}
  /\ Offset \in Nat \ {0}
  /\ MaxSlots \in Nat \ {0}
  /\ IntMax \in Nat
  /\ Offset + MaxSlots <= IntMax
  /\ Ids \subseteq -IntMax - 1 .. IntMax

S32 == -IntMax - 1 .. IntMax

RequestStates == {"None", "Ready", "Aborted", "Complete"}

ResultCodes == {"OK", "INVALID_ARGUMENT", "ABORTED", "SIGNED_OUT"}

ReturnCodes == ResultCodes \cup
  {"REQUEST_MAX", "INVALID_SIZE", "REQUEST_NOT_FOUND", "USER_NOT_FOUND",
   "INVALID_ID"}

Request == [state : RequestStates, async : BOOLEAN, result : ResultCodes]

TokenCalls  == {"GetAuthorizationCode", "GetIdToken"}
ReportCalls == {"WaitAsync", "PollAsync"}
Calls == TokenCalls \cup ReportCalls \cup {"Create", "AbortRequest", "DeleteRequest"}

(***************************************************************************)
(* What a guest passes as the parameter struct of a call: a good one, a    *)
(* null pointer, one with a wrong size field, one with a missing member.   *)
(***************************************************************************)
Params == {"valid", "null", "size", "member"}

ParamError(p) == IF p = "size" THEN "INVALID_SIZE" ELSE "INVALID_ARGUMENT"

-----------------------------------------------------------------------------
VARIABLES
  registered,              \* has RegisterLib run?
  g_signed_in,
  g_active_auth_requests,
  g_auth_requests,
  creating,                \* where a thread is in CreateNpAuthRequest
  ret                      \* what the last completed call gave the guest

(***************************************************************************)
(* History variables: they record facts about the run for the properties   *)
(* and no action of the library reads them.  For the request that lives in *)
(* slot s, past[s] holds                                                   *)
(*   own        the code of this request's own latest processing,          *)
(*   served     how many calls processed it,                               *)
(*   delivered  whether one of them wrote a code or token to the guest;    *)
(* peak is the largest number of requests that ever existed at once, and   *)
(* overlapped whether two creations ever overlapped: one passed the limit  *)
(* check while the other was between its check and the lock.               *)
(***************************************************************************)
VARIABLES past, peak, overlapped

table   == <<g_active_auth_requests, g_auth_requests, past, peak>>
library == <<registered, g_signed_in>>
threads == <<creating, overlapped>>
vars    == <<library, table, threads, ret>>

Past == [own : ResultCodes \cup {"none"}, served : Nat, delivered : BOOLEAN]

NewPast == [own |-> "none", served |-> 0, delivered |-> FALSE]

Slots == DOMAIN g_auth_requests

LiveSlots == {s \in Slots : g_auth_requests[s].state # "None"}

Creators == {t \in Threads : creating[t] # "no"}

TypeOK ==
  /\ registered \in BOOLEAN
  /\ g_signed_in \in BOOLEAN
  /\ g_active_auth_requests \in Nat
  /\ g_auth_requests \in Seq(Request)
  /\ creating \in [Threads -> {"no", "sync", "async"}]
  /\ ret \in [call : Calls \cup {"none"}, id : S32, code : ReturnCodes,
              out : ResultCodes \cup {"none", "token"}]
  /\ past \in Seq(Past)
  /\ Len(past) = Len(g_auth_requests)
  /\ peak \in Nat
  /\ overlapped \in BOOLEAN

-----------------------------------------------------------------------------
(***************************************************************************)
(* req_id - ORBIS_NP_AUTH_REQUEST_ID_OFFSET - 1 in s32 arithmetic.  The    *)
(* subtraction overflows for the smallest ids; the build wraps around.     *)
(***************************************************************************)
ReqIndex(id) ==
  LET d == id - Offset - 1
  IN  IF d < -IntMax - 1 THEN d + 2 * (IntMax + 1) ELSE d

(* Mutant of Found: trusts an index inside the vector. *)
FoundByIndex(id) == ReqIndex(id) + 1 \in Slots

(***************************************************************************)
(* The lookup test that opens every locked body.  The index is compared    *)
(* with the unsigned size(): a negative one is converted to a huge value   *)
(* and rejected as well.                                                   *)
(***************************************************************************)
Found(id) ==
  /\ g_active_auth_requests # 0
  /\ ReqIndex(id) + 1 \in Slots
  /\ g_auth_requests[ReqIndex(id) + 1].state # "None"

CanCall(t) == registered /\ creating[t] = "no"

Return(call, id, code, out) ==
  ret' = [call |-> call, id |-> id, code |-> code, out |-> out]

(* A call that returns an error and changes nothing. *)
Refuse(call, id, code) ==
  /\ Return(call, id, code, "none")
  /\ UNCHANGED <<library, table, threads>>

-----------------------------------------------------------------------------
RegisterLib ==
  /\ ~registered
  /\ registered' = TRUE
  /\ g_signed_in' \in BOOLEAN
  /\ UNCHANGED <<table, threads, ret>>

(* Mutant of BeginCreate: lets one request too many through. *)
BeginCreateLate(t, kind) ==
  \/ g_active_auth_requests > Limit /\ Refuse("Create", 0, "REQUEST_MAX")
  \/ /\ g_active_auth_requests <= Limit
     /\ g_active_auth_requests + Cardinality(Creators) < MaxSlots
     /\ creating' = [creating EXCEPT ![t] = kind]
     /\ overlapped' = (overlapped \/ Creators # {})
     /\ UNCHANGED <<library, table, ret>>

(***************************************************************************)
(* CreateNpAuthRequest up to the lock: the limit check reads the counter   *)
(* unlocked, as the single load the build makes of it.                     *)
(***************************************************************************)
BeginCreate(t, kind) ==
  \/ /\ g_active_auth_requests = Limit
     /\ Refuse("Create", 0, "REQUEST_MAX")
  \/ /\ g_active_auth_requests # Limit
     /\ g_active_auth_requests + Cardinality(Creators) < MaxSlots
     /\ creating' = [creating EXCEPT ![t] = kind]
     /\ overlapped' = (overlapped \/ Creators # {})
     /\ UNCHANGED <<library, table, ret>>

sceNpAuthCreateRequest(t) ==
  /\ CanCall(t)
  /\ BeginCreate(t, "sync")

sceNpAuthCreateAsyncRequest(t, p) ==
  /\ CanCall(t)
  /\ p # "member"
  /\ \/ p # "valid" /\ Refuse("Create", 0, ParamError(p))
     \/ p = "valid" /\ BeginCreate(t, "async")

(* Mutant of IsFirstFree: a decided request gives its slot away. *)
IsFirstDecided(s) ==
  /\ g_auth_requests[s].state # "Ready"
  /\ \A r \in 1 .. s - 1 : g_auth_requests[r].state = "Ready"

IsFirstFree(s) ==
  /\ g_auth_requests[s].state = "None"
  /\ \A r \in 1 .. s - 1 : g_auth_requests[r].state # "None"

(* A reused slot keeps the result its previous request left in it. *)
Reuse(s, async) ==
  /\ IsFirstFree(s)
  /\ g_auth_requests' = [g_auth_requests EXCEPT ![s] =
       [state |-> "Ready", async |-> async, result |-> @.result]]
  /\ UNCHANGED past
  /\ Return("Create", s + Offset, "OK", "none")

(* Mutant of Grow: appends without looking for a free slot. *)
GrowAnyway(async) ==
  /\ g_auth_requests' = Append(g_auth_requests,
       [state |-> "Ready", async |-> async, result |-> "OK"])
  /\ past' = Append(past, NewPast)
  /\ Return("Create", Len(g_auth_requests) + 1 + Offset, "OK", "none")

Grow(async) ==
  /\ LiveSlots = Slots
  /\ g_auth_requests' = Append(g_auth_requests,
       [state |-> "Ready", async |-> async, result |-> "OK"])
  /\ past' = Append(past, NewPast)
  /\ Return("Create", Len(g_auth_requests) + 1 + Offset, "OK", "none")

(* CreateNpAuthRequest from the lock on. *)
FinishCreate(t) ==
  /\ creating[t] # "no"
  /\ LET async == creating[t] = "async"
     IN  (\E s \in Slots : Reuse(s, async)) \/ Grow(async)
  /\ g_active_auth_requests' = g_active_auth_requests + 1
  /\ peak' = IF g_active_auth_requests + 1 > peak
             THEN g_active_auth_requests + 1 ELSE peak
  /\ creating' = [creating EXCEPT ![t] = "no"]
  /\ UNCHANGED <<library, overlapped>>

-----------------------------------------------------------------------------
(***************************************************************************)
(* The body that GetAuthorizationCode and GetIdToken share under the lock. *)
(* A request is served once: later calls only overwrite its result with an *)
(* error.  When the user is signed in the code or token is written to the  *)
(* guest and result is left as it is.                                      *)
(***************************************************************************)
NotFound(call, id) == ~Found(id) /\ Refuse(call, id, "REQUEST_NOT_FOUND")

(* A call on a request that is already decided. *)
ServeDecided(call, id, s) ==
  /\ g_auth_requests[s].state \in {"Complete", "Aborted"}
  /\ LET code == IF g_auth_requests[s].state = "Complete"
                 THEN "INVALID_ARGUMENT" ELSE "ABORTED"
     IN  /\ g_auth_requests' = [g_auth_requests EXCEPT ![s].result = code]
         /\ past' = [past EXCEPT ![s].own = code]
         /\ Return(call, id, code, "none")

(* Mutant of ServeSignedOut: answers without storing the result. *)
ServeSignedOutSilently(call, id, s) ==
  /\ g_auth_requests[s].state = "Ready"
  /\ ~g_signed_in
  /\ g_auth_requests' = [g_auth_requests EXCEPT ![s].state = "Complete"]
  /\ past' = [past EXCEPT ![s] =
       [own |-> "SIGNED_OUT", served |-> @.served + 1,
        delivered |-> @.delivered]]
  /\ Return(call, id,
            IF g_auth_requests[s].async THEN "OK" ELSE "SIGNED_OUT", "none")

ServeSignedOut(call, id, s) ==
  /\ g_auth_requests[s].state = "Ready"
  /\ ~g_signed_in
  /\ g_auth_requests' = [g_auth_requests EXCEPT ![s] =
       [state |-> "Complete", async |-> @.async, result |-> "SIGNED_OUT"]]
  /\ past' = [past EXCEPT ![s] =
       [own |-> "SIGNED_OUT", served |-> @.served + 1,
        delivered |-> @.delivered]]
  /\ Return(call, id,
            IF g_auth_requests[s].async THEN "OK" ELSE "SIGNED_OUT", "none")

(* Mutant of ServeSignedIn: serves a completed request again. *)
ServeSignedInAgain(call, id, s) ==
  /\ g_auth_requests[s].state # "Aborted"
  /\ g_signed_in
  /\ g_auth_requests' = [g_auth_requests EXCEPT ![s].state = "Complete"]
  /\ past' = [past EXCEPT ![s] =
       [own |-> "OK", served |-> @.served + 1, delivered |-> TRUE]]
  /\ Return(call, id, "OK", "token")

ServeSignedIn(call, id, s) ==
  /\ g_auth_requests[s].state = "Ready"
  /\ g_signed_in
  /\ g_auth_requests' = [g_auth_requests EXCEPT ![s].state = "Complete"]
  /\ past' = [past EXCEPT ![s] =
       [own |-> "OK", served |-> @.served + 1, delivered |-> TRUE]]
  /\ Return(call, id, "OK", "token")

Serve(call, id) ==
  \/ NotFound(call, id)
  \/ /\ Found(id)
     /\ LET s == ReqIndex(id) + 1
        IN  \/ ServeDecided(call, id, s)
            \/ ServeSignedOut(call, id, s)
            \/ ServeSignedIn(call, id, s)
     /\ UNCHANGED <<library, g_active_auth_requests, peak, threads>>

(***************************************************************************)
(* The entry points.  The plain ones, which take an online id, refuse      *)
(* while signed out; the A and V3 ones take a user id and go straight to   *)
(* the shared body.  The parameters are checked before the sign-in state   *)
(* and before the lock.                                                    *)
(***************************************************************************)
ServeCall(call, t, entry, p, id) ==
  /\ CanCall(t)
  /\ \/ p # "valid" /\ Refuse(call, id, ParamError(p))
     \/ /\ p = "valid"
        /\ entry = "plain" /\ ~g_signed_in
        /\ Refuse(call, id, "USER_NOT_FOUND")
     \/ /\ p = "valid"
        /\ entry = "A" \/ g_signed_in
        /\ Serve(call, id)

GetAuthorizationCode(t, entry, p, id) ==
  ServeCall("GetAuthorizationCode", t, entry, p, id)

GetIdToken(t, entry, p, id) ==
  ServeCall("GetIdToken", t, entry, p, id)

-----------------------------------------------------------------------------
(* Mutant of sceNpAuthAbortRequest: aborts a completed request too. *)
AbortAnyState(t, id) ==
  /\ CanCall(t)
  /\ \/ NotFound("AbortRequest", id)
     \/ /\ Found(id)
        /\ g_auth_requests' =
             [g_auth_requests EXCEPT ![ReqIndex(id) + 1].state = "Aborted"]
        /\ Return("AbortRequest", id, "OK", "none")
        /\ UNCHANGED <<library, g_active_auth_requests, past, peak, threads>>

sceNpAuthAbortRequest(t, id) ==
  /\ CanCall(t)
  /\ \/ NotFound("AbortRequest", id)
     \/ /\ Found(id)
        /\ LET s == ReqIndex(id) + 1
           IN  g_auth_requests' =
                 IF g_auth_requests[s].state = "Complete" THEN g_auth_requests
                 ELSE [g_auth_requests EXCEPT ![s].state = "Aborted"]
        /\ Return("AbortRequest", id, "OK", "none")
        /\ UNCHANGED <<library, g_active_auth_requests, past, peak, threads>>

(* What WaitAsync and PollAsync both do; neither of them waits. *)
Report(call, t, p, id) ==
  /\ CanCall(t)
  /\ \/ p = "null" /\ Refuse(call, id, "INVALID_ARGUMENT")
     \/ p = "valid" /\ NotFound(call, id)
     \/ /\ p = "valid" /\ Found(id)
        /\ LET r == g_auth_requests[ReqIndex(id) + 1]
           IN  IF ~r.async \/ r.state = "Ready"
               THEN Return(call, id, "INVALID_ID", "none")
               ELSE Return(call, id, "OK", r.result)
        /\ UNCHANGED <<library, table, threads>>

sceNpAuthWaitAsync(t, p, id) == Report("WaitAsync", t, p, id)

sceNpAuthPollAsync(t, p, id) == Report("PollAsync", t, p, id)

(* Mutant of sceNpAuthDeleteRequest: forgets the counter. *)
DeleteUncounted(t, id) ==
  /\ CanCall(t)
  /\ \/ NotFound("DeleteRequest", id)
     \/ /\ Found(id)
        /\ g_auth_requests' =
             [g_auth_requests EXCEPT ![ReqIndex(id) + 1].state = "None"]
        /\ past' = [past EXCEPT ![ReqIndex(id) + 1] = NewPast]
        /\ Return("DeleteRequest", id, "OK", "none")
        /\ UNCHANGED <<library, g_active_auth_requests, peak, threads>>

sceNpAuthDeleteRequest(t, id) ==
  /\ CanCall(t)
  /\ \/ NotFound("DeleteRequest", id)
     \/ /\ Found(id)
        /\ g_active_auth_requests' = g_active_auth_requests - 1
        /\ g_auth_requests' =
             [g_auth_requests EXCEPT ![ReqIndex(id) + 1].state = "None"]
        /\ past' = [past EXCEPT ![ReqIndex(id) + 1] = NewPast]
        /\ Return("DeleteRequest", id, "OK", "none")
        /\ UNCHANGED <<library, peak, threads>>

-----------------------------------------------------------------------------
Init ==
  /\ registered = FALSE
  /\ g_signed_in = FALSE
  /\ g_active_auth_requests = 0
  /\ g_auth_requests = <<>>
  /\ creating = [t \in Threads |-> "no"]
  /\ ret = [call |-> "none", id |-> 0, code |-> "OK", out |-> "none"]
  /\ past = <<>>
  /\ peak = 0
  /\ overlapped = FALSE

(* A call on a request: the guest may name an id that was never given out. *)
RequestCall(t, id) ==
  \/ \E entry \in {"plain", "A"}, p \in Params :
       GetAuthorizationCode(t, entry, p, id) \/ GetIdToken(t, entry, p, id)
  \/ sceNpAuthAbortRequest(t, id)
  \/ \E p \in {"valid", "null"} :
       sceNpAuthWaitAsync(t, p, id) \/ sceNpAuthPollAsync(t, p, id)
  \/ sceNpAuthDeleteRequest(t, id)

CreateCall(t) ==
  \/ sceNpAuthCreateRequest(t)
  \/ \E p \in Params : sceNpAuthCreateAsyncRequest(t, p)
  \/ FinishCreate(t)

Next ==
  \/ RegisterLib
  \/ \E t \in Threads : CreateCall(t) \/ \E id \in Ids : RequestCall(t, id)

Spec == Init /\ [][Next]_vars

-----------------------------------------------------------------------------
(***************************************************************************)
(* The counter that every lookup trusts is exactly the number of requests  *)
(* that exist, so the test  g_active_auth_requests == 0  never hides a     *)
(* live request and the limit check counts the right thing.                *)
(***************************************************************************)
ActiveCountExact == g_active_auth_requests = Cardinality(LiveSlots)

(***************************************************************************)
(* The vector has one slot for each request of the busiest moment of the   *)
(* run and no more: deleted slots are found again and reused before the    *)
(* vector grows, whatever the order of creations and deletions.            *)
(***************************************************************************)
NoSlotLeak == Len(g_auth_requests) = peak

(***************************************************************************)
(* ORBIS_NP_AUTH_REQUEST_LIMIT bounds the requests that exist at once.     *)
(***************************************************************************)
LimitRespected == g_active_auth_requests <= Limit

(***************************************************************************)
(* The limit holds for as long as no two creations overlap, even though    *)
(* the check reads the counter before the lock and other threads delete    *)
(* between the two.                                                        *)
(***************************************************************************)
LimitWithoutOverlap == ~overlapped => LimitRespected

(***************************************************************************)
(* A request is processed at most once, and exactly when it is Complete,   *)
(* however its calls, aborts and repeated calls of the two token functions *)
(* interleave.                                                             *)
(***************************************************************************)
ServedAtMostOnce ==
  \A s \in LiveSlots :
    past[s].served = (IF g_auth_requests[s].state = "Complete" THEN 1 ELSE 0)

(***************************************************************************)
(* When WaitAsync or PollAsync reports OK for a Complete request, a code   *)
(* or token has been written to the guest for that request, not for one    *)
(* that had the slot before.                                               *)
(***************************************************************************)
TokenBehindSuccess ==
  ret.call \in ReportCalls /\ ret.out = "OK" =>
    LET s == ReqIndex(ret.id) + 1
    IN  g_auth_requests[s].state = "Complete" => past[s].delivered

(***************************************************************************)
(* What WaitAsync or PollAsync reports for a Complete request is the       *)
(* outcome of that request's own latest processing ("we can just set       *)
(* result based on the request and return").                               *)
(***************************************************************************)
CompletedResultIsOwn ==
  ret.call \in ReportCalls /\ ret.code = "OK" =>
    LET s == ReqIndex(ret.id) + 1
    IN  g_auth_requests[s].state = "Complete" => ret.out = past[s].own

(***************************************************************************)
(* An error that a request ended with is reported as that error, whatever  *)
(* the slot held before: the only wrong report of a Complete request is an *)
(* error for one that got its code or token.                               *)
(***************************************************************************)
FailureReported ==
  ret.call \in ReportCalls /\ ret.code = "OK" =>
    LET s == ReqIndex(ret.id) + 1
    IN  g_auth_requests[s].state = "Complete" /\ past[s].own # "OK" =>
          ret.out = past[s].own

(* What a step may do to the requests that exist. *)
DecisionKept ==
  \A s \in LiveSlots :
    /\ s \in Slots'
    /\ g_auth_requests'[s].state # "None" =>
         /\ g_auth_requests'[s].async = g_auth_requests[s].async
         /\ g_auth_requests[s].state \in {"Complete", "Aborted"} =>
              g_auth_requests'[s].state = g_auth_requests[s].state
    /\ g_auth_requests'[s].state = "None" =>
         /\ ret'.call = "DeleteRequest"
         /\ ret'.code = "OK"

(***************************************************************************)
(* A request, once created, keeps its kind, and once Complete or Aborted   *)
(* never changes its mind: an abort that comes after the completion is     *)
(* ignored, a token call that comes after the abort does not complete it,  *)
(* and only its deletion frees the slot.                                   *)
(***************************************************************************)
DecidedIsFinal == [][DecisionKept]_vars

-----------------------------------------------------------------------------
(***************************************************************************)
(* The live requests by their ids.                                         *)
(***************************************************************************)
LiveRequests ==
  [id \in {s + Offset : s \in LiveSlots} |-> g_auth_requests[id - Offset]]

Service == INSTANCE NpAuthService WITH
  NewIds    <- Offset + 1 .. Offset + MaxSlots,
  signed_in <- g_signed_in,
  requests  <- LiveRequests

(***************************************************************************)
(* The table implements the request service: every entry point takes       *)
(* effect in one step on the request its id names, ids of live requests    *)
(* are never given out again, and only an id without a live request is     *)
(* answered with REQUEST_NOT_FOUND.                                        *)
(***************************************************************************)
ServiceSpec == Service!Spec
=============================================================================
