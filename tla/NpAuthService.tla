--------------------------- MODULE NpAuthService ---------------------------
(***************************************************************************)
(* What libSceNpAuth promises the guest, without the vector, its slots,    *)
(* the counter, the lock or the threads: a set of live requests, each      *)
(* known by an id that belongs to it alone, on which every call takes      *)
(* effect at once.  NpAuth is shown to implement this module.              *)
(***************************************************************************)
CONSTANTS
  Ids,         \* what a guest may pass as an id
  NewIds,      \* what a creation may answer
  ResultCodes, \* what may be stored in a request
  TokenCalls, ReportCalls

VARIABLES
  signed_in,
  requests,    \* live id -> [state, async, result]
  ret          \* what the last completed call gave the guest

vars == <<signed_in, requests, ret>>

Live == DOMAIN requests

Answer(call, id, code, out) ==
  ret' = [call |-> call, id |-> id, code |-> code, out |-> out]

Update(id, r) == requests' = [requests EXCEPT ![id] = r]

Init ==
  /\ signed_in = FALSE
  /\ requests = << >>
  /\ ret = [call |-> "none", id |-> 0, code |-> "OK", out |-> "none"]

(* The library is registered before the first request. *)
Register ==
  /\ Live = {}
  /\ signed_in' \in BOOLEAN
  /\ UNCHANGED <<requests, ret>>

(***************************************************************************)
(* A creation answers an id no live request has.  What is stored in the    *)
(* new request is left open.                                               *)
(***************************************************************************)
Create ==
  \E id \in NewIds \ Live, async \in BOOLEAN, result \in ResultCodes :
    /\ requests' = [i \in Live \cup {id} |->
         IF i = id THEN [state |-> "Ready", async |-> async, result |-> result]
         ELSE requests[i]]
    /\ Answer("Create", id, "OK", "none")
    /\ UNCHANGED signed_in

RefuseCreate ==
  /\ \E code \in {"REQUEST_MAX", "INVALID_ARGUMENT", "INVALID_SIZE"} :
       Answer("Create", 0, code, "none")
  /\ UNCHANGED <<signed_in, requests>>

(* Only an id that names no live request is reported as not found. *)
NotFound(call, id) ==
  /\ Answer(call, id, "REQUEST_NOT_FOUND", "none")
  /\ id \notin Live
  /\ UNCHANGED requests

RefuseToken(call, id) ==
  /\ \/ Answer(call, id, "INVALID_ARGUMENT", "none")
     \/ Answer(call, id, "INVALID_SIZE", "none")
     \/ ~signed_in /\ Answer(call, id, "USER_NOT_FOUND", "none")
  /\ UNCHANGED requests

(* A Ready request is completed, and only a signed-in user gets a token. *)
Complete(call, id) ==
  /\ id \in Live
  /\ requests[id].state = "Ready"
  /\ LET done == [requests[id] EXCEPT !.state = "Complete"]
     IN  \/ /\ signed_in
            /\ Update(id, done)
            /\ Answer(call, id, "OK", "token")
         \/ /\ ~signed_in
            /\ Update(id, [done EXCEPT !.result = "SIGNED_OUT"])
            /\ Answer(call, id,
                      IF requests[id].async THEN "OK" ELSE "SIGNED_OUT", "none")

(* A decided request answers with an error and keeps its state. *)
Repeat(call, id) ==
  /\ id \in Live
  /\ \E code \in {"INVALID_ARGUMENT", "ABORTED"} :
       /\ requests[id].state =
            IF code = "ABORTED" THEN "Aborted" ELSE "Complete"
       /\ Update(id, [requests[id] EXCEPT !.result = code])
       /\ Answer(call, id, code, "none")

Abort(id) ==
  /\ id \in Live
  /\ requests' =
       IF requests[id].state = "Complete" THEN requests
       ELSE [requests EXCEPT ![id].state = "Aborted"]
  /\ Answer("AbortRequest", id, "OK", "none")

(* A decided asynchronous request reports its result. *)
Report(call, id) ==
  /\ id \in Live
  /\ IF requests[id].async /\ requests[id].state # "Ready"
     THEN Answer(call, id, "OK", requests[id].result)
     ELSE Answer(call, id, "INVALID_ID", "none")
  /\ UNCHANGED requests

RefuseReport(call, id) ==
  Answer(call, id, "INVALID_ARGUMENT", "none") /\ UNCHANGED requests

Delete(id) ==
  /\ id \in Live
  /\ requests' = [i \in Live \ {id} |-> requests[i]]
  /\ Answer("DeleteRequest", id, "OK", "none")

RequestCall(id) ==
  \/ \E call \in TokenCalls :
       \/ NotFound(call, id) \/ RefuseToken(call, id)
       \/ Complete(call, id) \/ Repeat(call, id)
  \/ \E call \in ReportCalls :
       NotFound(call, id) \/ RefuseReport(call, id) \/ Report(call, id)
  \/ NotFound("AbortRequest", id) \/ Abort(id)
  \/ NotFound("DeleteRequest", id) \/ Delete(id)

Next ==
  \/ Register
  \/ Create
  \/ RefuseCreate
  \/ \E id \in Ids : RequestCall(id) /\ UNCHANGED signed_in

Spec == Init /\ [][Next]_vars
=============================================================================
