--------------------------- MODULE AddressService ---------------------------
(***************************************************************************)
(* What the cached Ethernet address of NetUtilInternal promises to those   *)
(* who go by what RetrieveEthernetAddr returns: an address that changes    *)
(* as a whole, at the moment a retrieval reports success and at no other,  *)
(* to that of a usable interface.                                          *)
(***************************************************************************)
CONSTANTS
  Threads,
  Usable,  \* interfaces whose address may be stored
  None     \* no address yet

VARIABLES address, results

Init ==
  /\ address = None
  /\ results = [t \in Threads |-> "none"]

Succeed(t) ==
  /\ address' \in Usable
  /\ results' = [results EXCEPT ![t] = "true"]

Fail(t) ==
  /\ results' = [results EXCEPT ![t] = "false"]
  /\ UNCHANGED address

Next == \E t \in Threads : Succeed(t) \/ Fail(t)

Spec == Init /\ [][Next]_<<address, results>>
=============================================================================
