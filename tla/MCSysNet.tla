------------------------------ MODULE MCSysNet ------------------------------
(***************************************************************************)
(* Two threads, two connections and a handle for each of them.  Threads,   *)
(* connections and the handles not yet created are interchangeable.        *)
(***************************************************************************)
EXTENDS SysNet, TLC

CONSTANTS t1, t2, f1, f2, f3, f4, c1, c2

Interchangeable ==
  Permutations({t1, t2}) \cup Permutations({c1, c2}) \cup Permutations({f3, f4})
=============================================================================
