------------------------------ MODULE MCNpAuth ------------------------------
(***************************************************************************)
(* Small instances of NpAuth for TLC.                                      *)
(***************************************************************************)
EXTENDS NpAuth, TLC

(***************************************************************************)
(* The ids that MaxSlots = 2 slots get and, around them, the offset itself *)
(* (index -1) and the smallest s32, whose index wraps around.              *)
(***************************************************************************)
MCIds == {-IntMax - 1, Offset} \cup Offset + 1 .. Offset + MaxSlots

(* The same without the id just below them. *)
FewIds == MCIds \ {Offset}

(* The guest threads run the same code: any of them may be exchanged. *)
ThreadSymmetry == Permutations(Threads)
=============================================================================
