--------------------------- MODULE AcceptService ----------------------------
(***************************************************************************)
(* What accepting connections promises to the guest and to its peers: a    *)
(* connection waits until it is given to the guest, at most once, and a    *)
(* handle that was given stands for that connection from then on.          *)
(***************************************************************************)
CONSTANTS Fds, Conns

VARIABLES
  arrived,  \* connections that peers made
  given     \* handle -> the connection it was given for

waiting == arrived \ {given[h] : h \in DOMAIN given}

Init == arrived = {} /\ given = [h \in {} |-> h]

Arrive(c) ==
  /\ c \notin arrived
  /\ arrived' = arrived \cup {c}
  /\ UNCHANGED given

Give(h, c) ==
  /\ h \notin DOMAIN given
  /\ c \in waiting
  /\ given' = [g \in DOMAIN given \cup {h} |-> IF g = h THEN c ELSE given[g]]
  /\ UNCHANGED arrived

Next ==
  \/ \E c \in Conns : Arrive(c)
  \/ \E h \in Fds, c \in Conns : Give(h, c)

Spec == Init /\ [][Next]_<<arrived, given>>
=============================================================================
